------------------------- MODULE EmitServiceProofs -------------------------
(***************************************************************************)
(* The emitter service for any pool, vocabulary and number of calls.  The  *)
(* pool stays sound through every operation, so that no block is handed    *)
(* out twice and a built program keeps what it refers to.  Each operation  *)
(* has a lemma that says what it leaves in the pool and which blocks it    *)
(* touches; the invariants follow from those, not from the operators.      *)
(***************************************************************************)
EXTENDS EmitService, DBlockPoolProofs

\* What blocks of the service hold.
Text == Names \cup Instructions \cup Operands \cup {"", "index", "id", "true"}
FunctionObjects == [txt : Names, value : Nat]
Commands == [tokens : Blocks \cup {Null}, pl_code : Blocks, asm_code : Blocks, labels : Blocks \cup {Null}]
LowLayouts == [memblock_index : Nat, base_address : {"none", "own", "shared"}]
HighLayouts == [memblock : Nat, memblock_id : Nat]
Cells == Text \cup Fields \cup FunctionObjects \cup Commands \cup LowLayouts \cup HighLayouts

\* The functions of a draft or a program: a table of names and a store.
FunctionsKept(p, t) ==
    LET s == p.db[t].store
    IN  /\ t \in Blocks /\ p.db[t].type = "TABLE" /\ p.db[t].persistence_code > 0
        /\ s \in Blocks /\ p.db[s].type = "UNSPECIFIED" /\ p.db[s].persistence_code > 0
        /\ p.db[s].content \in Seq(FunctionObjects)
        /\ \A i \in 1 .. Len(p.db[t].content) : p.db[t].content[i].value \in 1 .. Len(p.db[s].content)

\* The layouts: the list l that instructions index, and the table t of names
\* whose store says which element of l a name stands for.
LayoutsKept(p, l, t) ==
    LET s == p.db[t].store
    IN  /\ t \in Blocks /\ p.db[t].type = "TABLE" /\ p.db[t].persistence_code > 0
        /\ s \in Blocks /\ p.db[s].type = "UNSPECIFIED" /\ p.db[s].persistence_code > 0
        /\ l \in Blocks /\ p.db[l].type = "UNSPECIFIED" /\ p.db[l].persistence_code > 0 /\ l # s
        /\ p.db[l].content \in Seq(LowLayouts) /\ p.db[s].content \in Seq(HighLayouts)
        /\ \A i \in 1 .. Len(p.db[t].content) : p.db[t].content[i].value \in 1 .. Len(p.db[s].content)
        /\ \A i \in 1 .. Len(p.db[s].content) :
             /\ p.db[s].content[i].memblock \in 1 .. Len(p.db[l].content)
             /\ p.db[s].content[i].memblock = p.db[s].content[i].memblock_id + 1
        /\ \A i \in 1 .. Len(p.db[l].content) : p.db[l].content[i].memblock_index + 1 = i

\* The blocks that a draft or a program q keeps, but for the keys of its tables.
Holds(p, q) == {q.functions, p.db[q.functions].store,
                q.memory_layout_ll, q.memory_layout_hl, p.db[q.memory_layout_hl].store}
Kept(p, q) ==
    /\ FunctionsKept(p, q.functions)
    /\ LayoutsKept(p, q.memory_layout_ll, q.memory_layout_hl)
    /\ q.functions # q.memory_layout_hl
    /\ p.db[q.functions].store \notin {q.memory_layout_ll, p.db[q.memory_layout_hl].store}

\* A draft has more blocks, which the next cull frees: their code is 0.
Drafts == [drafting : {TRUE}, script_commands : Blocks, label_table : Blocks, labelindex_table : Blocks,
           memblock_table : Blocks, functions : Blocks, memory_layout_ll : Blocks, memory_layout_hl : Blocks,
           active_labels : Blocks \cup {Null}, active_labels_last : Blocks \cup {Null}]
Passing(p, b, type) == b \in Blocks /\ p.db[b].type = type /\ p.db[b].persistence_code = 0
DraftKept(p, c) ==
    /\ c \in Drafts
    /\ Kept(p, c)
    /\ Passing(p, c.script_commands, "UNSPECIFIED") /\ p.db[c.script_commands].content \in Seq(Commands)
    /\ Passing(p, c.label_table, "TABLE") /\ Passing(p, c.labelindex_table, "TABLE")
    /\ Passing(p, c.memblock_table, "TABLE")
    /\ c.label_table # c.labelindex_table
    /\ c.active_labels # Null
         => Passing(p, c.active_labels_last, "STRING") /\ p.db[c.active_labels_last].next = Null

\* The open command, and the last of its tokens, which the next is linked to.
CommandOpen(p, b, last) ==
    /\ Passing(p, b, "STRING") /\ p.db[b].token \in Blocks
    /\ Passing(p, last, "EXTERNAL") /\ p.db[last].next = Null

\* The inductive invariant: every block is where the code of its owner says.
ServiceSound ==
    /\ Sound(Cells, pool)
    /\ ctx \in Drafts \cup {[drafting |-> FALSE]}
    /\ ctx.drafting => DraftKept(pool, ctx)
    /\ {cmd, cmd_lasttoken} \subseteq Blocks \cup {Null}
    /\ cmd # Null => CommandOpen(pool, cmd, cmd_lasttoken)
    /\ \E S : programs \in Seq(S)
    /\ \A n \in 1 .. Len(programs) :
         /\ Kept(pool, programs[n])
         /\ ctx.drafting => Holds(pool, ctx) \cap Holds(pool, programs[n]) = {}
    /\ status \in {"running", "failed"}

-----------------------------------------------------------------------------

\* Taking blocks touches nothing that is live.
LEMMA TakeKeeps ==
    ASSUME NEW p, NEW new, Sound(Cells, p), Takeable(Cells, p, new)
    PROVE  /\ Sound(Cells, Take(p, new)) /\ Touches(p, Take(p, new), {})
           /\ \A i \in 1 .. Len(new) : /\ Top(p, i) \in Blocks /\ ~Live(p, Top(p, i)) /\ Top(p, i) # Null
                                       /\ Take(p, new).db[Top(p, i)] = new[i]
           /\ \A i, j \in 1 .. Len(new) : Top(p, i) = Top(p, j) => i = j
           /\ Len(Take(p, new).stack) = Len(p.stack) - Len(new)
           /\ \A i \in 1 .. Len(p.stack) - Len(new) : Top(Take(p, new), i) = Top(p, Len(new) + i)
  <1>1. p \in PoolsOf(Cells) /\ FreeStack(p)
    BY DEF Sound
  <1>2. /\ new \in Seq(BlocksOf(Cells)) /\ Room(p, Len(new))
        /\ \A i \in 1 .. Len(new) : new[i].type # "NONE"
    BY DEF Takeable
  <1>3. Len(new) \in Nat
    BY <1>2, LenProperties
  <1>4. /\ \A i \in 1 .. Len(new) : Take(p, new).db[Top(p, i)] = new[i]
        /\ \A b \in Blocks : Live(p, b) => Take(p, new).db[b] = p.db[b]
        /\ Len(Take(p, new).stack) = Len(p.stack) - Len(new)
        /\ \A i \in 1 .. Len(p.stack) - Len(new) : Top(Take(p, new), i) = Top(p, Len(new) + i)
    BY <1>1, <1>2, TakeResult
  <1>5. /\ \A i \in 1 .. Len(new) : Top(p, i) \in Blocks /\ ~Live(p, Top(p, i)) /\ Top(p, i) # Null
        /\ \A i, j \in 1 .. Len(new) : Top(p, i) = Top(p, j) => i = j
    BY <1>1, <1>2, <1>3, TopIsFree
  <1>6. Sound(Cells, Take(p, new))
    BY TakeSound
  <1>7. QED
    BY <1>4, <1>5, <1>6 DEF Touches

\* The blocks that the service makes, and what they refer to.
StringBlock(t, b) ==
    [type |-> "STRING", persistence_code |-> 0, self_managed |-> TRUE, content |-> <<t>>,
     next |-> Null, child |-> Null, token |-> b, store |-> Null]
SymbolBlock(t) ==
    [type |-> "STRING", persistence_code |-> 0, self_managed |-> FALSE, content |-> <<t>>,
     next |-> Null, child |-> Null, token |-> Null, store |-> Null]
ExternalBlock(t, b, code) ==
    [type |-> "EXTERNAL", persistence_code |-> code, self_managed |-> FALSE, content |-> <<t>>,
     next |-> b, child |-> Null, token |-> Null, store |-> Null]

\* A string is a block of the service.
LEMMA StringMade ==
    ASSUME NEW t \in Text, NEW b \in Blocks \cup {Null}, NEW d, d = StringBlock(t, b)
    PROVE  /\ d \in BlocksOf(Cells) /\ d.type = "STRING" /\ d.persistence_code = 0 /\ d.content = <<t>>
           /\ d.self_managed /\ d.token = b /\ d.next = Null /\ Refers(d) = {Null, b} \ {Null}
  <1>1. <<t>> \in Seq(Cells) /\ <<t>> # <<>>
    BY DEF Cells
  <1>2. QED
    BY <1>1 DEF BlocksOf, WellShaped, Refers, StringBlock

\* The symbol of a label is a block of the service,
LEMMA SymbolMade ==
    ASSUME NEW t \in Text, NEW d, d = SymbolBlock(t)
    PROVE  /\ d \in BlocksOf(Cells) /\ d.type = "STRING" /\ d.persistence_code = 0 /\ d.content = <<t>>
           /\ d.next = Null /\ Refers(d) = {}
  <1>1. <<t>> \in Seq(Cells) /\ <<t>> # <<>>
    BY DEF Cells
  <1>2. QED
    BY <1>1 DEF BlocksOf, WellShaped, Refers, SymbolBlock

\* a token that refers to memory of the script,
LEMMA ExternalMade ==
    ASSUME NEW t \in Text, NEW b \in Blocks \cup {Null}, NEW code \in Nat,
           NEW d, d = ExternalBlock(t, b, code)
    PROVE  /\ d \in BlocksOf(Cells) /\ d.type = "EXTERNAL" /\ d.persistence_code = code /\ d.content = <<t>>
           /\ d.next = b /\ Refers(d) = {Null, b} \ {Null}
  <1>1. <<t>> \in Seq(Cells) /\ <<t>> # <<>>
    BY DEF Cells
  <1>2. QED
    BY <1>1 DEF BlocksOf, WellShaped, Refers, ExternalBlock

\* and so is an empty container or table.
LEMMA ContainerMade ==
    ASSUME NEW b \in Blocks \cup {Null}
    PROVE  /\ Container \in BlocksOf(Cells) /\ Container.type = "UNSPECIFIED" /\ Container.persistence_code = 0
           /\ Container.content = <<>> /\ Container.next = Null /\ Refers(Container) = {}
           /\ Table(b) \in BlocksOf(Cells) /\ Table(b).type = "TABLE" /\ Table(b).persistence_code = 0
           /\ Table(b).content = <<>> /\ Table(b).store = b /\ Refers(Table(b)) = {b} \ {Null}
  <1>1. <<>> \in Seq(Cells) /\ <<>> \in Seq(Fields)
    OBVIOUS
  <1>2. QED
    BY <1>1 DEF BlocksOf, WellShaped, Refers, Container, Table, Disposed

\* What a draft or a program keeps is kept while its blocks are what they were.
LEMMA KeptSame ==
    ASSUME NEW p, NEW q, NEW r, Kept(p, r), \A b \in Holds(p, r) : q.db[b] = p.db[b]
    PROVE  Kept(q, r) /\ Holds(q, r) = Holds(p, r)
  <1>1. /\ q.db[r.functions] = p.db[r.functions]
        /\ q.db[p.db[r.functions].store] = p.db[p.db[r.functions].store]
        /\ q.db[r.memory_layout_ll] = p.db[r.memory_layout_ll]
        /\ q.db[r.memory_layout_hl] = p.db[r.memory_layout_hl]
        /\ q.db[p.db[r.memory_layout_hl].store] = p.db[p.db[r.memory_layout_hl].store]
    BY DEF Holds
  <1>2. FunctionsKept(q, r.functions)
    BY <1>1 DEF Kept, FunctionsKept
  <1>3. LayoutsKept(q, r.memory_layout_ll, r.memory_layout_hl)
    BY <1>1 DEF Kept, LayoutsKept
  <1>4. QED
    BY <1>1, <1>2, <1>3 DEF Kept, Holds

\* The blocks kept are live and have a code.
LEMMA HoldsLive ==
    ASSUME NEW p, NEW r, Kept(p, r)
    PROVE  \A b \in Holds(p, r) : b \in Blocks /\ Live(p, b) /\ p.db[b].persistence_code > 0
  BY DEF Kept, FunctionsKept, LayoutsKept, Holds, Live

\* ... which is so if nothing touched them.
LEMMA KeptStays ==
    ASSUME NEW p, NEW q, NEW W, NEW r, Kept(p, r), Touches(p, q, W), Holds(p, r) \cap W = {}
    PROVE  Kept(q, r) /\ Holds(q, r) = Holds(p, r) /\ \A b \in Holds(p, r) : q.db[b] = p.db[b]
  <1>1. \A b \in Holds(p, r) : q.db[b] = p.db[b]
    BY HoldsLive DEF Touches
  <1>2. QED
    BY <1>1, KeptSame

\* Taking two blocks, the first of which refers to the second.
LEMMA TakeTwo ==
    ASSUME NEW p, Sound(Cells, p), Room(p, 2), NEW a \in BlocksOf(Cells), NEW b \in BlocksOf(Cells),
           NEW q, q = Take(p, <<a, b>>),
           a.type \notin {"NONE", "TABLE"}, a.persistence_code = 0, a.next = Null, Refers(a) \subseteq {Top(p, 2)},
           b.type \notin {"NONE", "TABLE"}, b.persistence_code = 0, b.next = Null, Refers(b) = {}
    PROVE  /\ Sound(Cells, q) /\ Touches(p, q, {})
           /\ Top(p, 1) \in Blocks /\ ~Live(p, Top(p, 1)) /\ Top(p, 1) # Null /\ q.db[Top(p, 1)] = a
           /\ Top(p, 2) \in Blocks /\ ~Live(p, Top(p, 2)) /\ Top(p, 2) # Null /\ q.db[Top(p, 2)] = b
           /\ Top(p, 1) # Top(p, 2)
  <1> DEFINE new == <<a, b>>
  <1>1. new \in Seq(BlocksOf(Cells)) /\ Len(new) = 2 /\ new[1] = a /\ new[2] = b
    OBVIOUS
  <1>2. q = Take(p, new)
    OBVIOUS
  <1> HIDE DEF new
  <1>3. \A i \in 1 .. Len(new) : i = 1 \/ i = 2
    BY <1>1
  <1>4. 1 \in 1 .. Len(new) /\ 2 \in 1 .. Len(new)
    BY <1>1
  <1>5. ASSUME NEW i \in 1 .. Len(new)
        PROVE  /\ new[i].type # "NONE" /\ new[i].type # "TABLE"
               /\ new[i].persistence_code = 0 /\ new[i].next = Null
               /\ \A c \in Refers(new[i]) : \E j \in 1 .. Len(new) : c = Top(p, j)
    <2>1. /\ new[i].type # "NONE" /\ new[i].type # "TABLE"
          /\ new[i].persistence_code = 0 /\ new[i].next = Null
          /\ \A c \in Refers(new[i]) : c = Top(p, 2)
      BY <1>1, <1>3
    <2>2. QED
      BY <1>4, <2>1
  <1>6. Takeable(Cells, p, new)
    <2>1. Room(p, Len(new)) /\ new \in Seq(BlocksOf(Cells))
      BY <1>1
    <2>2. QED
      BY <2>1, <1>5 DEF Takeable
  <1>7. /\ Sound(Cells, Take(p, new)) /\ Touches(p, Take(p, new), {})
        /\ \A i \in 1 .. Len(new) : /\ Top(p, i) \in Blocks /\ ~Live(p, Top(p, i)) /\ Top(p, i) # Null
                                    /\ Take(p, new).db[Top(p, i)] = new[i]
        /\ \A i, j \in 1 .. Len(new) : Top(p, i) = Top(p, j) => i = j
    BY <1>6, TakeKeeps
  <1>8. QED
    BY <1>1, <1>2, <1>4, <1>7

\* emit-cmd takes a block for the command and one for its first token.
LEMMA CmdLeaves ==
    ASSUME ServiceSound, NEW token \in Instructions \cup Operands, Cmd(token), ~Fail
    PROVE  /\ Sound(Cells, pool') /\ Touches(pool, pool', {})
           /\ CommandOpen(pool', cmd', cmd_lasttoken') /\ cmd' # Null
           /\ ~Live(pool, cmd_lasttoken') /\ pool'.db[cmd'].token = cmd_lasttoken'
           /\ pool'.db[cmd_lasttoken'].content = <<token>>
           /\ UNCHANGED <<ctx, programs, status, handles>>
  <1>1. /\ Room(pool, 2)
        /\ pool' = Take(pool, <<[String("") EXCEPT !.token = Top(pool, 2)], External(token)>>)
        /\ cmd' = Top(pool, 1) /\ cmd_lasttoken' = Top(pool, 2)
        /\ UNCHANGED <<ctx, programs, status, handles>>
    BY DEF Cmd
  <1>2. Sound(Cells, pool) /\ pool \in PoolsOf(Cells) /\ FreeStack(pool)
    BY DEF ServiceSound, Sound
  <1>3. PICK p, q, a, b : p = pool /\ q = pool' /\ a = [String("") EXCEPT !.token = Top(pool, 2)] /\ b = External(token)
    OBVIOUS
  <1>4. \A i \in 1 .. 2 : Top(p, i) \in Blocks
    BY <1>1, <1>2, <1>3, TopIsFree
  <1>5. /\ a \in BlocksOf(Cells) /\ a.type = "STRING" /\ a.persistence_code = 0 /\ a.token = Top(p, 2)
        /\ a.next = Null /\ Refers(a) \subseteq {Top(p, 2)}
    <2>1. PICK t \in Blocks : t = Top(p, 2)
      BY <1>4
    <2>2. PICK empty \in Text : empty = ""
      BY DEF Text
    <2>3. a = StringBlock(empty, t)
      BY <1>3, <2>1, <2>2 DEF String, Disposed, StringBlock
    <2>4. /\ a \in BlocksOf(Cells) /\ a.type = "STRING" /\ a.persistence_code = 0 /\ a.token = t
          /\ a.next = Null /\ Refers(a) = {Null, t} \ {Null}
      BY <2>3, StringMade
    <2>5. QED
      BY <2>1, <2>4
  <1>6. /\ b \in BlocksOf(Cells) /\ b.type = "EXTERNAL" /\ b.persistence_code = 0 /\ b.next = Null
        /\ b.content = <<token>> /\ Refers(b) = {}
    <2>1. token \in Text /\ 0 \in Nat /\ Null \in Blocks \cup {Null}
      BY DEF Text
    <2>2. b = ExternalBlock(token, Null, 0)
      BY <1>3 DEF External, Disposed, ExternalBlock
    <2>3. QED
      BY <2>1, <2>2, ExternalMade
  <1>7. q = Take(p, <<a, b>>)
    BY <1>1, <1>3
  <1>8. /\ Sound(Cells, q) /\ Touches(p, q, {})
        /\ Top(p, 1) # Null /\ Top(p, 1) \in Blocks /\ q.db[Top(p, 1)] = a
        /\ Top(p, 2) \in Blocks /\ q.db[Top(p, 2)] = b /\ ~Live(p, Top(p, 2))
    <2>1. Sound(Cells, p) /\ Room(p, 2)
      BY <1>1, <1>2, <1>3
    <2>2. QED
      BY <2>1, <1>5, <1>6, <1>7, TakeTwo
  <1>9. cmd' = Top(p, 1) /\ cmd_lasttoken' = Top(p, 2)
    BY <1>1, <1>3
  <1>10. CommandOpen(q, cmd', cmd_lasttoken')
    BY <1>4, <1>5, <1>6, <1>8, <1>9 DEF CommandOpen, Passing
  <1>11. QED
    BY <1>1, <1>3, <1>5, <1>6, <1>8, <1>9, <1>10

\* A token that joins the list of a command is the last of it.
LEMMA LinkedToken ==
    ASSUME NEW t, NEW b, NEW d, d = [External(t) EXCEPT !.next = b]
    PROVE  d = ExternalBlock(t, b, 0)
  BY DEF External, Disposed, ExternalBlock

\* What a sequence of tokens becomes: a list of blocks.
LEMMA TokenList ==
    ASSUME NEW p, p = pool, Sound(Cells, p), NEW n \in Nat, n > 0, NEW tokens \in [1 .. n -> Text], Room(p, n),
           NEW w, w = Take(p, TokenBlocks(tokens))
    PROVE  /\ Sound(Cells, w) /\ Touches(p, w, {})
           /\ \A i \in 1 .. n :
                /\ Top(p, i) \in Blocks /\ ~Live(p, Top(p, i)) /\ Top(p, i) # Null
                /\ Passing(w, Top(p, i), "EXTERNAL") /\ w.db[Top(p, i)].content = <<tokens[i]>>
                /\ w.db[Top(p, i)].next = IF i = n THEN Null ELSE Top(p, i + 1)
           /\ \A i, j \in 1 .. n : Top(p, i) = Top(p, j) => i = j
  <1>1. p \in PoolsOf(Cells) /\ FreeStack(p)
    BY DEF Sound
  <1>2. \A i \in 1 .. n : Top(p, i) \in Blocks
    BY <1>1, TopIsFree
  <1>3. tokens \in Seq(Text) /\ Len(tokens) = n /\ DOMAIN tokens = 1 .. n
    OBVIOUS
  <1> DEFINE new == TokenBlocks(tokens)
             next(i) == IF i = n THEN Null ELSE Top(p, i + 1)
  <1>4. new = [i \in 1 .. n |-> ExternalBlock(tokens[i], next(i), 0)]
    <2>1. new = [i \in 1 .. n |-> [External(tokens[i]) EXCEPT !.next = next(i)]]
      BY <1>3 DEF TokenBlocks
    <2>2. ASSUME NEW i \in 1 .. n
          PROVE  [External(tokens[i]) EXCEPT !.next = next(i)] = ExternalBlock(tokens[i], next(i), 0)
      <3>1. PICK t, b, d : t = tokens[i] /\ b = next(i) /\ d = [External(t) EXCEPT !.next = b]
        OBVIOUS
      <3>2. d = ExternalBlock(t, b, 0)
        BY <3>1, LinkedToken
      <3>3. QED
        BY <3>1, <3>2
    <2>3. QED
      BY <2>1, <2>2
  <1>5. w = Take(p, new)
    OBVIOUS
  <1> HIDE DEF new
  <1>6. ASSUME NEW i \in 1 .. n
        PROVE  next(i) \in Blocks \cup {Null} /\ (next(i) # Null => i + 1 \in 1 .. n /\ next(i) = Top(p, i + 1))
    BY <1>2
  <1> HIDE DEF next
  <1>7. ASSUME NEW i \in 1 .. n
        PROVE  /\ new[i] \in BlocksOf(Cells) /\ new[i].type = "EXTERNAL" /\ new[i].persistence_code = 0
               /\ new[i].content = <<tokens[i]>>
               /\ new[i].next = next(i) /\ Refers(new[i]) = {Null, next(i)} \ {Null}
    <2>1. PICK t \in Text, b \in Blocks \cup {Null}, zero \in Nat : t = tokens[i] /\ b = next(i) /\ zero = 0
      BY <1>6
    <2>2. PICK d : d = new[i]
      OBVIOUS
    <2>3. d = ExternalBlock(t, b, zero)
      BY <2>1, <2>2, <1>4
    <2>4. /\ d \in BlocksOf(Cells) /\ d.type = "EXTERNAL" /\ d.persistence_code = zero
          /\ d.content = <<t>> /\ d.next = b /\ Refers(d) = {Null, b} \ {Null}
      BY <2>1, <2>3, ExternalMade
    <2>5. QED
      BY <2>1, <2>2, <2>4
  <1>8. new \in Seq(BlocksOf(Cells)) /\ Len(new) = n
    <2>1. new \in [1 .. n -> BlocksOf(Cells)]
      BY <1>4, <1>7
    <2>2. QED
      BY <2>1
  <1>9. Takeable(Cells, p, new)
    <2>1. ASSUME NEW i \in 1 .. n
          PROVE  /\ new[i].type # "NONE" /\ new[i].type # "TABLE" /\ new[i].persistence_code = 0
                 /\ \A c \in Refers(new[i]) : \E j \in 1 .. n : c = Top(p, j)
                 /\ new[i].next = Null \/ \E j \in i + 1 .. n : new[i].next = Top(p, j)
      <3>1. CASE next(i) = Null
        BY <3>1, <1>7
      <3>2. CASE next(i) # Null
        <4>1. PICK j \in i + 1 .. n : next(i) = Top(p, j) /\ j \in 1 .. n
          BY <3>2, <1>6
        <4>2. \A c \in Refers(new[i]) : c = next(i)
          BY <1>7
        <4>3. new[i].next = Top(p, j)
          BY <4>1, <1>7
        <4>4. QED
          BY <4>1, <4>2, <4>3, <1>7
      <3>3. QED
        BY <3>1, <3>2
    <2>2. QED
      BY <2>1, <1>8 DEF Takeable
  <1>10. /\ Sound(Cells, w) /\ Touches(p, w, {})
         /\ \A i \in 1 .. n : /\ Top(p, i) \in Blocks /\ ~Live(p, Top(p, i)) /\ Top(p, i) # Null
                              /\ w.db[Top(p, i)] = new[i]
         /\ \A i, j \in 1 .. n : Top(p, i) = Top(p, j) => i = j
    BY <1>5, <1>8, <1>9, TakeKeeps
  <1>11. QED
    BY <1>7, <1>10 DEF Passing, next

\* Linking the last block of a list to the first of another, which does not lead back.
LEMMA LinkKeeps ==
    ASSUME NEW w, Sound(Cells, w), NEW b \in Blocks, NEW c \in Blocks, Live(w, b), Live(w, c),
           w.db[b].persistence_code = 0,
           NEW S \in SUBSET Blocks, c \in S, b \notin S, \A x \in S : w.db[x].next \in S \cup {Null},
           NEW q, q = Link(w, b, c)
    PROVE  Sound(Cells, q) /\ Touches(w, q, {b}) /\ q.db[b].next = c
  <1>1. Sound(Cells, q)
    BY LinkSound
  <1>2. w \in PoolsOf(Cells)
    BY DEF Sound
  <1>3. Touches(w, q, {b})
    BY LinkTouches
  <1>4. q.db[b].next = c
    BY <1>2, LinkResult
  <1>5. QED
    BY <1>1, <1>3, <1>4

\* emit-token and its like: a block for each token, the first linked to the last of the command.
LEMMA AppendLeaves ==
    ASSUME ServiceSound, NEW n \in 1 .. MaxTokens, NEW tokens \in [1 .. n -> Operands],
           AppendTokens(tokens), ~Fail
    PROVE  /\ Sound(Cells, pool') /\ Touches(pool, pool', {cmd_lasttoken})
           /\ pool'.db[cmd_lasttoken].next = Top(pool, 1)
           /\ \A i \in 1 .. n :
                /\ Top(pool, i) \in Blocks /\ ~Live(pool, Top(pool, i)) /\ Top(pool, i) # Null
                /\ Passing(pool', Top(pool, i), "EXTERNAL") /\ pool'.db[Top(pool, i)].content = <<tokens[i]>>
                /\ pool'.db[Top(pool, i)].next = IF i = n THEN Null ELSE Top(pool, i + 1)
           /\ \A i, j \in 1 .. n : Top(pool, i) = Top(pool, j) => i = j
           /\ cmd_lasttoken' = Top(pool, n) /\ cmd # Null
           /\ UNCHANGED <<ctx, cmd, programs, status, handles>>
  <1>1. MaxTokens \in Nat /\ n \in Nat /\ n > 0
    BY CountsAssumption
  <1>2. Len(tokens) = n /\ tokens \in [1 .. n -> Text]
    <2>1. tokens \in Seq(Operands) /\ Len(tokens) = n
      BY <1>1
    <2>2. tokens \in [1 .. n -> Text]
      BY DEF Text
    <2>3. QED
      BY <2>1, <2>2
  <1>3. /\ cmd # Null /\ Room(pool, n)
        /\ pool' = Link(Take(pool, TokenBlocks(tokens)), cmd_lasttoken, Top(pool, 1))
        /\ cmd_lasttoken' = Top(pool, n)
        /\ UNCHANGED <<ctx, cmd, programs, status, handles>>
    BY <1>2 DEF AppendTokens
  <1>4. PICK p, q, w, last : p = pool /\ q = pool' /\ w = Take(p, TokenBlocks(tokens)) /\ last = cmd_lasttoken
    OBVIOUS
  <1>5. Sound(Cells, p) /\ Passing(p, last, "EXTERNAL") /\ Room(p, n)
    BY <1>3, <1>4 DEF ServiceSound, CommandOpen
  <1>6. /\ Sound(Cells, w) /\ Touches(p, w, {})
        /\ \A i \in 1 .. n :
             /\ Top(p, i) \in Blocks /\ ~Live(p, Top(p, i)) /\ Top(p, i) # Null
             /\ Passing(w, Top(p, i), "EXTERNAL") /\ w.db[Top(p, i)].content = <<tokens[i]>>
             /\ w.db[Top(p, i)].next = IF i = n THEN Null ELSE Top(p, i + 1)
        /\ \A i, j \in 1 .. n : Top(p, i) = Top(p, j) => i = j
    BY <1>1, <1>2, <1>4, <1>5, TokenList
  <1> DEFINE S == {Top(p, i) : i \in 1 .. n}
  <1>7. last \in Blocks /\ Live(p, last) /\ Live(w, last) /\ w.db[last].persistence_code = 0 /\ last \notin S
    BY <1>5, <1>6 DEF Passing, Live, Touches
  <1>8. 1 \in 1 .. n /\ \A i \in 1 .. n : i # n => i + 1 \in 1 .. n
    BY <1>1
  <1>9. S \in SUBSET Blocks /\ Top(p, 1) \in S /\ Live(w, Top(p, 1)) /\ Top(p, 1) \in Blocks
    BY <1>6, <1>8 DEF Passing, Live
  <1>10. \A x \in S : w.db[x].next \in S \cup {Null}
    BY <1>6, <1>8
  <1>11. q = Link(w, last, Top(p, 1))
    BY <1>3, <1>4
  <1> HIDE DEF S
  <1>12. Sound(Cells, q) /\ Touches(w, q, {last}) /\ q.db[last].next = Top(p, 1)
    <2>1. PICK c \in Blocks : c = Top(p, 1)
      BY <1>9
    <2>2. c \in S /\ Live(w, c) /\ q = Link(w, last, c)
      BY <2>1, <1>9, <1>11
    <2>3. Sound(Cells, q) /\ Touches(w, q, {last}) /\ q.db[last].next = c
      BY <2>2, <1>6, <1>7, <1>9, <1>10, LinkKeeps
    <2>4. QED
      BY <2>1, <2>3
  <1>13. Touches(p, q, {last})
    <2>1. {} \cup {last} = {last}
      OBVIOUS
    <2>2. QED
      BY <2>1, <1>6, <1>12, TouchesBoth
  <1>14. \A i \in 1 .. n : Live(w, Top(p, i)) /\ Top(p, i) # last
    BY <1>6, <1>7 DEF Passing, Live
  <1>15. \A i \in 1 .. n : q.db[Top(p, i)] = w.db[Top(p, i)]
    BY <1>6, <1>12, <1>14 DEF Touches
  <1>16. \A i \in 1 .. n :
           /\ Passing(q, Top(p, i), "EXTERNAL") /\ q.db[Top(p, i)].content = <<tokens[i]>>
           /\ q.db[Top(p, i)].next = IF i = n THEN Null ELSE Top(p, i + 1)
    BY <1>6, <1>15 DEF Passing
  <1>17. QED
    BY <1>3, <1>4, <1>6, <1>12, <1>13, <1>16

\* Two states of the same draft.
SameDraft(c, d) ==
    /\ c \in Drafts /\ d \in Drafts
    /\ d.script_commands = c.script_commands /\ d.label_table = c.label_table
    /\ d.labelindex_table = c.labelindex_table /\ d.memblock_table = c.memblock_table
    /\ d.functions = c.functions /\ d.memory_layout_ll = c.memory_layout_ll
    /\ d.memory_layout_hl = c.memory_layout_hl

\* One block is taken that refers to none.
LEMMA TakeOne ==
    ASSUME NEW p, Sound(Cells, p), Room(p, 1), NEW d \in BlocksOf(Cells), d.type \notin {"NONE", "TABLE"},
           Refers(d) = {}, NEW q, q = Take(p, <<d>>)
    PROVE  /\ Sound(Cells, q) /\ Touches(p, q, {})
           /\ Top(p, 1) \in Blocks /\ ~Live(p, Top(p, 1)) /\ Top(p, 1) # Null /\ q.db[Top(p, 1)] = d
           /\ Len(q.stack) = Len(p.stack) - 1
           /\ \A i \in 1 .. Len(p.stack) - 1 : Top(q, i) = Top(p, 1 + i)
  <1>1. /\ Sound(Cells, Take(p, <<d>>))
        /\ Top(p, 1) \in Blocks /\ ~Live(p, Top(p, 1)) /\ Top(p, 1) # Null
        /\ Take(p, <<d>>).db[Top(p, 1)] = d
        /\ Len(Take(p, <<d>>).stack) = Len(p.stack) - 1
        /\ \A i \in 1 .. Len(p.stack) - 1 : Top(Take(p, <<d>>), i) = Top(p, 1 + i)
    BY SingleTake
  <1>2. Touches(p, Take(p, <<d>>), {})
    BY TakeTouches
  <1>3. QED
    BY <1>1, <1>2

\* An object is added to a container.
Added(p, q, b, object) == q.db[b].content = Append(p.db[b].content, object)

\* A container with an element more has the object at the end.
LEMMA ObjectAdded ==
    ASSUME NEW p, Sound(Cells, p), NEW b \in Blocks, NEW object \in Cells, p.db[b].type = "UNSPECIFIED",
           NEW q, q = NewObject(p, b, object)
    PROVE  Sound(Cells, q) /\ Touches(p, q, {b}) /\ Added(p, q, b, object) /\ q.stack = p.stack
  <1>1. p \in PoolsOf(Cells)
    BY DEF Sound
  <1>2. Sound(Cells, q)
    BY NewObjectSound
  <1>3. Touches(p, q, {b})
    BY NewObjectTouches
  <1>4. q.db[b].content = Append(p.db[b].content, object) /\ q.stack = p.stack
    BY <1>1, NewObjectResult
  <1>5. QED
    BY <1>2, <1>3, <1>4 DEF Added

\* emit-cmd-end adds the command, with the labels that waited for it.
LEMMA EndLeaves ==
    ASSUME ServiceSound, EndCmd, ~Fail
    PROVE  /\ cmd # Null /\ DraftKept(pool, ctx)
           /\ Sound(Cells, pool') /\ Touches(pool, pool', {ctx.script_commands})
           /\ \E object \in Commands :
                /\ object.tokens = pool.db[cmd].token /\ object.labels = ctx.active_labels
                /\ pool'.db[ctx.script_commands].content = Append(pool.db[ctx.script_commands].content, object)
           /\ SameDraft(ctx, ctx') /\ ctx'.active_labels = Null
           /\ cmd' = Null /\ cmd_lasttoken' = Null
           /\ UNCHANGED <<programs, status, handles>>
  <1>1. /\ ctx.drafting /\ cmd # Null /\ Room(pool, 1)
        /\ pool' = NewObject(Take(pool, <<String("")>>), ctx.script_commands,
                       [tokens |-> db[cmd].token, pl_code |-> cmd, asm_code |-> Top(pool, 1),
                        labels |-> ctx.active_labels])
        /\ ctx' = [ctx EXCEPT !.active_labels = LabelsTaken, !.active_labels_last = Null]
        /\ cmd' = Null /\ cmd_lasttoken' = Null
        /\ UNCHANGED <<programs, status, handles>>
    BY DEF EndCmd, Drafting
  <1>2. /\ Sound(Cells, pool) /\ DraftKept(pool, ctx) /\ CommandOpen(pool, cmd, cmd_lasttoken)
        /\ ctx \in Drafts /\ cmd \in Blocks
    BY <1>1 DEF ServiceSound, DraftKept
  <1>3. SameDraft(ctx, ctx') /\ ctx'.active_labels = Null
    BY <1>1, <1>2 DEF SameDraft, Drafts, LabelsTaken
  <1>4. PICK p, q, w, d, b : /\ p = pool /\ q = pool' /\ d = String("") /\ w = Take(p, <<d>>)
                             /\ b = ctx.script_commands
    OBVIOUS
  <1>5. d \in BlocksOf(Cells) /\ d.type = "STRING" /\ Refers(d) = {}
    <2>1. PICK t \in Text, none \in Blocks \cup {Null} : t = "" /\ none = Null
      BY DEF Text
    <2>2. d = StringBlock(t, none)
      BY <1>4, <2>1 DEF String, Disposed, StringBlock
    <2>3. d \in BlocksOf(Cells) /\ d.type = "STRING" /\ Refers(d) = {Null, none} \ {Null}
      BY <2>2, StringMade
    <2>4. QED
      BY <2>1, <2>3
  <1>6. Sound(Cells, w) /\ Touches(p, w, {}) /\ Top(p, 1) \in Blocks
    <2>1. Room(p, 1) /\ Sound(Cells, p)
      BY <1>1, <1>2, <1>4
    <2>2. QED
      BY <2>1, <1>4, <1>5, TakeOne
  <1>7. PICK object : object = [tokens |-> p.db[cmd].token, pl_code |-> cmd, asm_code |-> Top(p, 1),
                                labels |-> ctx.active_labels]
    OBVIOUS
  <1>8. object \in Commands /\ object.tokens = p.db[cmd].token /\ object.labels = ctx.active_labels
    <2>1. p.db[cmd].token \in Blocks /\ ctx.active_labels \in Blocks \cup {Null}
      BY <1>2, <1>4 DEF CommandOpen, Drafts
    <2>2. QED
      BY <2>1, <1>2, <1>6, <1>7 DEF Commands
  <1>9. object \in Cells
    BY <1>8 DEF Cells
  <1>10. b \in Blocks /\ p.db[b].type = "UNSPECIFIED"
    BY <1>2, <1>4 DEF DraftKept, Passing
  <1>11. w.db[b] = p.db[b]
    BY <1>6, <1>10 DEF Touches, Live
  <1>12. q = NewObject(w, b, object)
    BY <1>1, <1>4, <1>7 DEF db
  <1>13. Sound(Cells, q) /\ Touches(w, q, {b}) /\ Added(w, q, b, object)
    BY <1>6, <1>9, <1>10, <1>11, <1>12, ObjectAdded
  <1>14. Touches(p, q, {b})
    <2>1. {} \cup {b} = {b}
      OBVIOUS
    <2>2. QED
      BY <2>1, <1>6, <1>13, TouchesBoth
  <1>15. q.db[b].content = Append(p.db[b].content, object)
    BY <1>11, <1>13 DEF Added
  <1>16. \E x \in Commands :
           /\ x.tokens = pool.db[cmd].token /\ x.labels = ctx.active_labels
           /\ pool'.db[ctx.script_commands].content = Append(pool.db[ctx.script_commands].content, x)
    BY <1>4, <1>8, <1>15
  <1>17. QED
    BY <1>1, <1>2, <1>3, <1>4, <1>13, <1>14, <1>16

-----------------------------------------------------------------------------
\* The elements of a set of two or of three, counted one by one.
LEMMA CountTwo ==
    ASSUME NEW a, NEW b, a # b, NEW S, S \subseteq {a, b}
    PROVE  Cardinality(S) = One(a \in S) + One(b \in S)
  <1>1. Cardinality({}) = 0 /\ Cardinality({a}) = 1 /\ Cardinality({b}) = 1 /\ Cardinality({a, b}) = 2
    <2>1. IsFiniteSet({}) /\ Cardinality({}) = 0
      BY FS_EmptySet
    <2>2. IsFiniteSet({a}) /\ Cardinality({a}) = 1 /\ Cardinality({b}) = 1
      BY FS_Singleton
    <2>3. Cardinality({a} \cup {b}) = 1 + 1
      BY <2>2, FS_AddElement
    <2>4. {a} \cup {b} = {a, b}
      OBVIOUS
    <2>5. QED
      BY <2>1, <2>2, <2>3, <2>4
  <1>2. CASE a \in S /\ b \in S
    <2>1. S = {a, b}
      BY <1>2
    <2>2. QED
      BY <1>1, <1>2, <2>1 DEF One
  <1>3. CASE a \in S /\ b \notin S
    <2>1. S = {a}
      BY <1>3
    <2>2. QED
      BY <1>1, <1>3, <2>1 DEF One
  <1>4. CASE a \notin S /\ b \in S
    <2>1. S = {b}
      BY <1>4
    <2>2. QED
      BY <1>1, <1>4, <2>1 DEF One
  <1>5. CASE a \notin S /\ b \notin S
    <2>1. S = {}
      BY <1>5
    <2>2. QED
      BY <1>1, <1>5, <2>1 DEF One
  <1>6. QED
    BY <1>2, <1>3, <1>4, <1>5

\* The elements of a set of at most three, counted one by one.
LEMMA CountThree ==
    ASSUME NEW a, NEW b, NEW c, a # b, a # c, b # c, NEW S, S \subseteq {a, b, c}
    PROVE  Cardinality(S) = One(a \in S) + One(b \in S) + One(c \in S)
  <1> DEFINE T == S \ {c}
  <1>1. T \subseteq {a, b} /\ (a \in T <=> a \in S) /\ (b \in T <=> b \in S) /\ c \notin T
    OBVIOUS
  <1> HIDE DEF T
  <1>2. Cardinality(T) = One(a \in S) + One(b \in S)
    <2>1. Cardinality(T) = One(a \in T) + One(b \in T)
      BY <1>1, CountTwo
    <2>2. QED
      BY <2>1, <1>1 DEF One
  <1>3. IsFiniteSet(T)
    <2>1. IsFiniteSet({a, b})
      <3>1. IsFiniteSet({a})
        BY FS_Singleton
      <3>2. IsFiniteSet({a} \cup {b}) /\ {a} \cup {b} = {a, b}
        BY <3>1, FS_AddElement
      <3>3. QED
        BY <3>2
    <2>2. QED
      BY <2>1, <1>1, FS_Subset
  <1>4. CASE c \in S
    <2>1. S = T \cup {c}
      BY <1>4 DEF T
    <2>2. Cardinality(S) = Cardinality(T) + 1
      BY <2>1, <1>1, <1>3, FS_AddElement
    <2>3. QED
      BY <2>2, <1>2, <1>4 DEF One
  <1>5. CASE c \notin S
    <2>1. S = T
      BY <1>5 DEF T
    <2>2. QED
      BY <2>1, <1>2, <1>5 DEF One
  <1>6. QED
    BY <1>4, <1>5

-----------------------------------------------------------------------------
\* Nothing changes that if the table is not touched before and after it.
LEMMA FieldPutStays ==
    ASSUME NEW p, Sound(Cells, p), NEW h, NEW q, NEW r, NEW W, NEW U,
           NEW table \in Blocks, p.db[table].type = "TABLE", NEW text, NEW value,
           Touches(p, h, W), h.db[table].content = p.db[table].content,
           Touches(q, r, U), r.db[table].content = q.db[table].content,
           FieldPut(h, q, table, text, value)
    PROVE  FieldPut(p, r, table, text, value)
  <1>1. FieldsWith(h, table, text) = FieldsWith(p, table, text) /\ Has(h, table, text) = Has(p, table, text)
    BY HasStays
  <1>2. ASSUME NEW k \in Blocks, ~Live(h, k), Live(q, k), TextOf(q, k) = text
        PROVE  ~Live(p, k) /\ Live(r, k) /\ TextOf(r, k) = text
    <2>1. Live(p, k) => Live(h, k)
      BY TextStays
    <2>2. Live(r, k) /\ TextOf(r, k) = TextOf(q, k)
      BY <1>2, TextStays
    <2>3. QED
      BY <1>2, <2>1, <2>2
  <1>3. CASE Has(p, table, text)
    <2>1. \E i \in FieldsWith(p, table, text) :
             /\ i = CHOOSE j \in FieldsWith(p, table, text) : TRUE
             /\ i \in 1 .. Len(p.db[table].content)
             /\ Len(r.db[table].content) = Len(p.db[table].content)
             /\ \A j \in 1 .. Len(p.db[table].content) :
                  r.db[table].content[j]
                    = IF j = i THEN [key |-> p.db[table].content[i].key, value |-> value]
                               ELSE p.db[table].content[j]
      BY <1>1, <1>3 DEF FieldPut
    <2>2. QED
      BY <1>3, <2>1, Zenon DEF FieldPut
  <1>4. CASE ~Has(p, table, text)
    <2>1. PICK k \in Blocks : /\ ~Live(h, k) /\ Live(q, k) /\ TextOf(q, k) = text
                              /\ q.db[table].content = Append(h.db[table].content, [key |-> k, value |-> value])
      BY <1>1, <1>4 DEF FieldPut
    <2>2. ~Live(p, k) /\ Live(r, k) /\ TextOf(r, k) = text
      BY <1>2, <2>1
    <2>3. r.db[table].content = Append(p.db[table].content, [key |-> k, value |-> value])
      BY <2>1
    <2>4. QED
      BY <1>4, <2>2, <2>3 DEF FieldPut
  <1>5. QED
    BY <1>3, <1>4

\* A block with a text is taken: the name of a label or of a block of memory.
LEMMA NameTaken ==
    ASSUME NEW p, Sound(Cells, p), Room(p, 1), NEW t \in Text, NEW q, q = Take(p, <<String(t)>>),
           NEW b, b = Top(p, 1)
    PROVE  /\ Sound(Cells, q) /\ Touches(p, q, {})
           /\ b \in Blocks /\ ~Live(p, b) /\ b # Null
           /\ q.db[b].type = "STRING" /\ q.db[b].content = <<t>> /\ q.db[b].persistence_code = 0
           /\ Name(q, b) /\ TextOf(q, b) = t
           /\ Len(q.stack) = Len(p.stack) - 1
           /\ \A i \in 1 .. Len(p.stack) - 1 : Top(q, i) = Top(p, 1 + i)
  <1>1. PICK none \in Blocks \cup {Null}, d \in {String(t)} : d = String(t) /\ none = Null
    OBVIOUS
  <1>2. d = StringBlock(t, none)
    BY <1>1 DEF String, Disposed, StringBlock
  <1>3. /\ d \in BlocksOf(Cells) /\ d.type = "STRING" /\ d.persistence_code = 0 /\ d.content = <<t>>
        /\ d.self_managed /\ Refers(d) = {}
    <2>1. /\ d \in BlocksOf(Cells) /\ d.type = "STRING" /\ d.persistence_code = 0 /\ d.content = <<t>>
          /\ d.self_managed /\ Refers(d) = {Null, none} \ {Null}
      BY <1>1, <1>2, StringMade
    <2>2. QED
      BY <2>1, <1>1
  <1>4. q = Take(p, <<d>>)
    BY <1>1
  <1>5. /\ Sound(Cells, q) /\ Touches(p, q, {})
        /\ b \in Blocks /\ ~Live(p, b) /\ b # Null /\ q.db[b] = d
        /\ Len(q.stack) = Len(p.stack) - 1
        /\ \A i \in 1 .. Len(p.stack) - 1 : Top(q, i) = Top(p, 1 + i)
    BY <1>3, <1>4, TakeOne
  <1>6. Name(q, b)
    <2>1. Linked(q, b) = {}
      BY <1>3, <1>5 DEF Linked, Refers
    <2>2. QED
      BY <2>1, <1>3, <1>5 DEF Name
  <1>7. TextOf(q, b) = t
    BY <1>3, <1>5 DEF TextOf
  <1>8. QED
    BY <1>3, <1>5, <1>6, <1>7

\* A name stays a name where nothing touches it.
LEMMA NameStays ==
    ASSUME NEW p, NEW q, NEW W, Touches(p, q, W), NEW b, Name(p, b), b \notin W
    PROVE  Name(q, b) /\ TextOf(q, b) = TextOf(p, b)
  <1>1. q.db[b] = p.db[b]
    BY DEF Touches, Name, Live
  <1>2. QED
    BY <1>1 DEF Name, TextOf, Linked

-----------------------------------------------------------------------------
\* An object with a name: it is appended to the store of a table, and the table
\* has its place there for the name.
LEMMA ObjectNamed ==
    ASSUME NEW p, Sound(Cells, p), NEW table \in Blocks, p.db[table].type = "TABLE",
           NEW s \in Blocks, p.db[s].type = "UNSPECIFIED",
           NEW key, Name(p, key), NEW text, text = TextOf(p, key),
           NEW object \in Cells, Has(p, table, text) \/ Room(p, 1),
           NEW place \in Nat, NEW r, r = NewObject(p, s, object), NEW q, q = Put(r, table, key, place)
    PROVE  /\ Sound(Cells, q) /\ Touches(p, q, {table, s})
           /\ Added(p, q, s, object) /\ FieldPut(p, q, table, text, place)
           /\ Has(p, table, text) => Taken(p, q, 0)
           /\ ~Has(p, table, text) => Taken(p, q, 1)
  <1>1. /\ Sound(Cells, r) /\ Touches(p, r, {s})
        /\ Added(p, r, s, object) /\ r.stack = p.stack
    BY ObjectAdded
  <1>2. table # s /\ Live(p, table) /\ Live(p, s) /\ key # s
    BY DEF Live, Name
  <1>3. r.db[table] = p.db[table] /\ Live(r, s)
    BY <1>1, <1>2 DEF Touches, Live
  <1>4. Name(r, key) /\ TextOf(r, key) = text
    <2>1. key \notin {s}
      BY <1>2
    <2>2. QED
      BY <2>1, <1>1, NameStays
  <1>5. FieldsWith(r, table, text) = FieldsWith(p, table, text) /\ Has(r, table, text) = Has(p, table, text)
    BY <1>1, <1>3, HasStays
  <1>6. Fields \subseteq Cells
    BY DEF Cells
  <1>7. /\ Sound(Cells, q) /\ Touches(r, q, {table}) /\ FieldPut(r, q, table, text, place)
        /\ (Has(r, table, text) => Taken(r, q, 0)) /\ (~Has(r, table, text) => Taken(r, q, 1))
    <2>1. Has(r, table, text) \/ Room(r, 1)
      BY <1>1, <1>5 DEF Room
    <2>2. r.db[table].type = "TABLE" /\ text = TextOf(r, key)
      BY <1>3, <1>4
    <2>3. QED
      BY <2>1, <2>2, <1>1, <1>4, <1>6, PutKeeps
  <1>8. Touches(p, q, {table, s})
    <2>1. {s} \cup {table} = {table, s}
      OBVIOUS
    <2>2. QED
      BY <2>1, <1>1, <1>7, TouchesBoth
  <1>9. Added(p, q, s, object)
    BY <1>1, <1>2, <1>3, <1>7 DEF Touches, Added
  <1>10. FieldPut(p, q, table, text, place)
    <2>1. Touches(q, q, {})
      BY DEF Touches
    <2>2. r.db[table].content = p.db[table].content
      BY <1>3
    <2>3. QED
      BY <2>1, <2>2, <1>1, <1>7, FieldPutStays
  <1>11. (Has(p, table, text) => Taken(p, q, 0)) /\ (~Has(p, table, text) => Taken(p, q, 1))
    BY <1>1, <1>5, <1>7 DEF Taken
  <1>12. QED
    BY <1>1, <1>7, <1>8, <1>9, <1>10, <1>11

\* A block of its own for a name in one of the tables that end with the build.
LEMMA BlockUnder ==
    ASSUME NEW p, Sound(Cells, p), NEW m, Passing(p, m, "TABLE"),
           NEW key, Name(p, key), NEW text, text = TextOf(p, key),
           NEW d \in BlocksOf(Cells), d.type = "STRING", d.persistence_code = 0, Refers(d) = {},
           Room(p, 1 + One(~Has(p, m, text))),
           NEW r, r = Take(p, <<d>>), NEW b, b = Top(p, 1), NEW q, q = PutBlock(r, m, key, b)
    PROVE  /\ Sound(Cells, q) /\ Touches(p, q, {m})
           /\ b \in Blocks /\ ~Live(p, b) /\ b # Null /\ b # m /\ q.db[b] = d
           /\ Has(p, m, text) => Taken(p, q, 1)
           /\ ~Has(p, m, text) => Taken(p, q, 2)
  <1>1. /\ m \in Blocks /\ Live(p, m) /\ p.db[m].type = "TABLE" /\ p.db[m].persistence_code = 0
        /\ key \in Blocks /\ Live(p, key)
    BY DEF Passing, Live, Name
  <1>2. /\ Len(p.stack) \in Nat /\ Len(p.stack) >= 1 + One(~Has(p, m, text))
        /\ One(~Has(p, m, text)) \in {0, 1}
    <2>1. p \in PoolsOf(Cells)
      BY DEF Sound
    <2>2. QED
      BY <2>1, BlockTypes DEF Room, One
  <1>3. /\ Sound(Cells, r) /\ Touches(p, r, {})
        /\ b \in Blocks /\ ~Live(p, b) /\ b # Null /\ r.db[b] = d
        /\ Len(r.stack) = Len(p.stack) - 1
    <2>1. Room(p, 1) /\ d.type \notin {"NONE", "TABLE"}
      BY <1>2 DEF Room
    <2>2. QED
      BY <2>1, TakeOne
  <1>4. r.db[m] = p.db[m] /\ b # m /\ Live(r, b)
    BY <1>1, <1>3 DEF Touches, Live
  <1>5. Name(r, key) /\ TextOf(r, key) = text
    <2>1. key \notin {}
      OBVIOUS
    <2>2. QED
      BY <2>1, <1>3, NameStays
  <1>6. Has(r, m, text) = Has(p, m, text)
    <2>1. r.db[m].content = p.db[m].content
      BY <1>4
    <2>2. QED
      BY <2>1, <1>1, <1>3, HasStays
  <1>7. q = Put(r, m, key, b)
    <2>1. r \in PoolsOf(Cells)
      BY <1>3 DEF Sound
    <2>2. SetPersistenceCode(r, b, 0) = r
      BY <2>1, <1>3, SetCodeZero
    <2>3. r.db[m].persistence_code = 0
      BY <1>1, <1>4
    <2>4. QED
      BY <2>2, <2>3 DEF PutBlock
  <1>8. Sound(Cells, q) /\ Touches(r, q, {m}) 
        /\ (Has(r, m, text) => Taken(r, q, 0)) /\ (~Has(r, m, text) => Taken(r, q, 1))
    <2>1. Has(r, m, text) \/ Room(r, 1)
      BY <1>2, <1>3, <1>6 DEF Room, One
    <2>2. r.db[m].type = "TABLE" /\ text = TextOf(r, key) /\ b \in Nat /\ Fields \subseteq Cells
      BY <1>1, <1>3, <1>4, <1>5 DEF Blocks, Cells
    <2>3. QED
      BY <2>1, <2>2, <1>1, <1>3, <1>5, <1>7, PutKeeps
  <1>9. Touches(p, q, {m})
    <2>1. {} \cup {m} = {m}
      OBVIOUS
    <2>2. QED
      BY <2>1, <1>3, <1>8, TouchesBoth
  <1>10. q.db[b] = r.db[b]
    BY <1>3, <1>4, <1>8 DEF Touches
  <1>11. (Has(p, m, text) => Taken(p, q, 1)) /\ (~Has(p, m, text) => Taken(p, q, 2))
    BY <1>2, <1>3, <1>6, <1>8 DEF Taken
  <1>12. QED
    BY <1>3, <1>4, <1>8, <1>9, <1>10, <1>11

-----------------------------------------------------------------------------
\* The values of a table after a put are those it had and the one put.
LEMMA ValuesAfterPut ==
    ASSUME NEW p, Sound(Cells, p), NEW table \in Blocks, p.db[table].type = "TABLE",
           NEW q, NEW text, NEW value, FieldPut(p, q, table, text, value),
           NEW N, value \in N, \A i \in 1 .. Len(p.db[table].content) : p.db[table].content[i].value \in N
    PROVE  \A i \in 1 .. Len(q.db[table].content) : q.db[table].content[i].value \in N
  <1>1. PICK old, new : old = p.db[table].content /\ new = q.db[table].content
    OBVIOUS
  <1>2. old \in Seq(Fields) /\ Len(old) \in Nat
    BY <1>1, TableFields
  <1>3. \A i \in 1 .. Len(old) : old[i].value \in N
    BY <1>1
  <1>4. CASE Has(p, table, text)
    <2>1. PICK i : /\ i \in 1 .. Len(old) /\ Len(new) = Len(old)
                   /\ \A j \in 1 .. Len(old) :
                        new[j] = IF j = i THEN [key |-> old[i].key, value |-> value] ELSE old[j]
      BY <1>1, <1>4 DEF FieldPut
    <2>2. \A j \in 1 .. Len(new) : new[j].value \in N
      BY <2>1, <1>3
    <2>3. QED
      BY <2>2, <1>1
  <1>5. CASE ~Has(p, table, text)
    <2>1. PICK k : new = Append(old, [key |-> k, value |-> value])
      BY <1>1, <1>5 DEF FieldPut
    <2>2. PICK e : e = [key |-> k, value |-> value]
      OBVIOUS
    <2>3. /\ Len(new) = Len(old) + 1 /\ new[Len(old) + 1] = e
          /\ \A j \in 1 .. Len(old) : new[j] = old[j]
      <3>1. old \in Seq(Fields \cup {e}) /\ e \in Fields \cup {e}
        BY <1>2
      <3>2. new = Append(old, e)
        BY <2>1, <2>2
      <3>3. QED
        BY <3>1, <3>2, <1>2, AppendProperties
    <2>4. e.value = value
      BY <2>2
    <2>5. \A j \in 1 .. Len(new) : new[j].value \in N
      BY <2>3, <2>4, <1>2, <1>3
    <2>6. QED
      BY <2>5, <1>1
  <1>6. QED
    BY <1>4, <1>5

\* What declare_memblock leaves in the layouts, once it has a name.
LEMMA LayoutsDeclared ==
    ASSUME NEW p, Sound(Cells, p), NEW l, NEW t, LayoutsKept(p, l, t), NEW s, s = p.db[t].store,
           NEW key, Name(p, key), NEW text, text = TextOf(p, key), Has(p, t, text) \/ Room(p, 1),
           NEW low \in LowLayouts, NEW high \in HighLayouts,
           NEW r, r = NewObject(p, l, low),
           NEW u, u = NewObject(r, s, high),
           NEW place \in Nat, NEW q, q = Put(u, t, key, place)
    PROVE  /\ Sound(Cells, q) /\ Touches(p, q, {l, t, s})
           /\ Added(p, q, l, low) /\ Added(p, q, s, high)
           /\ FieldPut(p, q, t, text, place)
           /\ Has(p, t, text) => Taken(p, q, 0)
           /\ ~Has(p, t, text) => Taken(p, q, 1)
  <1>1. /\ l \in Blocks /\ t \in Blocks /\ s \in Blocks
        /\ p.db[l].type = "UNSPECIFIED" /\ p.db[t].type = "TABLE" /\ p.db[s].type = "UNSPECIFIED"
        /\ l # s /\ l # t /\ s # t
    BY DEF LayoutsKept
  <1>2. low \in Cells /\ high \in Cells
    BY DEF Cells
  <1>3. Sound(Cells, r) /\ Touches(p, r, {l}) /\ Added(p, r, l, low) /\ r.stack = p.stack
    BY <1>1, <1>2, ObjectAdded
  <1>4. r.db[t] = p.db[t] /\ r.db[s] = p.db[s] /\ Live(r, l)
    BY <1>1, <1>3 DEF Touches, Live
  <1>5. key # l
    BY <1>1 DEF Name
  <1>6. Name(r, key) /\ TextOf(r, key) = text
    <2>1. key \notin {l}
      BY <1>5
    <2>2. QED
      BY <2>1, <1>3, NameStays
  <1>7. Has(r, t, text) = Has(p, t, text)
    <2>1. r.db[t].content = p.db[t].content
      BY <1>4
    <2>2. QED
      BY <2>1, <1>1, <1>3, HasStays
  <1>8. /\ Sound(Cells, q) /\ Touches(r, q, {t, s}) /\ Added(r, q, s, high)
        /\ FieldPut(r, q, t, text, place)
        /\ (Has(r, t, text) => Taken(r, q, 0)) /\ (~Has(r, t, text) => Taken(r, q, 1))
    <2>1. Has(r, t, text) \/ Room(r, 1)
      BY <1>3, <1>7 DEF Room
    <2>2. r.db[t].type = "TABLE" /\ r.db[s].type = "UNSPECIFIED" /\ text = TextOf(r, key)
      BY <1>1, <1>4, <1>6
    <2>3. QED
      BY <2>1, <2>2, <1>1, <1>2, <1>3, <1>6, ObjectNamed
  <1>9. Touches(p, q, {l, t, s})
    <2>1. {l} \cup {t, s} = {l, t, s}
      OBVIOUS
    <2>2. QED
      BY <2>1, <1>3, <1>8, TouchesBoth
  <1>10. Added(p, q, l, low) /\ Added(p, q, s, high)
    BY <1>1, <1>3, <1>4, <1>8 DEF Touches, Added
  <1>11. FieldPut(p, q, t, text, place)
    <2>1. Touches(q, q, {})
      BY DEF Touches
    <2>2. r.db[t].content = p.db[t].content
      BY <1>4
    <2>3. QED
      BY <2>1, <2>2, <1>1, <1>3, <1>8, FieldPutStays
  <1>12. (Has(p, t, text) => Taken(p, q, 0)) /\ (~Has(p, t, text) => Taken(p, q, 1))
    BY <1>3, <1>7, <1>8 DEF Taken
  <1>13. QED
    BY <1>8, <1>9, <1>10, <1>11, <1>12

\* The lists of layouts, each one element longer.
InStep(ll, hl) ==
    /\ ll \in Seq(LowLayouts) /\ hl \in Seq(HighLayouts)
    /\ \A i \in 1 .. Len(hl) : hl[i].memblock \in 1 .. Len(ll) /\ hl[i].memblock = hl[i].memblock_id + 1
    /\ \A i \in 1 .. Len(ll) : ll[i].memblock_index + 1 = i

\* The index and the place that the n-th declaration records.
Numbered(low, high, n) == low.memblock_index = n /\ high.memblock = n + 1 /\ high.memblock_id = n

\* Both lists stay in step when each gets the element of the next declaration.
LEMMA LayoutLists ==
    ASSUME NEW ll, NEW hl, InStep(ll, hl), NEW low \in LowLayouts, NEW high \in HighLayouts,
           NEW n, n = Len(ll), Numbered(low, high, n),
           NEW ll2, ll2 = Append(ll, low), NEW hl2, hl2 = Append(hl, high)
    PROVE  InStep(ll2, hl2)
  <1> USE DEF InStep, Numbered
  <1>1. /\ ll2 \in Seq(LowLayouts) /\ Len(ll2) = Len(ll) + 1 /\ ll2[Len(ll) + 1] = low
        /\ \A i \in 1 .. Len(ll) : ll2[i] = ll[i]
    BY AppendProperties
  <1>2. /\ hl2 \in Seq(HighLayouts) /\ Len(hl2) = Len(hl) + 1 /\ hl2[Len(hl) + 1] = high
        /\ \A i \in 1 .. Len(hl) : hl2[i] = hl[i]
    BY AppendProperties
  <1>3. Len(ll) \in Nat /\ Len(hl) \in Nat
    BY LenProperties
  <1>4. ASSUME NEW i \in 1 .. Len(ll2)
        PROVE  ll2[i].memblock_index + 1 = i
    <2>1. CASE i \in 1 .. Len(ll)
      BY <2>1, <1>1
    <2>2. CASE i = Len(ll) + 1
      BY <2>2, <1>1
    <2>3. QED
      BY <2>1, <2>2, <1>1, <1>3
  <1>5. ASSUME NEW i \in 1 .. Len(hl2)
        PROVE  hl2[i].memblock \in 1 .. Len(ll2) /\ hl2[i].memblock = hl2[i].memblock_id + 1
    <2>1. CASE i \in 1 .. Len(hl)
      <3>1. hl2[i] = hl[i] /\ hl[i].memblock \in 1 .. Len(ll) /\ hl[i].memblock = hl[i].memblock_id + 1
        BY <2>1, <1>2
      <3>2. QED
        BY <3>1, <1>1, <1>3
    <2>2. CASE i = Len(hl) + 1
      BY <2>2, <1>1, <1>2, <1>3
    <2>3. QED
      BY <2>1, <2>2, <1>2, <1>3
  <1>6. QED
    BY <1>1, <1>2, <1>3, <1>4, <1>5

\* The layouts are in step after it if they were before.
LEMMA LayoutsGrow ==
    ASSUME NEW p, Sound(Cells, p), NEW l, NEW t, LayoutsKept(p, l, t), NEW s, s = p.db[t].store,
           NEW low \in LowLayouts, NEW high \in HighLayouts,
           NEW n, n = Len(p.db[l].content), Numbered(low, high, n),
           NEW q, NEW W, Touches(p, q, W),
           Added(p, q, l, low), Added(p, q, s, high),
           NEW text, NEW place, place = Len(p.db[s].content) + 1, FieldPut(p, q, t, text, place)
    PROVE  LayoutsKept(q, l, t) /\ q.db[t].store = s
  <1>1. /\ t \in Blocks /\ p.db[t].type = "TABLE" /\ p.db[t].persistence_code > 0
        /\ s \in Blocks /\ p.db[s].type = "UNSPECIFIED" /\ p.db[s].persistence_code > 0
        /\ l \in Blocks /\ p.db[l].type = "UNSPECIFIED" /\ p.db[l].persistence_code > 0 /\ l # s
    BY DEF LayoutsKept
  <1>2. /\ q.db[t].type = "TABLE" /\ q.db[t].persistence_code > 0 /\ q.db[t].store = s
        /\ q.db[s].type = "UNSPECIFIED" /\ q.db[s].persistence_code > 0
        /\ q.db[l].type = "UNSPECIFIED" /\ q.db[l].persistence_code > 0
    BY <1>1 DEF Touches, Live
  <1>3. PICK ll, hl, ll2, hl2 : /\ ll = p.db[l].content /\ hl = p.db[s].content
                                /\ ll2 = q.db[l].content /\ hl2 = q.db[s].content
    OBVIOUS
  <1>4. /\ InStep(ll, hl)
        /\ \A i \in 1 .. Len(p.db[t].content) : p.db[t].content[i].value \in 1 .. Len(hl)
    BY <1>3 DEF LayoutsKept, InStep
  <1>5. n = Len(ll)
    BY <1>3
  <1>6. InStep(ll2, hl2) /\ Len(hl2) = Len(hl) + 1 /\ Len(hl) \in Nat
    <2>1. ll2 = Append(ll, low) /\ hl2 = Append(hl, high)
      BY <1>3 DEF Added
    <2>2. InStep(ll2, hl2)
      BY <2>1, <1>4, <1>5, LayoutLists
    <2>3. hl \in Seq(HighLayouts)
      BY <1>4 DEF InStep
    <2>4. Len(hl2) = Len(hl) + 1
      BY <2>1, <2>3, AppendProperties
    <2>5. Len(hl) \in Nat
      BY <2>3, LenProperties
    <2>6. QED
      BY <2>2, <2>4, <2>5
  <1>7. PICK N : N = 1 .. Len(hl2)
    OBVIOUS
  <1>8. place \in N
    <2>1. place = Len(hl) + 1
      BY <1>3
    <2>2. 1 <= place /\ place <= Len(hl2) /\ place \in Nat
      BY <2>1, <1>6
    <2>3. QED
      BY <2>2, <1>7
  <1>9. \A i \in 1 .. Len(p.db[t].content) : p.db[t].content[i].value \in N
    BY <1>4, <1>6, <1>7
  <1>10. \A i \in 1 .. Len(q.db[t].content) : q.db[t].content[i].value \in N
    BY <1>1, <1>8, <1>9, ValuesAfterPut, SMTT(30)
  <1>11. QED
    BY <1>1, <1>2, <1>3, <1>6, <1>7, <1>10 DEF LayoutsKept, InStep

\* What declare_memblock leaves, once there is a name for the block: the layouts,
\* with an element more, and a memblock id.
LEMMA DeclaredUnderName ==
    ASSUME NEW p, Sound(Cells, p), NEW l, NEW t, LayoutsKept(p, l, t), NEW m, Passing(p, m, "TABLE"),
           NEW s, s = p.db[t].store, NEW key, Name(p, key), NEW text, text = TextOf(p, key),
           Room(p, 1 + One(~Has(p, t, text)) + One(~Has(p, m, text))),
           NEW low \in LowLayouts, NEW high \in HighLayouts,
           NEW r, r = NewObject(p, l, low), NEW u, u = NewObject(r, s, high),
           NEW place \in Nat, NEW w, w = Put(u, t, key, place), NEW memid, memid = Top(w, 1),
           NEW d \in BlocksOf(Cells), d.type = "STRING", d.persistence_code = 0, Refers(d) = {},
           NEW v, v = Take(w, <<d>>), NEW q, q = PutBlock(v, m, key, memid)
    PROVE  /\ Sound(Cells, q) /\ Touches(p, q, {l, t, s, m})
           /\ Added(p, q, l, low) /\ Added(p, q, s, high) /\ FieldPut(p, q, t, text, place)
  <1>1. /\ l \in Blocks /\ t \in Blocks /\ s \in Blocks /\ m \in Blocks
        /\ Live(p, l) /\ Live(p, t) /\ Live(p, s) /\ Live(p, m)
        /\ p.db[t].type = "TABLE" /\ m \notin {l, t, s}
        /\ key \in Blocks /\ key \notin {l, t, s} /\ p.db[m].type = "TABLE" /\ p.db[m].persistence_code = 0
    <2>1. /\ l \in Blocks /\ t \in Blocks /\ s \in Blocks /\ p.db[t].type = "TABLE"
          /\ p.db[l].type = "UNSPECIFIED" /\ p.db[s].type = "UNSPECIFIED"
          /\ p.db[l].persistence_code > 0 /\ p.db[t].persistence_code > 0 /\ p.db[s].persistence_code > 0
      BY DEF LayoutsKept
    <2>2. m \in Blocks /\ p.db[m].type = "TABLE" /\ p.db[m].persistence_code = 0
      BY DEF Passing
    <2>3. key \in Blocks /\ p.db[key].type = "STRING"
      BY DEF Name
    <2>4. key \notin {l, t, s}
      BY <2>1, <2>3
    <2>5. m \notin {l, t, s}
      <3>1. \A x : x > 0 => x # 0
        OBVIOUS
      <3>2. QED
        BY <3>1, <2>1, <2>2
    <2>6. QED
      BY <2>1, <2>2, <2>3, <2>4, <2>5 DEF Live
  <1>2. /\ Len(p.stack) \in Nat
        /\ Len(p.stack) >= 1 + One(~Has(p, t, text)) + One(~Has(p, m, text))
        /\ One(~Has(p, t, text)) \in {0, 1} /\ One(~Has(p, m, text)) \in {0, 1}
    <2>1. p \in PoolsOf(Cells)
      BY DEF Sound
    <2>2. QED
      BY <2>1, BlockTypes DEF Room, One
  <1>3. /\ Sound(Cells, w) /\ Touches(p, w, {l, t, s})
        /\ Added(p, w, l, low) /\ Added(p, w, s, high)
        /\ FieldPut(p, w, t, text, place)
        /\ (Has(p, t, text) => Taken(p, w, 0)) /\ (~Has(p, t, text) => Taken(p, w, 1))
    <2>1. Has(p, t, text) \/ Room(p, 1)
      BY <1>2 DEF Room, One
    <2>2. QED
      BY <2>1, LayoutsDeclared
  <1>4. w.db[m] = p.db[m] /\ Live(w, l) /\ Live(w, t) /\ Live(w, s)
    BY <1>1, <1>3 DEF Touches, Live
  <1>5. Name(w, key) /\ TextOf(w, key) = text
    BY <1>1, <1>3, NameStays
  <1>6. Has(w, m, text) = Has(p, m, text)
    <2>1. w.db[m].content = p.db[m].content
      BY <1>4
    <2>2. QED
      BY <2>1, <1>1, <1>3, HasStays
  <1>7. Sound(Cells, q) /\ Touches(w, q, {m})
    <2>1. Room(w, 1 + One(~Has(w, m, text)))
      BY <1>2, <1>3, <1>6 DEF Room, One, Taken
    <2>2. Passing(w, m, "TABLE")
      BY <1>1, <1>4 DEF Passing
    <2>3. QED
      BY <2>1, <2>2, <1>3, <1>5, BlockUnder
  <1>8. Touches(p, q, {l, t, s, m})
    <2>1. {l, t, s} \cup {m} = {l, t, s, m}
      OBVIOUS
    <2>2. QED
      BY <2>1, <1>3, <1>7, TouchesBoth
  <1>9. q.db[l] = w.db[l] /\ q.db[s] = w.db[s] /\ q.db[t] = w.db[t]
    BY <1>1, <1>4, <1>7 DEF Touches
  <1>10. Added(p, q, l, low) /\ Added(p, q, s, high)
    BY <1>3, <1>9 DEF Added
  <1>11. FieldPut(p, q, t, text, place)
    <2>1. Touches(p, p, {})
      BY DEF Touches
    <2>2. q.db[t].content = w.db[t].content /\ p.db[t].content = p.db[t].content
      BY <1>9
    <2>3. QED
      BY <2>1, <2>2, <1>1, <1>3, <1>7, FieldPutStays
  <1>12. QED
    BY <1>7, <1>8, <1>10, <1>11

\* The calls of declare_memblock that come after the name, as one.
Declaration(p, l, t, m, key, low, high, place, d, q) ==
    LET r == NewObject(p, l, low)
        u == NewObject(r, p.db[t].store, high)
        w == Put(u, t, key, place)
    IN  q = PutBlock(Take(w, <<d>>), m, key, Top(w, 1))

\* The same for the pool that a declaration leaves.
LEMMA DeclarationLeaves ==
    ASSUME NEW p, Sound(Cells, p), NEW l, NEW t, LayoutsKept(p, l, t), NEW m, Passing(p, m, "TABLE"),
           NEW s, s = p.db[t].store, NEW key, Name(p, key), NEW text, text = TextOf(p, key),
           Room(p, 1 + One(~Has(p, t, text)) + One(~Has(p, m, text))),
           NEW low \in LowLayouts, NEW high \in HighLayouts, NEW place \in Nat,
           NEW d \in BlocksOf(Cells), d.type = "STRING", d.persistence_code = 0, Refers(d) = {},
           NEW q, Declaration(p, l, t, m, key, low, high, place, d, q)
    PROVE  /\ Sound(Cells, q) /\ Touches(p, q, {l, t, s, m})
           /\ Added(p, q, l, low) /\ Added(p, q, s, high) /\ FieldPut(p, q, t, text, place)
  <1>1. PICK r, u, w, b, v : /\ r = NewObject(p, l, low) /\ u = NewObject(r, s, high)
                             /\ w = Put(u, t, key, place) /\ b = Top(w, 1) /\ v = Take(w, <<d>>)
                             /\ q = PutBlock(v, m, key, b)
    BY DEF Declaration
  <1>2. QED
    BY <1>1, DeclaredUnderName

\* A draft's layouts, the name included.
Counted(seq, n) == n = Len(seq)
Past(seq, place) == place = Len(seq) + 1
Named(p, name, key, q) == key = Top(p, 1) /\ q = Take(p, <<String(name)>>)
IdBlock(d) == d = String("id")
HasStore(p, t, s) == s = p.db[t].store

\* A declaration under a name that is looked up, whichever block stands for it.
LEMMA Declared ==
    ASSUME NEW p, Sound(Cells, p), NEW l, NEW t, LayoutsKept(p, l, t), NEW m, Passing(p, m, "TABLE"),
           NEW s, HasStore(p, t, s), NEW name \in Names,
           Room(p, 2 + One(~Has(p, t, name)) + One(~Has(p, m, name))),
           NEW key, NEW p1, Named(p, name, key, p1),
           NEW place \in Nat, Past(p.db[s].content, place), NEW d, IdBlock(d),
           NEW low \in LowLayouts, NEW high \in HighLayouts,
           NEW n, Counted(p.db[l].content, n), Numbered(low, high, n),
           NEW q, Declaration(p1, l, t, m, key, low, high, place, d, q)
    PROVE  /\ Sound(Cells, q) /\ Touches(p, q, {l, t, s, m})
           /\ LayoutsKept(q, l, t) /\ HasStore(q, t, s)
           /\ Added(p, q, l, low) /\ Added(p, q, s, high) /\ FieldPut(p, q, t, name, place)
  <1>0. /\ s = p.db[t].store /\ n = Len(p.db[l].content) /\ d = String("id")
        /\ key = Top(p, 1) /\ p1 = Take(p, <<String(name)>>)
    BY DEF HasStore, Counted, Named, IdBlock
  <1>1. /\ Len(p.stack) \in Nat
        /\ Len(p.stack) >= 2 + One(~Has(p, t, name)) + One(~Has(p, m, name))
        /\ One(~Has(p, t, name)) \in {0, 1} /\ One(~Has(p, m, name)) \in {0, 1}
    <2>1. p \in PoolsOf(Cells)
      BY DEF Sound
    <2>2. QED
      BY <2>1, BlockTypes DEF Room, One
  <1>2. /\ Sound(Cells, p1) /\ Touches(p, p1, {})
        /\ Name(p1, key) /\ TextOf(p1, key) = name /\ Len(p1.stack) = Len(p.stack) - 1
    <2>1. Room(p, 1)
      BY <1>1 DEF Room
    <2>2. name \in Text
      BY DEF Text
    <2>3. QED
      BY <2>1, <2>2, <1>0, NameTaken
  <1>3. /\ t \in Blocks /\ Live(p, t) /\ p.db[t].type = "TABLE" /\ s \in Blocks /\ Live(p, s)
        /\ l \in Blocks /\ Live(p, l) /\ m \in Blocks /\ Live(p, m) /\ p.db[m].type = "TABLE"
    BY <1>0 DEF LayoutsKept, Passing, Live
  <1>4. p1.db[t] = p.db[t] /\ p1.db[m] = p.db[m] /\ p1.db[l] = p.db[l] /\ p1.db[s] = p.db[s]
    BY <1>2, <1>3 DEF Touches
  <1>5. LayoutsKept(p1, l, t) /\ Passing(p1, m, "TABLE") /\ s = p1.db[t].store
    <2>1. LayoutsKept(p1, l, t)
      BY <1>0, <1>4, ZenonT(40) DEF LayoutsKept
    <2>2. Passing(p1, m, "TABLE")
      BY <1>0, <1>4 DEF Passing
    <2>3. QED
      BY <2>1, <2>2, <1>0, <1>4
  <1>6. Has(p1, t, name) = Has(p, t, name) /\ Has(p1, m, name) = Has(p, m, name)
    <2>1. p1.db[t].content = p.db[t].content /\ p1.db[m].content = p.db[m].content
      BY <1>4
    <2>2. QED
      BY <2>1, <1>2, <1>3, HasStays
  <1>7. d \in BlocksOf(Cells) /\ d.type = "STRING" /\ d.persistence_code = 0 /\ Refers(d) = {}
    <2>1. PICK x \in Text, none \in Blocks \cup {Null} : x = "id" /\ none = Null
      BY DEF Text
    <2>2. d = StringBlock(x, none)
      BY <2>1, <1>0 DEF String, Disposed, StringBlock
    <2>3. d \in BlocksOf(Cells) /\ d.type = "STRING" /\ d.persistence_code = 0 /\ Refers(d) = {Null, none} \ {Null}
      BY <2>1, <2>2, StringMade
    <2>4. QED
      BY <2>1, <2>3
  <1>8. Room(p1, 1 + One(~Has(p1, t, name)) + One(~Has(p1, m, name)))
    BY <1>1, <1>2, <1>6 DEF Room
  <1>9. /\ Sound(Cells, q) /\ Touches(p1, q, {l, t, s, m})
         /\ Added(p1, q, l, low) /\ Added(p1, q, s, high) /\ FieldPut(p1, q, t, name, place)
    <2>1. name = TextOf(p1, key)
      BY <1>2
    <2>2. QED
      BY <2>1, <1>2, <1>5, <1>7, <1>8, DeclarationLeaves
  <1>10. Touches(p, q, {l, t, s, m})
    <2>1. {} \cup {l, t, s, m} = {l, t, s, m}
      OBVIOUS
    <2>2. QED
      BY <2>1, <1>2, <1>9, TouchesBoth
  <1>11. LayoutsKept(q, l, t) /\ q.db[t].store = s
    <2>1. n = Len(p1.db[l].content) /\ place = Len(p1.db[s].content) + 1
      BY <1>0, <1>4 DEF Past
    <2>2. LayoutsKept(q, l, t)
      BY <2>1, <1>2, <1>5, <1>9, LayoutsGrow, ZenonT(40)
    <2>3. q.db[t].store = s
      BY <1>0, <1>3, <1>10 DEF Touches
    <2>4. QED
      BY <2>2, <2>3
  <1>12. Added(p, q, l, low) /\ Added(p, q, s, high)
    BY <1>4, <1>9 DEF Added
  <1>13. FieldPut(p, q, t, name, place)
    <2>1. Touches(q, q, {})
      BY DEF Touches
    <2>2. p1.db[t].content = p.db[t].content /\ q.db[t].content = q.db[t].content
      BY <1>4
    <2>3. QED
      BY <2>1, <2>2, <1>2, <1>3, <1>9, FieldPutStays
  <1>14. QED
    BY <1>9, <1>10, <1>11, <1>12, <1>13 DEF HasStore

\* A block of memory is declared under a name: an element in each of the lists,
\* at the place that the name stands for.
DeclaredAs(p, q, l, t, s, kind, name, low, high, place) ==
    /\ low \in LowLayouts /\ high \in HighLayouts
    /\ low.base_address = Base[kind] /\ high.memblock = Len(p.db[l].content) + 1
    /\ Added(p, q, l, low) /\ Added(p, q, s, high)
    /\ Past(p.db[s].content, place) /\ FieldPut(p, q, t, name, place)

\* What declare_memblock leaves, as one of the emit-mem functions calls it.
LEMMA MemblockDeclared ==
    ASSUME NEW p, Sound(Cells, p), NEW kind \in Kinds, NEW name \in Names,
           NEW l, l = ctx.memory_layout_ll, NEW t, t = ctx.memory_layout_hl, NEW m, m = ctx.memblock_table,
           LayoutsKept(p, l, t), Passing(p, m, "TABLE"),
           p.db[t] = pool.db[t], p.db[l] = pool.db[l], Len(p.db[l].content) = Len(p.db[t].content),
           NEW s, s = p.db[t].store,
           Room(p, 2 + One(~Has(p, t, name)) + One(~Has(p, m, name))),
           NEW q, q = DeclareMemblock(p, kind, name)
    PROVE  /\ Sound(Cells, q) /\ Touches(p, q, {l, t, s, m})
           /\ LayoutsKept(q, l, t) /\ HasStore(q, t, s)
           /\ \E low, high, place : DeclaredAs(p, q, l, t, s, kind, name, low, high, place)
  <1>1. /\ t \in Blocks /\ Live(p, t) /\ s \in Blocks /\ Live(p, s) /\ l \in Blocks /\ Live(p, l) /\ l # s
        /\ p.db[l].type = "UNSPECIFIED" /\ p.db[l].content \in Seq(LowLayouts)
        /\ p.db[s].content \in Seq(HighLayouts)
    BY DEF LayoutsKept, Live
  <1>2. PICK key, p1, n : key = Top(p, 1) /\ p1 = Take(p, <<String(name)>>) /\ n = Len(p.db[l].content)
    OBVIOUS
  <1>3. n \in Nat /\ Len(p.db[s].content) \in Nat
    BY <1>1, <1>2, LenProperties
  <1>4. /\ Sound(Cells, p1) /\ p1.db[t] = p.db[t] /\ p1.db[l] = p.db[l] /\ p1.db[s] = p.db[s]
    <2>1. Room(p, 1)
      <3>1. Len(p.stack) \in Nat
        <4>1. p \in PoolsOf(Cells)
          BY DEF Sound
        <4>2. QED
          BY <4>1, BlockTypes
      <3>2. QED
        BY <3>1 DEF Room, One
    <2>2. name \in Text
      BY DEF Text
    <2>3. Sound(Cells, p1) /\ Touches(p, p1, {})
      BY <2>1, <2>2, <1>2, NameTaken
    <2>4. QED
      BY <2>3, <1>1 DEF Touches
  <1>5. PICK low : low = [memblock_index |-> n, base_address |-> Base[kind]]
    OBVIOUS
  <1>6. low \in LowLayouts /\ low.memblock_index = n /\ low.base_address = Base[kind]
    <2>1. Base[kind] \in {"none", "own", "shared"}
      BY KindsAssumption DEF Base
    <2>2. QED
      BY <2>1, <1>3, <1>5 DEF LowLayouts
  <1>7. PICK r : r = NewObject(p1, l, low)
    OBVIOUS
  <1>8. Touches(p1, r, {l}) /\ Added(p1, r, l, low)
    <2>1. low \in Cells /\ p1.db[l].type = "UNSPECIFIED"
      BY <1>1, <1>4, <1>6 DEF Cells
    <2>2. QED
      BY <2>1, <1>1, <1>4, <1>7, ObjectAdded
  <1>9. Len(r.db[l].content) = n + 1
    <2>1. r.db[l].content = Append(p.db[l].content, low)
      BY <1>4, <1>8 DEF Added
    <2>2. PICK ll, ll2 : ll = p.db[l].content /\ ll2 = Append(ll, low)
      OBVIOUS
    <2>3. Len(ll2) = Len(ll) + 1
      BY <2>2, <1>1, <1>6, AppendProperties
    <2>4. QED
      BY <2>1, <2>2, <2>3, <1>2
  <1>10. r.db[s].content = p.db[s].content
    BY <1>1, <1>4, <1>8 DEF Touches, Live
  <1>11. PICK high, place, d : /\ high = [memblock |-> Len(r.db[l].content), memblock_id |-> n]
                               /\ place = Len(r.db[s].content) + 1 /\ d = String("id")
    OBVIOUS
  <1>12. high \in HighLayouts /\ Numbered(low, high, n)
    <2>1. high = [memblock |-> n + 1, memblock_id |-> n]
      BY <1>9, <1>11
    <2>2. QED
      BY <2>1, <1>3, <1>6 DEF HighLayouts, Numbered
  <1>13. place \in Nat /\ place = Len(p.db[s].content) + 1
    BY <1>3, <1>10, <1>11
  <1>14. Declaration(p1, l, t, m, key, low, high, place, d, q)
    <2>1. PICK id : id = Len(pool.db[t].content) /\ id = n
      BY <1>2
    <2>2. /\ low = [memblock_index |-> id, base_address |-> Base[kind]]
          /\ high = [memblock |-> Len(r.db[l].content), memblock_id |-> id]
          /\ place = Len(r.db[pool.db[t].store].content) + 1
      BY <2>1, <1>5, <1>11
    <2>3. p1.db[t].store = p.db[t].store /\ p.db[t].store = pool.db[t].store
      BY <1>4
    <2>4. QED
      BY <2>1, <2>2, <2>3, <1>2, <1>7, <1>11 DEF DeclareMemblock, Declaration, db, Content
  <1>15. /\ Sound(Cells, q) /\ Touches(p, q, {l, t, s, m}) /\ LayoutsKept(q, l, t)
         /\ Past(p.db[s].content, place)
         /\ Added(p, q, l, low) /\ Added(p, q, s, high) /\ FieldPut(p, q, t, name, place)
    <2>1. /\ Named(p, name, key, p1) /\ IdBlock(d) /\ Counted(p.db[l].content, n)
          /\ Past(p.db[s].content, place) /\ HasStore(p, t, s)
      BY <1>2, <1>11, <1>13 DEF Past, HasStore, Named, IdBlock, Counted
    <2>2. low \in LowLayouts /\ high \in HighLayouts /\ place \in Nat
      BY <1>6, <1>12, <1>13
    <2>3. Sound(Cells, q)
      BY <2>1, <2>2, <1>12, <1>14, Declared
    <2>4. Touches(p, q, {l, t, s, m})
      BY <2>1, <2>2, <1>12, <1>14, Declared
    <2>5. LayoutsKept(q, l, t)
      BY <2>1, <2>2, <1>12, <1>14, Declared
    <2>6. Added(p, q, l, low) /\ Added(p, q, s, high) /\ FieldPut(p, q, t, name, place)
      BY <2>1, <2>2, <1>12, <1>14, Declared
    <2>7. QED
      BY <2>1, <2>3, <2>4, <2>5, <2>6
  <1>16. DeclaredAs(p, q, l, t, s, kind, name, low, high, place)
    <2>1. high.memblock = Len(p.db[l].content) + 1
      BY <1>2, <1>12 DEF Numbered
    <2>2. QED
      BY <2>1, <1>6, <1>12, <1>15 DEF DeclaredAs
  <1>17. HasStore(q, t, s)
    BY <1>1, <1>15 DEF Touches, HasStore
  <1>18. QED
    BY <1>15, <1>16, <1>17

\* The blocks that a call of emit-mem needs.
LEMMA MemRoom ==
    ASSUME ServiceSound, NEW kind, NEW name, Mem(kind, name), ~Fail,
           NEW t, t = ctx.memory_layout_hl, NEW m, m = ctx.memblock_table
    PROVE  /\ ctx.drafting /\ DraftKept(pool, ctx)
           /\ Len(pool.stack) \in Nat
           /\ Len(pool.stack) >= NameBlocks(kind) + 1 + One(~Has(pool, t, name)) + One(~Has(pool, m, name))
           /\ Len(pool.db[ctx.memory_layout_ll].content) = Len(pool.db[t].content)
           /\ pool' = DeclareMemblock(IF kind = "empty" THEN Take(pool, <<String(name)>>) ELSE pool, kind, name)
           /\ UNCHANGED <<ctx, cmd, cmd_lasttoken, programs, status, handles>>
  <1>1. /\ ctx.drafting /\ Room(pool, MemBlocks(kind, name)) /\ LayoutsAgree
        /\ pool' = DeclareMemblock(IF kind = "empty" THEN Take(pool, <<String(name)>>) ELSE pool, kind, name)
        /\ UNCHANGED <<ctx, cmd, cmd_lasttoken, programs, status, handles>>
    BY DEF Mem, Drafting
  <1>2. Sound(Cells, pool) /\ DraftKept(pool, ctx)
    BY <1>1 DEF ServiceSound
  <1>3. t # m
    <2>1. pool.db[t].persistence_code > 0
      BY <1>2 DEF DraftKept, Kept, LayoutsKept
    <2>2. pool.db[m].persistence_code = 0
      BY <1>2 DEF DraftKept, Passing
    <2>3. QED
      BY <2>1, <2>2
  <1>4. PICK S : S = {x \in LayoutTables : ~Has(pool, x, name)}
    OBVIOUS
  <1>5. Cardinality(S) = One(t \in S) + One(m \in S)
    <2>1. S \subseteq {t, m}
      BY <1>4 DEF LayoutTables
    <2>2. QED
      BY <2>1, <1>3, CountTwo
  <1>6. One(t \in S) = One(~Has(pool, t, name)) /\ One(m \in S) = One(~Has(pool, m, name))
    <2>1. (t \in S <=> ~Has(pool, t, name)) /\ (m \in S <=> ~Has(pool, m, name))
      BY <1>4 DEF LayoutTables
    <2>2. QED
      BY <2>1 DEF One
  <1>7. Len(pool.stack) \in Nat
    <2>1. pool \in PoolsOf(Cells)
      BY <1>2 DEF Sound
    <2>2. QED
      BY <2>1, BlockTypes
  <1>8. Len(pool.stack) >= NameBlocks(kind) + 1 + Cardinality(S)
    BY <1>1, <1>4 DEF Room, MemBlocks
  <1>9. Len(pool.stack) >= NameBlocks(kind) + 1 + One(~Has(pool, t, name)) + One(~Has(pool, m, name))
    <2>1. One(~Has(pool, t, name)) \in Nat /\ One(~Has(pool, m, name)) \in Nat /\ NameBlocks(kind) \in Nat
      BY DEF One, NameBlocks
    <2>2. QED
      BY <2>1, <1>5, <1>6, <1>7, <1>8
  <1>10. Len(pool.db[ctx.memory_layout_ll].content) = Len(pool.db[t].content)
    BY <1>1 DEF LayoutsAgree, Content, db
  <1>11. QED
    BY <1>1, <1>2, <1>7, <1>9, <1>10

\* Every function that makes a block of memory, by the kind of the block.
LEMMA MemLeaves ==
    ASSUME ServiceSound, NEW kind \in Kinds, NEW name \in Names, Mem(kind, name), ~Fail,
           NEW l, l = ctx.memory_layout_ll, NEW t, t = ctx.memory_layout_hl, NEW m, m = ctx.memblock_table,
           NEW s, s = pool.db[t].store
    PROVE  /\ ctx.drafting /\ DraftKept(pool, ctx)
           /\ Sound(Cells, pool') /\ Touches(pool, pool', {l, t, s, m})
           /\ LayoutsKept(pool', l, t) /\ HasStore(pool', t, s)
           /\ \E low, high, place : DeclaredAs(pool, pool', l, t, s, kind, name, low, high, place)
           /\ UNCHANGED <<ctx, cmd, cmd_lasttoken, programs, status, handles>>
  <1>1. /\ ctx.drafting /\ DraftKept(pool, ctx)
        /\ Len(pool.stack) \in Nat
        /\ Len(pool.stack) >= NameBlocks(kind) + 1 + One(~Has(pool, t, name)) + One(~Has(pool, m, name))
        /\ Len(pool.db[l].content) = Len(pool.db[t].content)
        /\ pool' = DeclareMemblock(IF kind = "empty" THEN Take(pool, <<String(name)>>) ELSE pool, kind, name)
        /\ UNCHANGED <<ctx, cmd, cmd_lasttoken, programs, status, handles>>
    BY MemRoom
  <1>2. Sound(Cells, pool) /\ LayoutsKept(pool, l, t) /\ Passing(pool, m, "TABLE")
    BY <1>1 DEF ServiceSound, DraftKept, Kept
  <1>3. /\ t \in Blocks /\ Live(pool, t) /\ pool.db[t].type = "TABLE" /\ s \in Blocks /\ Live(pool, s)
        /\ l \in Blocks /\ Live(pool, l) /\ m \in Blocks /\ Live(pool, m) /\ pool.db[m].type = "TABLE"
    BY <1>2 DEF LayoutsKept, Passing, Live
  <1>4. PICK p, q : p = (IF kind = "empty" THEN Take(pool, <<String(name)>>) ELSE pool) /\ q = pool'
    OBVIOUS
  <1>5. /\ Sound(Cells, p) /\ Touches(pool, p, {})
        /\ Room(p, 2 + One(~Has(pool, t, name)) + One(~Has(pool, m, name)))
    <2>1. CASE kind = "empty"
      <3>1. p = Take(pool, <<String(name)>>) /\ name \in Text /\ Room(pool, 1)
        <4>1. p = Take(pool, <<String(name)>>)
          BY <2>1, <1>4
        <4>2. name \in Text
          BY DEF Text
        <4>3. Room(pool, 1)
          BY <2>1, <1>1 DEF Room, NameBlocks, One
        <4>4. QED
          BY <4>1, <4>2, <4>3
      <3>2. Sound(Cells, p) /\ Touches(pool, p, {}) /\ Len(p.stack) = Len(pool.stack) - 1
        BY <3>1, <1>2, NameTaken
      <3>3. QED
        BY <3>2, <2>1, <1>1 DEF Room, NameBlocks, One
    <2>2. CASE kind # "empty"
      <3>1. p = pool
        BY <2>2, <1>4
      <3>2. Touches(pool, p, {})
        BY <3>1 DEF Touches
      <3>3. QED
        BY <3>1, <3>2, <2>2, <1>1, <1>2 DEF Room, NameBlocks, One
    <2>3. QED
      BY <2>1, <2>2
  <1>6. p.db[t] = pool.db[t] /\ p.db[m] = pool.db[m] /\ p.db[l] = pool.db[l] /\ p.db[s] = pool.db[s]
    BY <1>3, <1>5 DEF Touches
  <1>7. LayoutsKept(p, l, t) /\ Passing(p, m, "TABLE")
    <2>1. p.db[t].store = s /\ pool.db[t].store = s
      BY <1>6
    <2>2. LayoutsKept(p, l, t)
      BY <2>1, <1>2, <1>6, ZenonT(40) DEF LayoutsKept
    <2>3. Passing(p, m, "TABLE")
      BY <1>2, <1>6 DEF Passing
    <2>4. QED
      BY <2>2, <2>3
  <1>8. Has(p, t, name) = Has(pool, t, name) /\ Has(p, m, name) = Has(pool, m, name)
    <2>1. p.db[t].content = pool.db[t].content /\ p.db[m].content = pool.db[m].content
      BY <1>6
    <2>2. QED
      BY <2>1, <1>2, <1>3, <1>5, HasStays
  <1>9. /\ Sound(Cells, q) /\ Touches(p, q, {l, t, s, m})
        /\ LayoutsKept(q, l, t) /\ HasStore(q, t, s)
        /\ \E low, high, place : DeclaredAs(p, q, l, t, s, kind, name, low, high, place)
    <2>1. Room(p, 2 + One(~Has(p, t, name)) + One(~Has(p, m, name)))
      BY <1>5, <1>8
    <2>2. Len(p.db[l].content) = Len(p.db[t].content) /\ s = p.db[t].store
      BY <1>1, <1>6
    <2>3. q = DeclareMemblock(p, kind, name)
      BY <1>1, <1>4
    <2>4. QED
      BY <2>1, <2>2, <2>3, <1>5, <1>6, <1>7, MemblockDeclared, ZenonT(40)
  <1>10. Touches(pool, q, {l, t, s, m})
    <2>1. {} \cup {l, t, s, m} = {l, t, s, m}
      OBVIOUS
    <2>2. QED
      BY <2>1, <1>5, <1>9, TouchesBoth
  <1>11. \E low, high, place : DeclaredAs(pool, q, l, t, s, kind, name, low, high, place)
    <2>1. PICK low, high, place : DeclaredAs(p, q, l, t, s, kind, name, low, high, place)
      BY <1>9
    <2>2. FieldPut(pool, q, t, name, place)
      <3>1. Touches(q, q, {})
        BY DEF Touches
      <3>2. p.db[t].content = pool.db[t].content /\ q.db[t].content = q.db[t].content
        BY <1>6
      <3>3. FieldPut(p, q, t, name, place)
        BY <2>1 DEF DeclaredAs
      <3>4. QED
        BY <3>1, <3>2, <3>3, <1>2, <1>3, <1>5, FieldPutStays
    <2>3. DeclaredAs(pool, q, l, t, s, kind, name, low, high, place)
      BY <2>1, <2>2, <1>6 DEF DeclaredAs, Added
    <2>4. QED
      BY <2>3
  <1>12. QED
    BY <1>1, <1>4, <1>9, <1>10, <1>11 DEF HasStore

-----------------------------------------------------------------------------
\* What add_script_label leaves, once there is a block for the name: a symbol, a
\* function and an index, each with a field in a table.
FunctionLabel(p, lt, F, s, raw, d, object, place, b, q) ==
    LET named == PutBlock(Take(p, <<d>>), lt, raw, b)
    IN  q = Put(NewObject(named, s, object), F, raw, place)
IsTop(p, b) == b = Top(p, 1)
Made(p, q, b, d) == b \in Blocks /\ ~Live(p, b) /\ b # Null /\ q.db[b] = d
Plain(d) == d \in BlocksOf(Cells) /\ d.type = "STRING" /\ d.persistence_code = 0 /\ Refers(d) = {}
NeedsOf(p, t, text) == One(~Has(p, t, text))

\* The function store after a label has its object.
LEMMA FunctionLabelled ==
    ASSUME NEW p, Sound(Cells, p), NEW lt, Passing(p, lt, "TABLE"), NEW F, FunctionsKept(p, F),
           NEW s, HasStore(p, F, s), NEW raw, Name(p, raw), NEW text, text = TextOf(p, raw),
           NEW d, Plain(d), NEW object \in FunctionObjects, NEW place \in Nat,
           Room(p, 1 + NeedsOf(p, lt, text) + NeedsOf(p, F, text)),
           NEW b, IsTop(p, b), NEW q, FunctionLabel(p, lt, F, s, raw, d, object, place, b, q)
    PROVE  /\ Sound(Cells, q) /\ Touches(p, q, {lt, F, s})
           /\ Added(p, q, s, object) /\ FieldPut(p, q, F, text, place) /\ Made(p, q, b, d)
           /\ Taken(p, q, 1 + NeedsOf(p, lt, text) + NeedsOf(p, F, text))
  <1>1. /\ lt \in Blocks /\ F \in Blocks /\ s \in Blocks /\ Live(p, lt) /\ Live(p, F) /\ Live(p, s)
        /\ p.db[lt].type = "TABLE" /\ p.db[F].type = "TABLE" /\ p.db[s].type = "UNSPECIFIED"
        /\ lt \notin {F, s} /\ s = p.db[F].store
    BY DEF FunctionsKept, Passing, Live, HasStore
  <1>2. /\ Len(p.stack) \in Nat
        /\ Len(p.stack) >= 1 + NeedsOf(p, lt, text) + NeedsOf(p, F, text)
        /\ NeedsOf(p, lt, text) \in {0, 1} /\ NeedsOf(p, F, text) \in {0, 1}
        /\ (Has(p, lt, text) <=> NeedsOf(p, lt, text) = 0) /\ (Has(p, F, text) <=> NeedsOf(p, F, text) = 0)
    <2>1. p \in PoolsOf(Cells)
      BY DEF Sound
    <2>2. QED
      BY <2>1, BlockTypes DEF Room, One, NeedsOf
  <1>3. PICK r, named, u : /\ r = Take(p, <<d>>) /\ named = PutBlock(r, lt, raw, b)
                           /\ u = NewObject(named, s, object) /\ q = Put(u, F, raw, place)
    BY DEF FunctionLabel
  <1>4. /\ Sound(Cells, named) /\ Touches(p, named, {lt})
        /\ b \in Blocks /\ ~Live(p, b) /\ b # Null /\ named.db[b] = d
        /\ (Has(p, lt, text) => Taken(p, named, 1)) /\ (~Has(p, lt, text) => Taken(p, named, 2))
    <2>1. d \in BlocksOf(Cells) /\ d.type = "STRING" /\ d.persistence_code = 0 /\ Refers(d) = {} /\ b = Top(p, 1)
      BY DEF Plain, IsTop
    <2>2. Room(p, 1 + One(~Has(p, lt, text)))
      BY <1>2 DEF Room, NeedsOf
    <2>3. QED
      BY <2>1, <2>2, <1>3, BlockUnder
  <1>5. named.db[F] = p.db[F] /\ named.db[s] = p.db[s]
    BY <1>1, <1>4 DEF Touches
  <1>6. Name(named, raw) /\ TextOf(named, raw) = text
    <2>1. raw \notin {lt}
      BY <1>1 DEF Name
    <2>2. QED
      BY <2>1, <1>4, NameStays
  <1>7. Has(named, F, text) = Has(p, F, text)
    <2>1. named.db[F].content = p.db[F].content
      BY <1>5
    <2>2. QED
      BY <2>1, <1>1, <1>4, HasStays
  <1>8. /\ Sound(Cells, q) /\ Touches(named, q, {F, s}) /\ Added(named, q, s, object)
        /\ FieldPut(named, q, F, text, place)
        /\ (Has(named, F, text) => Taken(named, q, 0)) /\ (~Has(named, F, text) => Taken(named, q, 1))
    <2>1. Has(named, F, text) \/ Room(named, 1)
      BY <1>2, <1>4, <1>7 DEF Room, Taken
    <2>2. named.db[F].type = "TABLE" /\ named.db[s].type = "UNSPECIFIED" /\ text = TextOf(named, raw)
      BY <1>1, <1>5, <1>6
    <2>3. object \in Cells
      BY DEF Cells
    <2>4. QED
      BY <2>1, <2>2, <2>3, <1>1, <1>3, <1>4, <1>6, ObjectNamed
  <1>9. Touches(p, q, {lt, F, s})
    <2>1. {lt} \cup {F, s} = {lt, F, s}
      OBVIOUS
    <2>2. QED
      BY <2>1, <1>4, <1>8, TouchesBoth
  <1>10. Added(p, q, s, object)
    BY <1>5, <1>8 DEF Added
  <1>11. FieldPut(p, q, F, text, place)
    <2>1. Touches(q, q, {})
      BY DEF Touches
    <2>2. named.db[F].content = p.db[F].content /\ q.db[F].content = q.db[F].content
      BY <1>5
    <2>3. QED
      BY <2>1, <2>2, <1>1, <1>4, <1>8, FieldPutStays
  <1>12. Made(p, q, b, d)
    <2>1. Live(named, b) /\ b \notin {F, s}
      BY <1>1, <1>4 DEF Plain, Live
    <2>2. q.db[b] = d
      BY <2>1, <1>4, <1>8 DEF Touches
    <2>3. QED
      BY <2>2, <1>4 DEF Made
  <1>13. Taken(p, q, 1 + NeedsOf(p, lt, text) + NeedsOf(p, F, text))
    BY <1>2, <1>4, <1>7, <1>8 DEF Taken
  <1>14. QED
    BY <1>8, <1>9, <1>10, <1>11, <1>12, <1>13

LabelledIn(p, lt, F, s, lit, raw, d, object, place, e, b, q) ==
    LET named == PutBlock(Take(p, <<d>>), lt, raw, b)
        known == Put(NewObject(named, s, object), F, raw, place)
    IN  q = PutBlock(Take(known, <<e>>), lit, raw, Top(known, 1))

\* What add_label does to the tables and the store.
LEMMA Labelled ==
    ASSUME NEW p, Sound(Cells, p), NEW lt, Passing(p, lt, "TABLE"), NEW F, FunctionsKept(p, F),
           NEW s, HasStore(p, F, s), NEW lit, Passing(p, lit, "TABLE"), lt # lit,
           NEW raw, Name(p, raw), NEW text, text = TextOf(p, raw),
           NEW d, Plain(d), NEW object \in FunctionObjects, NEW place \in Nat, NEW e, Plain(e),
           Room(p, 2 + NeedsOf(p, lt, text) + NeedsOf(p, F, text) + NeedsOf(p, lit, text)),
           NEW b, IsTop(p, b), NEW q, LabelledIn(p, lt, F, s, lit, raw, d, object, place, e, b, q)
    PROVE  /\ Sound(Cells, q) /\ Touches(p, q, {lt, F, s, lit})
           /\ Added(p, q, s, object) /\ FieldPut(p, q, F, text, place) /\ Made(p, q, b, d)
  <1>1. /\ lt \in Blocks /\ F \in Blocks /\ s \in Blocks /\ lit \in Blocks
        /\ Live(p, lt) /\ Live(p, F) /\ Live(p, s) /\ Live(p, lit)
        /\ p.db[F].type = "TABLE" /\ p.db[lit].type = "TABLE" /\ lit \notin {lt, F, s}
        /\ p.db[s].type = "UNSPECIFIED"
    BY DEF FunctionsKept, Passing, Live, HasStore
  <1>2. /\ Len(p.stack) \in Nat
        /\ Len(p.stack) >= 2 + NeedsOf(p, lt, text) + NeedsOf(p, F, text) + NeedsOf(p, lit, text)
        /\ NeedsOf(p, lt, text) \in {0, 1} /\ NeedsOf(p, F, text) \in {0, 1} /\ NeedsOf(p, lit, text) \in {0, 1}
    <2>1. p \in PoolsOf(Cells)
      BY DEF Sound
    <2>2. QED
      BY <2>1, BlockTypes DEF Room, One, NeedsOf
  <1>3. PICK known, v, i : /\ FunctionLabel(p, lt, F, s, raw, d, object, place, b, known)
                           /\ v = Take(known, <<e>>) /\ i = Top(known, 1) /\ q = PutBlock(v, lit, raw, i)
    BY DEF FunctionLabel, LabelledIn
  <1>4. /\ Sound(Cells, known) /\ Touches(p, known, {lt, F, s})
        /\ Added(p, known, s, object) /\ FieldPut(p, known, F, text, place) /\ Made(p, known, b, d)
        /\ Taken(p, known, 1 + NeedsOf(p, lt, text) + NeedsOf(p, F, text))
    <2>1. Room(p, 1 + NeedsOf(p, lt, text) + NeedsOf(p, F, text))
      BY <1>2 DEF Room
    <2>2. QED
      BY <2>1, <1>3, FunctionLabelled
  <1>5. known.db[lit] = p.db[lit] /\ Live(known, F) /\ Live(known, s) /\ Live(known, b) /\ b \in Blocks /\ b # lit
    <2>1. known.db[b] = d /\ d.type = "STRING" /\ b \in Blocks /\ ~Live(p, b)
      BY <1>4 DEF Made, Plain
    <2>2. QED
      BY <2>1, <1>1, <1>4 DEF Touches, Live
  <1>6. Name(known, raw) /\ TextOf(known, raw) = text
    <2>1. raw \notin {lt, F, s}
      <3>1. p.db[raw].type = "STRING"
        BY DEF Name
      <3>2. p.db[lt].type = "TABLE" /\ p.db[F].type = "TABLE" /\ p.db[s].type = "UNSPECIFIED"
        BY <1>1 DEF Passing
      <3>3. QED
        BY <3>1, <3>2
    <2>2. QED
      BY <2>1, <1>4, NameStays
  <1>7. NeedsOf(known, lit, text) = NeedsOf(p, lit, text)
    <2>1. known.db[lit].content = p.db[lit].content
      BY <1>5
    <2>2. Has(known, lit, text) = Has(p, lit, text)
      BY <2>1, <1>1, <1>4, HasStays
    <2>3. QED
      BY <2>2 DEF NeedsOf
  <1>8. Sound(Cells, q) /\ Touches(known, q, {lit})
    <2>1. Room(known, 1 + One(~Has(known, lit, text)))
      <3>1. Len(known.stack) >= 1 + NeedsOf(known, lit, text)
        BY <1>2, <1>4, <1>7 DEF Taken
      <3>2. QED
        BY <3>1 DEF Room, NeedsOf
    <2>2. Passing(known, lit, "TABLE") /\ text = TextOf(known, raw)
      BY <1>5, <1>6 DEF Passing
    <2>3. e \in BlocksOf(Cells) /\ e.type = "STRING" /\ e.persistence_code = 0 /\ Refers(e) = {}
      BY DEF Plain
    <2>4. QED
      BY <2>1, <2>2, <2>3, <1>3, <1>4, <1>6, BlockUnder
  <1>9. Touches(p, q, {lt, F, s, lit})
    <2>1. {lt, F, s} \cup {lit} = {lt, F, s, lit}
      OBVIOUS
    <2>2. QED
      BY <2>1, <1>4, <1>8, TouchesBoth
  <1>10. q.db[F] = known.db[F] /\ q.db[s] = known.db[s] /\ q.db[b] = known.db[b]
    BY <1>1, <1>5, <1>8 DEF Touches
  <1>11. Added(p, q, s, object) /\ Made(p, q, b, d)
    BY <1>4, <1>10 DEF Added, Made
  <1>12. FieldPut(p, q, F, text, place)
    <2>1. Touches(p, p, {})
      BY DEF Touches
    <2>2. q.db[F].content = known.db[F].content /\ p.db[F].content = p.db[F].content
      BY <1>10
    <2>3. QED
      BY <2>1, <2>2, <1>1, <1>4, <1>8, FieldPutStays
  <1>13. QED
    BY <1>8, <1>9, <1>11, <1>12

\* The functions are what they were, and one more.
LEMMA FunctionsGrow ==
    ASSUME NEW p, Sound(Cells, p), NEW F, FunctionsKept(p, F), NEW s, HasStore(p, F, s),
           NEW object \in FunctionObjects, NEW q, NEW W, Touches(p, q, W), Added(p, q, s, object),
           NEW text, NEW place \in Nat, Past(p.db[s].content, place), FieldPut(p, q, F, text, place)
    PROVE  FunctionsKept(q, F) /\ HasStore(q, F, s)
  <1>1. /\ F \in Blocks /\ p.db[F].type = "TABLE" /\ p.db[F].persistence_code > 0 /\ s = p.db[F].store
        /\ s \in Blocks /\ p.db[s].type = "UNSPECIFIED" /\ p.db[s].persistence_code > 0
    BY DEF FunctionsKept, HasStore
  <1>2. /\ q.db[F].type = "TABLE" /\ q.db[F].persistence_code > 0 /\ q.db[F].store = s
        /\ q.db[s].type = "UNSPECIFIED" /\ q.db[s].persistence_code > 0
    BY <1>1 DEF Touches, Live
  <1>3. PICK old, new : old = p.db[s].content /\ new = q.db[s].content
    OBVIOUS
  <1>4. /\ old \in Seq(FunctionObjects)
        /\ \A i \in 1 .. Len(p.db[F].content) : p.db[F].content[i].value \in 1 .. Len(old)
    BY <1>1, <1>3 DEF FunctionsKept
  <1>5. new \in Seq(FunctionObjects) /\ Len(new) = Len(old) + 1 /\ Len(old) \in Nat
    <2>1. new = Append(old, object)
      BY <1>3 DEF Added
    <2>2. QED
      BY <2>1, <1>4, AppendProperties, LenProperties
  <1>6. PICK N : N = 1 .. Len(new)
    OBVIOUS
  <1>7. place \in N
    BY <1>3, <1>5, <1>6 DEF Past
  <1>8. \A i \in 1 .. Len(p.db[F].content) : p.db[F].content[i].value \in N
    BY <1>4, <1>5, <1>6
  <1>9. \A i \in 1 .. Len(q.db[F].content) : q.db[F].content[i].value \in N
    BY <1>1, <1>7, <1>8, ValuesAfterPut
  <1>10. QED
    BY <1>1, <1>2, <1>3, <1>5, <1>6, <1>9 DEF FunctionsKept, HasStore

\* What a call leaves at a block that was free: a symbol.
SymbolAt(p, q, b, text) ==
    /\ b \in Blocks /\ ~Live(p, b) /\ b # Null
    /\ Passing(q, b, "STRING") /\ q.db[b].next = Null /\ q.db[b].content = <<text>>
ObjectFor(name, object) == object = [txt |-> name, value |-> Index]
Unlinked(p, b, v) == pool' = IF ctx.active_labels = Null THEN v ELSE Link(v, ctx.active_labels_last, b)

\* What it does when the name stands for itself.
LEMMA LabelCalls ==
    ASSUME NEW p, Sound(Cells, p), NEW lt, lt = ctx.label_table, Passing(p, lt, "TABLE"),
           NEW F, F = ctx.functions, FunctionsKept(p, F), NEW s, HasStore(p, F, s),
           NEW lit, lit = ctx.labelindex_table, Passing(p, lit, "TABLE"), lt # lit,
           NEW raw, Name(p, raw), NEW name \in Names, name = TextOf(p, raw), Index \in Nat,
           Room(p, 2 + NeedsOf(p, lt, name) + NeedsOf(p, F, name) + NeedsOf(p, lit, name)),
           AddScriptLabel(p, raw, name), NEW b, IsTop(p, b)
    PROVE  \E v, object, place :
             /\ Sound(Cells, v) /\ Touches(p, v, {lt, F, s, lit}) /\ Unlinked(p, b, v)
             /\ SymbolAt(p, v, b, name) /\ ObjectFor(name, object) /\ object \in FunctionObjects
             /\ Added(p, v, s, object) /\ place \in Nat /\ Past(p.db[s].content, place)
             /\ FieldPut(p, v, F, name, place)
  <1>1. PICK d : d = [String(name) EXCEPT !.self_managed = FALSE]
    OBVIOUS
  <1>2. Plain(d) /\ d.content = <<name>> /\ d.next = Null
    <2>1. d = SymbolBlock(name)
      BY <1>1 DEF String, Disposed, SymbolBlock
    <2>2. name \in Text
      BY DEF Text
    <2>3. /\ d \in BlocksOf(Cells) /\ d.type = "STRING" /\ d.persistence_code = 0 /\ d.content = <<name>>
          /\ d.next = Null /\ Refers(d) = {}
      BY <2>1, <2>2, SymbolMade
    <2>4. QED
      BY <2>3 DEF Plain
  <1>3. PICK e : e = String("index")
    OBVIOUS
  <1>4. Plain(e)
    <2>1. PICK x \in Text, none \in Blocks \cup {Null} : x = "index" /\ none = Null
      BY DEF Text
    <2>2. e = StringBlock(x, none)
      BY <2>1, <1>3 DEF String, Disposed, StringBlock
    <2>3. e \in BlocksOf(Cells) /\ e.type = "STRING" /\ e.persistence_code = 0 /\ Refers(e) = {Null, none} \ {Null}
      BY <2>1, <2>2, StringMade
    <2>4. QED
      BY <2>1, <2>3 DEF Plain
  <1>5. PICK object : ObjectFor(name, object)
    BY DEF ObjectFor
  <1>6. object \in FunctionObjects /\ object = [txt |-> name, value |-> Index]
    BY <1>5 DEF ObjectFor, FunctionObjects
  <1>7. PICK r, named : r = Take(p, <<d>>) /\ named = PutBlock(r, lt, raw, b)
    OBVIOUS
  <1>8. Touches(p, named, {lt})
    <2>1. d \in BlocksOf(Cells) /\ d.type = "STRING" /\ d.persistence_code = 0 /\ Refers(d) = {} /\ b = Top(p, 1)
      BY <1>2 DEF Plain, IsTop
    <2>2. Room(p, 1 + One(~Has(p, lt, name)))
      <3>1. Len(p.stack) \in Nat
        <4>1. p \in PoolsOf(Cells)
          BY DEF Sound
        <4>2. QED
          BY <4>1, BlockTypes
      <3>2. QED
        BY <3>1 DEF Room, NeedsOf, One
    <2>3. QED
      BY <2>1, <2>2, <1>7, BlockUnder
  <1>9. /\ F \in Blocks /\ s \in Blocks /\ s = p.db[F].store /\ p.db[s].content \in Seq(FunctionObjects)
        /\ named.db[F] = p.db[F] /\ named.db[s] = p.db[s]
    <2>1. /\ F \in Blocks /\ s \in Blocks /\ s = p.db[F].store /\ Live(p, F) /\ Live(p, s) /\ lt \notin {F, s}
          /\ p.db[s].content \in Seq(FunctionObjects)
      BY DEF FunctionsKept, HasStore, Passing, Live
    <2>2. QED
      BY <2>1, <1>8 DEF Touches
  <1>10. PICK place : place = Len(named.db[s].content) + 1
    OBVIOUS
  <1>11. place \in Nat /\ Past(p.db[s].content, place)
    <2>1. Len(p.db[s].content) \in Nat
      BY <1>9, LenProperties
    <2>2. place = Len(p.db[s].content) + 1
      BY <1>9, <1>10
    <2>3. place \in Nat
      BY <2>1, <2>2
    <2>4. QED
      BY <2>2, <2>3 DEF Past
  <1>12. PICK v : LabelledIn(p, lt, F, s, lit, raw, d, object, place, e, b, v)
    BY DEF LabelledIn
  <1>13. Unlinked(p, b, v)
    <2>1. b = Top(p, 1) /\ s = named.db[F].store
      BY <1>9 DEF IsTop
    <2>2. v = PutBlock(Take(Put(NewObject(named, s, object), F, raw, place), <<e>>), lit, raw,
                       Top(Put(NewObject(named, s, object), F, raw, place), 1))
      BY <1>7, <1>12 DEF LabelledIn
    <2>3. QED
      BY <2>1, <2>2, <1>1, <1>3, <1>6, <1>7, <1>10 DEF AddScriptLabel, Unlinked
  <1>14. /\ Sound(Cells, v) /\ Touches(p, v, {lt, F, s, lit})
         /\ Added(p, v, s, object) /\ FieldPut(p, v, F, name, place) /\ Made(p, v, b, d)
    BY <1>2, <1>4, <1>6, <1>11, <1>12, Labelled
  <1>15. SymbolAt(p, v, b, name)
    BY <1>2, <1>14 DEF SymbolAt, Made, Plain, Passing
  <1>16. /\ Sound(Cells, v) /\ Touches(p, v, {lt, F, s, lit}) /\ Unlinked(p, b, v)
         /\ SymbolAt(p, v, b, name) /\ ObjectFor(name, object) /\ object \in FunctionObjects
         /\ Added(p, v, s, object) /\ place \in Nat /\ Past(p.db[s].content, place)
         /\ FieldPut(p, v, F, name, place)
    BY <1>5, <1>6, <1>11, <1>13, <1>14, <1>15
  <1>17. QED
    BY <1>16, Zenon

\* The blocks that a label needs.
LEMMA LabelRoom ==
    ASSUME ServiceSound, NEW name, Label(name), ~Fail,
           NEW lt, lt = ctx.label_table, NEW F, F = ctx.functions, NEW lit, lit = ctx.labelindex_table
    PROVE  /\ ctx.drafting /\ DraftKept(pool, ctx)
           /\ Len(pool.stack) \in Nat
           /\ Len(pool.stack) >= 3 + NeedsOf(pool, lt, name) + NeedsOf(pool, F, name) + NeedsOf(pool, lit, name)
           /\ AddScriptLabel(Take(pool, <<String(name)>>), Top(pool, 1), name)
           /\ handles' = Append(handles, [name |-> name, handle |-> LabelHandle])
           /\ UNCHANGED <<cmd, cmd_lasttoken, programs, status>>
  <1>1. /\ ctx.drafting /\ Room(pool, LabelBlocks(name))
        /\ AddScriptLabel(Take(pool, <<String(name)>>), Top(pool, 1), name)
        /\ handles' = Append(handles, [name |-> name, handle |-> LabelHandle])
        /\ UNCHANGED <<cmd, cmd_lasttoken, programs, status>>
    BY DEF Label, Drafting
  <1>2. Sound(Cells, pool) /\ DraftKept(pool, ctx)
    BY <1>1 DEF ServiceSound
  <1>3. lt # F /\ lt # lit /\ F # lit
    <2>1. pool.db[F].persistence_code > 0
      BY <1>2 DEF DraftKept, Kept, FunctionsKept
    <2>2. pool.db[lt].persistence_code = 0 /\ pool.db[lit].persistence_code = 0 /\ lt # lit
      BY <1>2 DEF DraftKept, Passing
    <2>3. QED
      BY <2>1, <2>2
  <1>4. PICK S : S = {x \in LabelTables : ~Has(pool, x, name)}
    OBVIOUS
  <1>5. Cardinality(S) = One(lt \in S) + One(F \in S) + One(lit \in S)
    <2>1. S \subseteq {lt, F, lit}
      BY <1>4 DEF LabelTables
    <2>2. QED
      BY <2>1, <1>3, CountThree
  <1>6. /\ One(lt \in S) = NeedsOf(pool, lt, name) /\ One(F \in S) = NeedsOf(pool, F, name)
        /\ One(lit \in S) = NeedsOf(pool, lit, name)
    <2>1. /\ (lt \in S <=> ~Has(pool, lt, name)) /\ (F \in S <=> ~Has(pool, F, name))
          /\ (lit \in S <=> ~Has(pool, lit, name))
      BY <1>4 DEF LabelTables
    <2>2. QED
      BY <2>1 DEF One, NeedsOf
  <1>7. Len(pool.stack) \in Nat
    <2>1. pool \in PoolsOf(Cells)
      BY <1>2 DEF Sound
    <2>2. QED
      BY <2>1, BlockTypes
  <1>8. Len(pool.stack) >= 3 + Cardinality(S)
    BY <1>1, <1>4 DEF Room, LabelBlocks
  <1>9. Len(pool.stack) >= 3 + NeedsOf(pool, lt, name) + NeedsOf(pool, F, name) + NeedsOf(pool, lit, name)
    <2>1. NeedsOf(pool, lt, name) \in Nat /\ NeedsOf(pool, F, name) \in Nat /\ NeedsOf(pool, lit, name) \in Nat
      BY DEF One, NeedsOf
    <2>2. QED
      BY <2>1, <1>5, <1>6, <1>7, <1>8
  <1>10. QED
    BY <1>1, <1>2, <1>7, <1>9

\* The blocks that a label touches, of those that were live.
LabelTouched(F, s) ==
    {ctx.label_table, F, s, ctx.labelindex_table}
      \cup (IF ctx.active_labels = Null THEN {} ELSE {ctx.active_labels_last})
LabelWaits(b) ==
    /\ SameDraft(ctx, ctx') /\ ctx'.active_labels_last = b
    /\ ctx.active_labels = Null => ctx'.active_labels = b
    /\ ctx.active_labels # Null => /\ ctx'.active_labels = ctx.active_labels
                                   /\ pool'.db[ctx.active_labels_last].next = b
                                   /\ pool'.db[ctx.active_labels_last].token = pool.db[ctx.active_labels_last].token

\* emit-label leaves a label that waits, and a function object that stands for it.
LEMMA LabelLeaves ==
    ASSUME ServiceSound, NEW name \in Names, Label(name), ~Fail,
           NEW F, F = ctx.functions, NEW s, HasStore(pool, F, s)
    PROVE  /\ ctx.drafting /\ DraftKept(pool, ctx) /\ Sound(Cells, pool')
           /\ Touches(pool, pool', LabelTouched(F, s))
           /\ FunctionsKept(pool', F) /\ HasStore(pool', F, s)
           /\ \E b : SymbolAt(pool, pool', b, name) /\ LabelWaits(b)
           /\ \E object, place : /\ ObjectFor(name, object) /\ Added(pool, pool', s, object)
                                 /\ Past(pool.db[s].content, place) /\ FieldPut(pool, pool', F, name, place)
           /\ handles' = Append(handles, [name |-> name, handle |-> LabelHandle])
           /\ UNCHANGED <<cmd, cmd_lasttoken, programs, status>>
  <1> DEFINE lt == ctx.label_table
             lit == ctx.labelindex_table
             last == ctx.active_labels_last
  <1>1. /\ ctx.drafting /\ DraftKept(pool, ctx) /\ Len(pool.stack) \in Nat
        /\ Len(pool.stack) >= 3 + NeedsOf(pool, lt, name) + NeedsOf(pool, F, name) + NeedsOf(pool, lit, name)
        /\ AddScriptLabel(Take(pool, <<String(name)>>), Top(pool, 1), name)
        /\ handles' = Append(handles, [name |-> name, handle |-> LabelHandle])
        /\ UNCHANGED <<cmd, cmd_lasttoken, programs, status>>
    BY LabelRoom
  <1>2. /\ Sound(Cells, pool) /\ FunctionsKept(pool, F) /\ Passing(pool, lt, "TABLE")
        /\ Passing(pool, lit, "TABLE") /\ lt # lit /\ ctx \in Drafts
        /\ Index \in Nat
        /\ ctx.active_labels # Null => Passing(pool, last, "STRING") /\ pool.db[last].next = Null
    <2>1. Sound(Cells, pool) /\ Kept(pool, ctx)
      BY <1>1 DEF ServiceSound, DraftKept
    <2>2. Len(pool.db[ctx.script_commands].content) \in Nat
      BY <1>1, LenProperties DEF DraftKept
    <2>3. QED
      BY <1>1, <2>1, <2>2 DEF DraftKept, Kept, Index, Content, db
  <1>3. /\ lt \in Blocks /\ Live(pool, lt) /\ pool.db[lt].type = "TABLE"
        /\ lit \in Blocks /\ Live(pool, lit) /\ pool.db[lit].type = "TABLE"
        /\ F \in Blocks /\ Live(pool, F) /\ pool.db[F].type = "TABLE"
        /\ s = pool.db[F].store /\ s \in Blocks /\ Live(pool, s)
        /\ pool.db[lt].persistence_code = 0 /\ pool.db[lit].persistence_code = 0
        /\ pool.db[F].persistence_code > 0 /\ pool.db[s].persistence_code > 0
    BY <1>2 DEF FunctionsKept, Passing, Live, HasStore
  <1> HIDE DEF lt, lit, last
  <1>4. PICK p, raw, b : p = Take(pool, <<String(name)>>) /\ raw = Top(pool, 1) /\ IsTop(p, b)
    BY DEF IsTop
  <1>5. /\ Sound(Cells, p) /\ Touches(pool, p, {}) /\ Name(p, raw) /\ TextOf(p, raw) = name
        /\ Len(p.stack) = Len(pool.stack) - 1
    <2>1. name \in Text
      BY DEF Text
    <2>2. Room(pool, 1)
      BY <1>1 DEF Room, NeedsOf, One
    <2>3. QED
      BY <2>1, <2>2, <1>2, <1>4, NameTaken
  <1>6. p.db[lt] = pool.db[lt] /\ p.db[lit] = pool.db[lit] /\ p.db[F] = pool.db[F] /\ p.db[s] = pool.db[s]
    BY <1>3, <1>5 DEF Touches
  <1>7. /\ Passing(p, lt, "TABLE") /\ Passing(p, lit, "TABLE")
        /\ FunctionsKept(p, F) /\ HasStore(p, F, s)
    <2>1. Passing(p, lt, "TABLE") /\ Passing(p, lit, "TABLE")
      BY <1>2, <1>6 DEF Passing
    <2>2. FunctionsKept(p, F) /\ HasStore(p, F, s)
      BY <1>2, <1>3, <1>6 DEF FunctionsKept, HasStore
    <2>3. QED
      BY <2>1, <2>2
  <1>8. /\ NeedsOf(p, lt, name) = NeedsOf(pool, lt, name) /\ NeedsOf(p, F, name) = NeedsOf(pool, F, name)
        /\ NeedsOf(p, lit, name) = NeedsOf(pool, lit, name)
    <2>1. /\ p.db[lt].content = pool.db[lt].content /\ p.db[F].content = pool.db[F].content
          /\ p.db[lit].content = pool.db[lit].content
      BY <1>6
    <2>2. /\ Has(p, lt, name) = Has(pool, lt, name) /\ Has(p, F, name) = Has(pool, F, name)
          /\ Has(p, lit, name) = Has(pool, lit, name)
      BY <2>1, <1>2, <1>3, <1>5, HasStays
    <2>3. QED
      BY <2>2 DEF NeedsOf
  <1>9. PICK v, object, place :
             /\ Sound(Cells, v) /\ Touches(p, v, {lt, F, s, lit}) /\ Unlinked(p, b, v)
             /\ SymbolAt(p, v, b, name) /\ ObjectFor(name, object) /\ object \in FunctionObjects
             /\ Added(p, v, s, object) /\ place \in Nat /\ Past(p.db[s].content, place)
             /\ FieldPut(p, v, F, name, place)
    <2>1. Room(p, 2 + NeedsOf(p, lt, name) + NeedsOf(p, F, name) + NeedsOf(p, lit, name))
      <3>1. /\ NeedsOf(pool, lt, name) \in Nat /\ NeedsOf(pool, F, name) \in Nat
            /\ NeedsOf(pool, lit, name) \in Nat
        BY DEF NeedsOf, One
      <3>2. QED
        BY <3>1, <1>1, <1>5, <1>8 DEF Room
    <2>2. /\ lt = ctx.label_table /\ lit = ctx.labelindex_table /\ name = TextOf(p, raw)
          /\ AddScriptLabel(p, raw, name)
      BY <1>1, <1>4, <1>5 DEF lt, lit
    <2>3. QED
      BY <2>1, <2>2, <1>2, <1>4, <1>5, <1>7, LabelCalls
  <1>10. SymbolAt(pool, v, b, name)
    BY <1>5, <1>9 DEF SymbolAt, Touches, Live
  <1>11. PICK U : U = IF ctx.active_labels = Null THEN {} ELSE {last}
    OBVIOUS
  <1>12. /\ Sound(Cells, pool') /\ Touches(v, pool', U) /\ pool'.db[b] = v.db[b]
         /\ ctx.active_labels # Null => pool'.db[last].next = b /\ pool'.db[last].token = pool.db[last].token
    <2>1. CASE ctx.active_labels = Null
      <3>1. pool' = v /\ U = {}
        BY <2>1, <1>9, <1>11 DEF Unlinked
      <3>2. Touches(v, v, {})
        BY DEF Touches
      <3>3. QED
        BY <3>1, <3>2, <2>1, <1>9
    <2>2. CASE ctx.active_labels # Null
      <3>1. last \in Blocks /\ Live(pool, last) /\ pool.db[last].persistence_code = 0
        BY <2>2, <1>2 DEF Passing, Live
      <3>2. Live(p, last) /\ p.db[last].persistence_code = 0
        BY <3>1, <1>5 DEF Touches, Live
      <3>3. Live(v, last) /\ v.db[last].persistence_code = 0
        BY <3>1, <3>2, <1>9 DEF Touches, Live
      <3>4. b \in Blocks /\ Live(v, b) /\ v.db[b].next = Null /\ last # b
        BY <3>1, <1>10 DEF SymbolAt, Passing, Live
      <3>5. PICK S : S = {b}
        OBVIOUS
      <3>6. S \in SUBSET Blocks /\ b \in S /\ last \notin S /\ \A x \in S : v.db[x].next \in S \cup {Null}
        BY <3>4, <3>5
      <3>7. pool' = Link(v, last, b)
        BY <2>2, <1>9 DEF Unlinked, last
      <3>8. Sound(Cells, pool') /\ Touches(v, pool', {last}) /\ pool'.db[last].next = b
        <4>1. PICK q : q = pool'
          OBVIOUS
        <4>2. Sound(Cells, q) /\ Touches(v, q, {last}) /\ q.db[last].next = b
          BY <4>1, <3>1, <3>3, <3>4, <3>6, <3>7, <1>9, LinkKeeps
        <4>3. QED
          BY <4>1, <4>2
      <3>9. pool'.db[b] = v.db[b]
        BY <3>4, <3>8 DEF Touches
      <3>10. pool'.db[last].token = pool.db[last].token
        <4>1. v.db[last] = pool.db[last]
          <5>1. pool.db[last].type = "STRING"
            BY <2>2, <1>2 DEF Passing
          <5>2. last \notin {lt, F, s, lit} /\ p.db[last] = pool.db[last]
            BY <5>1, <3>1, <1>2, <1>3, <1>5 DEF Passing, Touches
          <5>3. QED
            BY <5>2, <3>1, <3>2, <1>9 DEF Touches
        <4>2. v \in PoolsOf(Cells)
          BY <1>9 DEF Sound
        <4>3. QED
          BY <4>1, <4>2, <3>1, <3>7 DEF Link, PoolsOf
      <3>11. QED
        BY <3>8, <3>9, <3>10, <2>2, <1>11
    <2>3. QED
      BY <2>1, <2>2
  <1>13. F \notin U /\ s \notin U
    BY <1>2, <1>3, <1>11 DEF Passing
  <1>14. Touches(pool, pool', LabelTouched(F, s))
    <2>1. Touches(pool, v, {} \cup {lt, F, s, lit})
      BY <1>5, <1>9, TouchesBoth
    <2>2. Touches(pool, pool', ({} \cup {lt, F, s, lit}) \cup U)
      BY <2>1, <1>12, TouchesBoth
    <2>3. ({} \cup {lt, F, s, lit}) \cup U = LabelTouched(F, s)
      BY <1>11 DEF LabelTouched, lt, lit, last
    <2>4. QED
      BY <2>2, <2>3
  <1>15. Live(v, F) /\ Live(v, s)
    <2>1. Live(p, F) /\ Live(p, s)
      BY <1>3, <1>6 DEF Live
    <2>2. QED
      BY <2>1, <1>3, <1>9 DEF Touches, Live
  <1>16. pool'.db[F] = v.db[F] /\ pool'.db[s] = v.db[s]
    BY <1>3, <1>12, <1>13, <1>15 DEF Touches
  <1>17. Added(pool, pool', s, object) /\ Past(pool.db[s].content, place)
    BY <1>6, <1>9, <1>16 DEF Added
  <1>18. FieldPut(pool, pool', F, name, place)
    <2>1. p.db[F].content = pool.db[F].content /\ pool'.db[F].content = v.db[F].content
      BY <1>6, <1>16
    <2>2. QED
      BY <2>1, <1>2, <1>3, <1>5, <1>9, <1>12, FieldPutStays
  <1>19. FunctionsKept(pool', F) /\ HasStore(pool', F, s)
    BY <1>2, <1>9, <1>14, <1>17, <1>18, FunctionsGrow
  <1>20. SymbolAt(pool, pool', b, name)
    BY <1>10, <1>12 DEF SymbolAt, Passing
  <1>21. LabelWaits(b)
    <2>1. ctx' = [ctx EXCEPT !.active_labels = IF @ = Null THEN b ELSE @, !.active_labels_last = b]
      BY <1>1, <1>4 DEF AddScriptLabel, IsTop
    <2>2. b \in Blocks
      BY <1>20 DEF SymbolAt
    <2>3. /\ ctx' \in Drafts /\ SameDraft(ctx, ctx') /\ ctx'.active_labels_last = b
          /\ ctx'.active_labels = IF ctx.active_labels = Null THEN b ELSE ctx.active_labels
      BY <2>1, <2>2, <1>2 DEF Drafts, SameDraft
    <2>4. QED
      BY <2>3, <1>12 DEF LabelWaits, last
  <1>22. \E x, y : /\ ObjectFor(name, x) /\ Added(pool, pool', s, x)
                   /\ Past(pool.db[s].content, y) /\ FieldPut(pool, pool', F, name, y)
    BY <1>9, <1>17, <1>18
  <1>23. QED
    BY <1>1, <1>12, <1>14, <1>19, <1>20, <1>21, <1>22

-----------------------------------------------------------------------------
\* The blocks of a new program: the ones nothing here reads, and ten.
Empty(b6, b9) == {Container, Table(Null), Table(b6), Table(b9)}

\* The blocks that a new draft takes are well-shaped.
LEMMA EmptyBlocks ==
    ASSUME NEW b6 \in Blocks, NEW b9 \in Blocks, NEW d \in Empty(b6, b9)
    PROVE  /\ d \in BlocksOf(Cells) /\ d.type # "NONE" /\ d.content = <<>> /\ d.persistence_code = 0
           /\ d.next = Null /\ Refers(d) \subseteq {b6, b9}
  <1>1. PICK none \in Blocks \cup {Null} : none = Null
    OBVIOUS
  <1>2. ASSUME NEW b \in Blocks \cup {Null}, d = Table(b), b \in {Null, b6, b9}
        PROVE  /\ d \in BlocksOf(Cells) /\ d.type # "NONE" /\ d.content = <<>> /\ d.persistence_code = 0
               /\ d.next = Null /\ Refers(d) \subseteq {b6, b9}
    <2>1. /\ Table(b) \in BlocksOf(Cells) /\ Table(b).type = "TABLE" /\ Table(b).persistence_code = 0
          /\ Table(b).content = <<>> /\ Refers(Table(b)) = {b} \ {Null}
      BY ContainerMade
    <2>2. Table(b).next = Null
      BY DEF Table, Disposed
    <2>3. QED
      BY <1>2, <2>1, <2>2
  <1>3. CASE d = Container
    BY <1>1, <1>3, ContainerMade
  <1>4. CASE d # Container
    <2>1. d = Table(Null) \/ d = Table(b6) \/ d = Table(b9)
      BY <1>4 DEF Empty
    <2>2. CASE d = Table(Null)
      BY <2>2, <1>1, <1>2
    <2>3. CASE d = Table(b6)
      BY <2>3, <1>2
    <2>4. CASE d = Table(b9)
      BY <2>4, <1>2
    <2>5. QED
      BY <2>1, <2>2, <2>3, <2>4
  <1>5. QED
    BY <1>3, <1>4

ProgramSeq(b6, b9) ==
    <<Container, Table(Null), Table(Null), Table(Null),
      Table(b6), Container, Container, Table(b9), Container, Container>>

Allocated(N, b6, b9, new) == new = [i \in 1 .. N |-> Container] \o ProgramSeq(b6, b9)
Elements(N, b6, b9, new) ==
    /\ new \in Seq(Empty(b6, b9)) /\ Len(new) = N + 10
    /\ new[N + 1] = Container /\ new[N + 2] = Table(Null) /\ new[N + 3] = Table(Null)
    /\ new[N + 4] = Table(Null) /\ new[N + 5] = Table(b6) /\ new[N + 6] = Container
    /\ new[N + 7] = Container /\ new[N + 8] = Table(b9) /\ new[N + 9] = Container
    /\ new[N + 10] = Container

\* The ten blocks of a draft, in the order they are taken.
LEMMA ProgramElements ==
    ASSUME NEW b6, NEW b9, NEW N \in Nat, NEW new, Allocated(N, b6, b9, new)
    PROVE  Elements(N, b6, b9, new)
  <1> DEFINE S == Empty(b6, b9)
  <1>1. PICK c, n, f, h : c = Container /\ n = Table(Null) /\ f = Table(b6) /\ h = Table(b9)
    OBVIOUS
  <1>2. c \in S /\ n \in S /\ f \in S /\ h \in S
    BY <1>1 DEF Empty
  <1>3. PICK scratch, ten : scratch = [i \in 1 .. N |-> c] /\ ten = <<c, n, n, n, f, c, c, h, c, c>>
    OBVIOUS
  <1> HIDE DEF S
  <1>4. scratch \in Seq(S) /\ Len(scratch) = N
    BY <1>2, <1>3
  <1>5. /\ ten \in Seq(S) /\ Len(ten) = 10
        /\ ten[1] = c /\ ten[2] = n /\ ten[3] = n /\ ten[4] = n /\ ten[5] = f /\ ten[6] = c
        /\ ten[7] = c /\ ten[8] = h /\ ten[9] = c /\ ten[10] = c
    BY <1>2, <1>3
  <1>6. new = scratch \o ten
    BY <1>1, <1>3 DEF ProgramSeq, Allocated
  <1>7. /\ scratch \o ten \in Seq(S)
        /\ Len(scratch \o ten) = Len(scratch) + Len(ten)
        /\ \A i \in 1 .. Len(scratch) + Len(ten) :
             (scratch \o ten)[i] = IF i <= Len(scratch) THEN scratch[i] ELSE ten[i - Len(scratch)]
    BY <1>4, <1>5, ConcatProperties
  <1>8. new \in Seq(S) /\ Len(new) = N + 10
    BY <1>4, <1>5, <1>6, <1>7
  <1>9. ASSUME NEW i \in 1 .. 10
        PROVE  new[N + i] = ten[i]
    <2>1. PICK k : k = N + i
      OBVIOUS
    <2>2. k \in 1 .. N + 10 /\ ~(k <= N) /\ k - N = i
      BY <2>1
    <2>3. \A x \in 1 .. N + 10 : new[x] = IF x <= N THEN scratch[x] ELSE ten[x - N]
      BY <1>4, <1>5, <1>6, <1>7
    <2>4. new[k] = ten[k - N]
      BY <2>2, <2>3
    <2>5. QED
      BY <2>1, <2>2, <2>4
  <1>10. /\ new[N + 1] = ten[1] /\ new[N + 2] = ten[2] /\ new[N + 3] = ten[3] /\ new[N + 4] = ten[4]
         /\ new[N + 5] = ten[5] /\ new[N + 6] = ten[6] /\ new[N + 7] = ten[7] /\ new[N + 8] = ten[8]
         /\ new[N + 9] = ten[9] /\ new[N + 10] = ten[10]
    <2>1. /\ 1 \in 1 .. 10 /\ 2 \in 1 .. 10 /\ 3 \in 1 .. 10 /\ 4 \in 1 .. 10 /\ 5 \in 1 .. 10
          /\ 6 \in 1 .. 10 /\ 7 \in 1 .. 10 /\ 8 \in 1 .. 10 /\ 9 \in 1 .. 10
          /\ 10 \in 1 .. 10
      OBVIOUS
    <2>2. \A i \in 1 .. 10 : new[N + i] = ten[i]
      BY <1>9
    <2>3. QED
      BY <2>1, <2>2, Zenon
  <1>11. QED
    BY <1>1, <1>5, <1>8, <1>10 DEF S, Elements

\* The ten blocks, and what they are once taken.
NewBlocks(p, b) == b = [i \in 1 .. 10 |-> Top(p, ScratchBlocks + i)]
NewDraft(p, q, b) ==
    /\ b \in [1 .. 10 -> Blocks] /\ \A i, j \in 1 .. 10 : b[i] = b[j] => i = j
    /\ \A i \in 1 .. 10 : ~Live(p, b[i])
    /\ q.db[b[1]] = Container /\ q.db[b[2]] = Table(Null) /\ q.db[b[3]] = Table(Null)
    /\ q.db[b[4]] = Table(Null) /\ q.db[b[5]] = Table(b[6]) /\ q.db[b[6]] = Container
    /\ q.db[b[7]] = Container /\ q.db[b[8]] = Table(b[9]) /\ q.db[b[9]] = Container
    /\ q.db[b[10]] = Container

\* Taking them: a pool with the program on top.
LEMMA ProgramTaken ==
    ASSUME NEW p, Sound(Cells, p), Room(p, ScratchBlocks + 10), NEW b, NewBlocks(p, b),
           NEW new, Allocated(ScratchBlocks, b[6], b[9], new), NEW q, q = Take(p, new)
    PROVE  Sound(Cells, q) /\ Touches(p, q, {}) /\ NewDraft(p, q, b)
  <1>1. ScratchBlocks \in Nat
    BY CountsAssumption
  <1>2. p \in PoolsOf(Cells) /\ FreeStack(p)
    BY DEF Sound
  <1>3. PICK N \in Nat : N = ScratchBlocks
    BY <1>1
  <1>4. N + 10 \in Nat /\ Room(p, N + 10)
    BY <1>3
  <1>5. /\ \A i \in 1 .. N + 10 : Top(p, i) \in Blocks /\ ~Live(p, Top(p, i))
        /\ \A i, j \in 1 .. N + 10 : Top(p, i) = Top(p, j) => i = j
    BY <1>2, <1>4, TopIsFree
  <1>6. \A i \in 1 .. 10 : b[i] = Top(p, N + i)
    BY <1>3 DEF NewBlocks
  <1>7. DOMAIN b = 1 .. 10 /\ b = [i \in 1 .. 10 |-> b[i]]
    BY DEF NewBlocks
  <1>8. \A i \in 1 .. 10 : N + i \in 1 .. N + 10
    OBVIOUS
  <1>9. /\ b \in [1 .. 10 -> Blocks] /\ \A i \in 1 .. 10 : ~Live(p, b[i])
        /\ \A i, j \in 1 .. 10 : b[i] = b[j] => i = j
    <2>1. \A i \in 1 .. 10 : b[i] \in Blocks /\ ~Live(p, b[i])
      BY <1>5, <1>6, <1>8
    <2>2. ASSUME NEW i \in 1 .. 10, NEW j \in 1 .. 10, b[i] = b[j]
          PROVE  i = j
      <3>1. PICK k, m : k = N + i /\ m = N + j
        OBVIOUS
      <3>2. k \in 1 .. N + 10 /\ m \in 1 .. N + 10 /\ Top(p, k) = Top(p, m)
        BY <3>1, <2>2, <1>6, <1>8
      <3>3. k = m
        BY <3>2, <1>5
      <3>4. QED
        BY <3>1, <3>3
    <2>3. QED
      BY <2>1, <2>2, <1>7
  <1>10. PICK b6 \in Blocks, b9 \in Blocks : b6 = b[6] /\ b9 = b[9]
    BY <1>9
  <1>11. /\ new \in Seq(Empty(b6, b9)) /\ Len(new) = N + 10
         /\ new[N + 1] = Container /\ new[N + 2] = Table(Null) /\ new[N + 3] = Table(Null)
         /\ new[N + 4] = Table(Null) /\ new[N + 5] = Table(b6) /\ new[N + 6] = Container
         /\ new[N + 7] = Container /\ new[N + 8] = Table(b9) /\ new[N + 9] = Container
         /\ new[N + 10] = Container
    <2>1. Allocated(N, b6, b9, new)
      BY <1>3, <1>10
    <2>2. Elements(N, b6, b9, new)
      BY <2>1, ProgramElements
    <2>3. QED
      BY <2>2 DEF Elements
  <1>12. \A i \in 1 .. N + 10 : new[i] \in Empty(b6, b9)
    BY <1>11, ElementOfSeq
  <1>13. \A i \in 1 .. N + 10 :
           /\ new[i] \in BlocksOf(Cells) /\ new[i].type # "NONE" /\ new[i].content = <<>>
           /\ new[i].persistence_code = 0 /\ new[i].next = Null /\ Refers(new[i]) \subseteq {b6, b9}
    <2>1. \A d \in Empty(b6, b9) :
             /\ d \in BlocksOf(Cells) /\ d.type # "NONE" /\ d.content = <<>> /\ d.persistence_code = 0
             /\ d.next = Null /\ Refers(d) \subseteq {b6, b9}
      BY EmptyBlocks
    <2>2. QED
      BY <2>1, <1>12
  <1>14. Takeable(Cells, p, new)
    <2>1. new \in Seq(BlocksOf(Cells))
      <3>1. Empty(b6, b9) \subseteq BlocksOf(Cells)
        BY EmptyBlocks
      <3>2. QED
        BY <3>1, <1>11
    <2>2. b6 = Top(p, N + 6) /\ b9 = Top(p, N + 9) /\ N + 6 \in 1 .. N + 10 /\ N + 9 \in 1 .. N + 10
      BY <1>6, <1>10
    <2>3. \A c \in {b6, b9} : \E j \in 1 .. N + 10 : c = Top(p, j)
      BY <2>2
    <2>4. Len(new) = N + 10 /\ Room(p, Len(new))
      BY <1>4, <1>11
    <2>5. ASSUME NEW i \in 1 .. Len(new)
          PROVE  /\ new[i].type # "NONE"
                 /\ new[i].type = "TABLE" => new[i].content = <<>>
                 /\ new[i].persistence_code = 0 \/ Refers(new[i]) = {}
                 /\ \A c \in Refers(new[i]) : Live(p, c) \/ \E j \in 1 .. Len(new) : c = Top(p, j)
                 /\ new[i].next = Null \/ Live(p, new[i].next) \/ \E j \in i + 1 .. Len(new) : new[i].next = Top(p, j)
      <3>1. i \in 1 .. N + 10
        BY <2>4
      <3>2. QED
        BY <3>1, <2>3, <2>4, <1>13
    <2>6. QED
      BY <2>1, <2>4, <2>5 DEF Takeable
  <1>15. /\ Sound(Cells, q) /\ Touches(p, q, {})
         /\ \A i \in 1 .. N + 10 : q.db[Top(p, i)] = new[i]
    <2>1. /\ Sound(Cells, Take(p, new)) /\ Touches(p, Take(p, new), {})
          /\ \A i \in 1 .. Len(new) : Take(p, new).db[Top(p, i)] = new[i]
      BY <1>14, TakeKeeps
    <2>2. QED
      BY <2>1, <1>11
  <1>16. \A i \in 1 .. 10 : q.db[b[i]] = new[N + i]
    BY <1>6, <1>8, <1>15
  <1>17. /\ q.db[b[1]] = new[N + 1] /\ q.db[b[2]] = new[N + 2] /\ q.db[b[3]] = new[N + 3]
         /\ q.db[b[4]] = new[N + 4] /\ q.db[b[5]] = new[N + 5] /\ q.db[b[6]] = new[N + 6]
         /\ q.db[b[7]] = new[N + 7] /\ q.db[b[8]] = new[N + 8] /\ q.db[b[9]] = new[N + 9]
         /\ q.db[b[10]] = new[N + 10]
    <2>1. /\ 1 \in 1 .. 10 /\ 2 \in 1 .. 10 /\ 3 \in 1 .. 10 /\ 4 \in 1 .. 10 /\ 5 \in 1 .. 10
          /\ 6 \in 1 .. 10 /\ 7 \in 1 .. 10 /\ 8 \in 1 .. 10 /\ 9 \in 1 .. 10 /\ 10 \in 1 .. 10
      OBVIOUS
    <2>2. QED
      BY <2>1, <1>16, Zenon
  <1>18. NewDraft(p, q, b)
    BY <1>9, <1>10, <1>11, <1>17 DEF NewDraft
  <1>19. QED
    BY <1>15, <1>18

\* Codes that are set spread to blocks of C, and nothing else changes.
Coded(p, q, C) == \A x \in Blocks : Stays(p, q, x) /\ (x \notin C => q.db[x] = p.db[x])
Closed(p, C) == C \in SUBSET Blocks /\ \A x \in C : Linked(p, x) \cup Keys(p, x) \subseteq C

\* Giving a code to one of the blocks of a draft.
LEMMA CodeGiven ==
    ASSUME NEW p, Sound(Cells, p), NEW b \in Blocks, Live(p, b), NEW C, b \in C, Closed(p, C),
           NEW code \in Nat, code > 0, NEW q, q = SetPersistenceCode(p, b, code)
    PROVE  Sound(Cells, q) /\ Coded(p, q, C) /\ q.db[b].persistence_code > 0
  <1>1. Sound(Cells, q)
    BY SetCodeSound
  <1>2. p \in PoolsOf(Cells) /\ q \in PoolsOf(Cells)
    BY <1>1 DEF Sound
  <1>3. /\ \A x \in Blocks : Stays(p, SetPersistenceCode(p, b, code), x)
        /\ SetPersistenceCode(p, b, code).db[b].persistence_code >= code
        /\ \A x \in Blocks : SetPersistenceCode(p, b, code).db[x].persistence_code
                               = IF x \in Raised(p, b, code) THEN code ELSE p.db[x].persistence_code
    BY SetCodeResult
  <1>4. Raised(p, b, code) \subseteq C
    <2>1. \A D \in SUBSET Blocks :
             /\ b \in D
             /\ \A x \in D : Linked(p, x) \cup Keys(p, x) \subseteq D
             => Raised(p, b, code) \subseteq D
      BY <1>2, RaisedResult
    <2>2. QED
      BY <2>1 DEF Closed
  <1>5. \A x \in Blocks : x \notin C => q.db[x] = p.db[x]
    <2>1. ASSUME NEW x \in Blocks, x \notin C
          PROVE  q.db[x] = p.db[x]
      <3>1. q.db[x].persistence_code = p.db[x].persistence_code /\ Stays(p, q, x)
        BY <2>1, <1>3, <1>4
      <3>2. QED
        BY <3>1, <1>2, SameBlock
    <2>2. QED
      BY <2>1
  <1>6. q.db[b].persistence_code > 0
    <2>1. q.db[b].persistence_code \in Nat
      BY <1>2, BlockTypes
    <2>2. QED
      BY <2>1, <1>3
  <1>7. QED
    BY <1>1, <1>3, <1>5, <1>6 DEF Coded

\* Codes change no links: a closed set stays closed.
LEMMA CodedKeeps ==
    ASSUME NEW p, NEW q, NEW C, Coded(p, q, C), NEW D, Closed(p, D)
    PROVE  Closed(q, D)
  <1>1. \A x \in Blocks : Linked(q, x) = Linked(p, x) /\ Keys(q, x) = Keys(p, x)
    <2>1. ASSUME NEW x \in Blocks
          PROVE  Linked(q, x) = Linked(p, x) /\ Keys(q, x) = Keys(p, x)
      <3>1. /\ q.db[x].next = p.db[x].next /\ q.db[x].child = p.db[x].child
            /\ q.db[x].token = p.db[x].token /\ q.db[x].store = p.db[x].store
            /\ q.db[x].type = p.db[x].type /\ q.db[x].content = p.db[x].content
        BY DEF Coded, Stays
      <3>2. Linked(q, x) = Linked(p, x)
        BY <3>1 DEF Linked
      <3>3. Keys(q, x) = Keys(p, x)
        BY <3>1, SameKeys
      <3>4. QED
        BY <3>2, <3>3
    <2>2. QED
      BY <2>1
  <1>2. QED
    BY <1>1 DEF Closed

\* Codes given one after the other.
LEMMA CodedBoth ==
    ASSUME NEW p \in PoolsOf(Cells), NEW q \in PoolsOf(Cells), NEW r \in PoolsOf(Cells),
           NEW C, NEW D, Coded(p, q, C), Coded(q, r, D)
    PROVE  Coded(p, r, C \cup D)
  <1>1. \A x \in Blocks : /\ p.db[x].persistence_code \in Nat /\ q.db[x].persistence_code \in Nat
                          /\ r.db[x].persistence_code \in Nat
    BY BlockTypes
  <1>2. QED
    BY <1>1 DEF Coded, Stays

\* A code that was given stays, and passes on to the store of a table.
LEMMA CodeStays ==
    ASSUME NEW p, Sound(Cells, p), NEW q, Sound(Cells, q), NEW C, Coded(p, q, C), NEW b \in Blocks,
           p.db[b].persistence_code > 0
    PROVE  q.db[b].persistence_code > 0
  <1>1. p.db[b].persistence_code \in Nat /\ q.db[b].persistence_code \in Nat
    <2>1. p \in PoolsOf(Cells) /\ q \in PoolsOf(Cells)
      BY DEF Sound
    <2>2. QED
      BY <2>1, BlockTypes
  <1>2. q.db[b].persistence_code >= p.db[b].persistence_code
    BY DEF Coded, Stays
  <1>3. QED
    BY <1>1, <1>2

\* The store of a table gets the code of its table.
LEMMA StoreCoded ==
    ASSUME NEW p, Sound(Cells, p), NEW b \in Blocks, p.db[b].persistence_code > 0,
           NEW s \in Blocks, s = p.db[b].store
    PROVE  p.db[s].persistence_code > 0
  <1>1. p.db[b].persistence_code \in Nat /\ p.db[s].persistence_code \in Nat
    <2>1. p \in PoolsOf(Cells)
      BY DEF Sound
    <2>2. QED
      BY <2>1, BlockTypes
  <1>2. s # Null
    BY CapacityAssumption DEF Blocks, Null
  <1>3. s \in Linked(p, b)
    BY <1>2 DEF Linked
  <1>4. p.db[s].persistence_code >= p.db[b].persistence_code
    BY <1>3 DEF Sound, LinksSurvive
  <1>5. QED
    BY <1>1, <1>4

\* A new table without entries leads to its store, and an empty container nowhere.
LEMMA EmptyClosed ==
    ASSUME NEW q, NEW b \in Blocks, NEW s \in Blocks
    PROVE  /\ q.db[b] = Container => Closed(q, {b})
           /\ q.db[b] = Table(s) /\ q.db[s] = Container => Closed(q, {b, s})
  <1>1. ASSUME NEW x \in Blocks, q.db[x] = Container
        PROVE  Linked(q, x) = {} /\ Keys(q, x) = {}
    BY <1>1 DEF Linked, Keys, Container, Disposed
  <1>2. ASSUME q.db[b] = Table(s)
        PROVE  Linked(q, b) \subseteq {s} /\ Keys(q, b) = {}
    <2>1. Linked(q, b) \subseteq {s}
      BY <1>2 DEF Linked, Table, Disposed
    <2>2. q.db[b].type = "TABLE" /\ q.db[b].content = <<>>
      BY <1>2 DEF Table, Disposed
    <2>3. DOMAIN q.db[b].content = {}
      BY <2>2
    <2>4. Keys(q, b) = {}
      BY <2>3 DEF Keys
    <2>5. QED
      BY <2>1, <2>4
  <1>3. QED
    BY <1>1, <1>2 DEF Closed

\* The four calls that give the code: to the functions, and to the layouts.
CodeSet(p, b, q) == q = SetPersistenceCode(p, b, 10)
Draftings(b) == {b[5], b[6], b[7], b[8], b[9], b[10]}

\* The blocks a draft keeps are those that get a code.
LEMMA DraftCoded ==
    ASSUME NEW p, NEW q, Sound(Cells, q), NEW b, NewDraft(p, q, b),
           NEW u, CodeSet(q, b[5], u), NEW v, CodeSet(u, b[7], v),
           NEW w, CodeSet(v, b[8], w), NEW z, CodeSet(w, b[10], z)
    PROVE  /\ Sound(Cells, z) /\ Coded(q, z, Draftings(b))
           /\ \A x \in Draftings(b) : z.db[x].persistence_code > 0
  <1>1. PICK b5 \in Blocks, b6 \in Blocks, b7 \in Blocks, b8 \in Blocks, b9 \in Blocks, b10 \in Blocks :
             b5 = b[5] /\ b6 = b[6] /\ b7 = b[7] /\ b8 = b[8] /\ b9 = b[9] /\ b10 = b[10]
    BY DEF NewDraft
  <1>2. /\ q.db[b5] = Table(b6) /\ q.db[b6] = Container /\ q.db[b7] = Container
        /\ q.db[b8] = Table(b9) /\ q.db[b9] = Container /\ q.db[b10] = Container
    BY <1>1 DEF NewDraft
  <1>3. Live(q, b5) /\ Live(q, b7) /\ Live(q, b8) /\ Live(q, b10)
    BY <1>2 DEF Live, Table, Container, Disposed
  <1>4. Closed(q, {b5, b6}) /\ Closed(q, {b7}) /\ Closed(q, {b8, b9}) /\ Closed(q, {b10})
    BY <1>2, EmptyClosed
  <1>5. CodeSet(q, b5, u) /\ CodeSet(u, b7, v) /\ CodeSet(v, b8, w) /\ CodeSet(w, b10, z)
    BY <1>1
  <1>6. ASSUME NEW r, Sound(Cells, r), NEW x \in Blocks, Live(r, x), NEW C, x \in C, Closed(r, C),
               NEW t, CodeSet(r, x, t)
        PROVE  Sound(Cells, t) /\ Coded(r, t, C) /\ t.db[x].persistence_code > 0
    <2>1. PICK code \in Nat : code = 10
      OBVIOUS
    <2>2. code > 0 /\ t = SetPersistenceCode(r, x, code)
      BY <2>1, <1>6 DEF CodeSet
    <2>3. QED
      BY <2>2, <1>6, CodeGiven
  <1>7. ASSUME NEW r, NEW t, NEW C, Coded(r, t, C), NEW x \in Blocks, Live(r, x)
        PROVE  Live(t, x)
    BY <1>7 DEF Coded, Stays, Live
  <1>8. Sound(Cells, u) /\ Coded(q, u, {b5, b6}) /\ u.db[b5].persistence_code > 0
    BY <1>3, <1>4, <1>5, <1>6
  <1>9. /\ Live(u, b7) /\ Live(u, b8) /\ Live(u, b10)
        /\ Closed(u, {b7}) /\ Closed(u, {b8, b9}) /\ Closed(u, {b10})
    BY <1>3, <1>4, <1>7, <1>8, CodedKeeps
  <1>10. Sound(Cells, v) /\ Coded(u, v, {b7}) /\ v.db[b7].persistence_code > 0
    BY <1>5, <1>6, <1>8, <1>9
  <1>11. Live(v, b8) /\ Live(v, b10) /\ Closed(v, {b8, b9}) /\ Closed(v, {b10})
    BY <1>9, <1>7, <1>10, CodedKeeps
  <1>12. Sound(Cells, w) /\ Coded(v, w, {b8, b9}) /\ w.db[b8].persistence_code > 0
    BY <1>5, <1>6, <1>10, <1>11
  <1>13. Live(w, b10) /\ Closed(w, {b10})
    BY <1>11, <1>7, <1>12, CodedKeeps
  <1>14. Sound(Cells, z) /\ Coded(w, z, {b10}) /\ z.db[b10].persistence_code > 0
    BY <1>5, <1>6, <1>12, <1>13
  <1>15. q \in PoolsOf(Cells) /\ u \in PoolsOf(Cells) /\ v \in PoolsOf(Cells) /\ w \in PoolsOf(Cells) /\ z \in PoolsOf(Cells)
    BY <1>8, <1>10, <1>12, <1>14 DEF Sound
  <1>16. Coded(v, z, {b8, b9} \cup {b10})
    BY <1>12, <1>14, <1>15, CodedBoth
  <1>17. Coded(u, z, {b7} \cup ({b8, b9} \cup {b10}))
    BY <1>10, <1>16, <1>15, CodedBoth
  <1>18. Coded(q, z, {b5, b6} \cup ({b7} \cup ({b8, b9} \cup {b10})))
    BY <1>8, <1>17, <1>15, CodedBoth
  <1>19. z.db[b5].persistence_code > 0 /\ z.db[b7].persistence_code > 0 /\ z.db[b8].persistence_code > 0
    BY <1>8, <1>10, <1>12, <1>14, <1>16, <1>17, CodeStays
  <1>20. z.db[b5].store = b6 /\ z.db[b8].store = b9
    <2>1. z.db[b5].store = q.db[b5].store /\ z.db[b8].store = q.db[b8].store
      BY <1>18 DEF Coded, Stays
    <2>2. QED
      BY <2>1, <1>2 DEF Table
  <1>21. z.db[b6].persistence_code > 0 /\ z.db[b9].persistence_code > 0
    BY <1>14, <1>19, <1>20, StoreCoded
  <1>22. Draftings(b) = {b5, b6} \cup ({b7} \cup ({b8, b9} \cup {b10}))
    BY <1>1 DEF Draftings
  <1>23. QED
    BY <1>14, <1>18, <1>19, <1>21, <1>22

\* The context after emit-new.
Initial(b, c) ==
    c = [drafting |-> TRUE, script_commands |-> b[1], label_table |-> b[2], labelindex_table |-> b[3],
         memblock_table |-> b[4], functions |-> b[5], memory_layout_ll |-> b[7],
         memory_layout_hl |-> b[8], active_labels |-> Null, active_labels_last |-> Null]
Fresh(p, S) == \A x \in S : ~Live(p, x)
Begun(p, c) ==
    /\ p.db[c.functions].content = <<>> /\ p.db[p.db[c.functions].store].content = <<>>
    /\ p.db[c.memory_layout_hl].content = <<>>
    /\ p.db[c.script_commands].content = <<>> /\ c.active_labels = Null

\* The draft that emit-new begins holds its blocks.
LEMMA DraftBegun ==
    ASSUME NEW p, NEW q, NEW b, NewDraft(p, q, b), NEW z, Coded(q, z, Draftings(b)),
           \A x \in Draftings(b) : z.db[x].persistence_code > 0, NEW c, Initial(b, c)
    PROVE  DraftKept(z, c) /\ Fresh(p, Holds(z, c)) /\ c.drafting /\ Begun(z, c)
  <1>1. PICK b1 \in Blocks, b2 \in Blocks, b3 \in Blocks, b4 \in Blocks, b5 \in Blocks,
             b6 \in Blocks, b7 \in Blocks, b8 \in Blocks, b9 \in Blocks, b10 \in Blocks :
             /\ b1 = b[1] /\ b2 = b[2] /\ b3 = b[3] /\ b4 = b[4] /\ b5 = b[5]
             /\ b6 = b[6] /\ b7 = b[7] /\ b8 = b[8] /\ b9 = b[9] /\ b10 = b[10]
    BY DEF NewDraft
  <1>2. /\ b1 \notin Draftings(b) /\ b2 \notin Draftings(b) /\ b3 \notin Draftings(b) /\ b4 \notin Draftings(b)
        /\ b2 # b3 /\ b5 # b8 /\ b6 # b7 /\ b6 # b9 /\ b7 # b9
    BY <1>1 DEF NewDraft, Draftings
  <1>3. /\ q.db[b1] = Container /\ q.db[b2] = Table(Null) /\ q.db[b3] = Table(Null) /\ q.db[b4] = Table(Null)
        /\ q.db[b5] = Table(b6) /\ q.db[b6] = Container /\ q.db[b7] = Container
        /\ q.db[b8] = Table(b9) /\ q.db[b9] = Container
    BY <1>1 DEF NewDraft
  <1>4. /\ z.db[b1] = Container /\ z.db[b2] = Table(Null) /\ z.db[b3] = Table(Null) /\ z.db[b4] = Table(Null)
    BY <1>2, <1>3 DEF Coded
  <1>5. /\ z.db[b5].type = "TABLE" /\ z.db[b5].content = <<>> /\ z.db[b5].store = b6
        /\ z.db[b6].type = "UNSPECIFIED" /\ z.db[b6].content = <<>>
        /\ z.db[b7].type = "UNSPECIFIED" /\ z.db[b7].content = <<>>
        /\ z.db[b8].type = "TABLE" /\ z.db[b8].content = <<>> /\ z.db[b8].store = b9
        /\ z.db[b9].type = "UNSPECIFIED" /\ z.db[b9].content = <<>>
    <2>1. \A x \in Blocks : z.db[x].type = q.db[x].type /\ z.db[x].content = q.db[x].content
                            /\ z.db[x].store = q.db[x].store
      BY DEF Coded, Stays
    <2>2. ASSUME NEW x \in Blocks, q.db[x] = Container
          PROVE  z.db[x].type = "UNSPECIFIED" /\ z.db[x].content = <<>>
      BY <2>1, <2>2 DEF Container, Disposed
    <2>3. ASSUME NEW x \in Blocks, NEW s \in Blocks, q.db[x] = Table(s)
          PROVE  z.db[x].type = "TABLE" /\ z.db[x].content = <<>> /\ z.db[x].store = s
      BY <2>1, <2>3 DEF Table, Disposed
    <2>4. QED
      BY <2>2, <2>3, <1>3
  <1>6. /\ z.db[b5].persistence_code > 0 /\ z.db[b6].persistence_code > 0 /\ z.db[b7].persistence_code > 0
        /\ z.db[b8].persistence_code > 0 /\ z.db[b9].persistence_code > 0
    BY <1>1 DEF Draftings
  <1>7. /\ c.drafting = TRUE /\ c.script_commands = b1 /\ c.label_table = b2 /\ c.labelindex_table = b3
        /\ c.memblock_table = b4 /\ c.functions = b5 /\ c.memory_layout_ll = b7 /\ c.memory_layout_hl = b8
        /\ c.active_labels = Null
    BY <1>1 DEF Initial
  <1>8. c \in Drafts
    <2>1. c = [drafting |-> TRUE, script_commands |-> b1, label_table |-> b2, labelindex_table |-> b3,
               memblock_table |-> b4, functions |-> b5, memory_layout_ll |-> b7,
               memory_layout_hl |-> b8, active_labels |-> Null, active_labels_last |-> Null]
      BY <1>1 DEF Initial
    <2>2. QED
      BY <2>1 DEF Drafts
  <1>9. FunctionsKept(z, b5)
    <2>1. z.db[b6].content \in Seq(FunctionObjects) /\ Len(z.db[b5].content) = 0
      BY <1>5
    <2>2. QED
      BY <2>1, <1>5, <1>6 DEF FunctionsKept
  <1>10. LayoutsKept(z, b7, b8)
    <2>1. /\ z.db[b7].content \in Seq(LowLayouts) /\ Len(z.db[b7].content) = 0
          /\ z.db[b9].content \in Seq(HighLayouts) /\ Len(z.db[b9].content) = 0 /\ Len(z.db[b8].content) = 0
      BY <1>5
    <2>2. QED
      BY <2>1, <1>2, <1>5, <1>6 DEF LayoutsKept
  <1>11. Kept(z, c)
    BY <1>2, <1>5, <1>7, <1>9, <1>10 DEF Kept
  <1>12. /\ Passing(z, b1, "UNSPECIFIED") /\ z.db[b1].content \in Seq(Commands)
         /\ Passing(z, b2, "TABLE") /\ Passing(z, b3, "TABLE") /\ Passing(z, b4, "TABLE")
    BY <1>4 DEF Passing, Container, Table, Disposed
  <1>13. DraftKept(z, c)
    BY <1>2, <1>7, <1>8, <1>11, <1>12 DEF DraftKept
  <1>14. Holds(z, c) = {b5, b6, b7, b8, b9}
    BY <1>5, <1>7 DEF Holds
  <1>15. ~Live(p, b5) /\ ~Live(p, b6) /\ ~Live(p, b7) /\ ~Live(p, b8) /\ ~Live(p, b9)
    BY <1>1 DEF NewDraft
  <1>16. Begun(z, c)
    <2>1. z.db[b1].content = <<>>
      BY <1>4 DEF Container, Disposed
    <2>2. QED
      BY <2>1, <1>5, <1>7 DEF Begun
  <1>17. QED
    BY <1>7, <1>13, <1>14, <1>15, <1>16 DEF Fresh

\* emit-new leaves an empty draft in blocks that were free.
LEMMA NewLeaves ==
    ASSUME ServiceSound, New
    PROVE  /\ UNCHANGED <<cmd, cmd_lasttoken, programs>>
           /\ \/ UNCHANGED <<pool, ctx>> /\ status' = "failed"
              \/ /\ Sound(Cells, pool') /\ Touches(pool, pool', {}) /\ status' = status
                 /\ ctx'.drafting /\ DraftKept(pool', ctx') /\ Fresh(pool, Holds(pool', ctx'))
                 /\ Begun(pool', ctx')
  <1>1. CASE ~Room(pool, ScratchBlocks + ProgramBlocks)
    BY <1>1 DEF New
  <1>2. CASE Room(pool, ScratchBlocks + ProgramBlocks)
    <2>1. InitProgram /\ UNCHANGED <<cmd, cmd_lasttoken, programs, status>>
      BY <1>2 DEF New
    <2>2. Room(pool, ScratchBlocks + 10)
      BY <1>2 DEF ProgramBlocks
    <2>3. PICK b : NewBlocks(pool, b)
      BY DEF NewBlocks
    <2>4. /\ Top(pool, ScratchBlocks + 1) = b[1] /\ Top(pool, ScratchBlocks + 2) = b[2]
          /\ Top(pool, ScratchBlocks + 3) = b[3] /\ Top(pool, ScratchBlocks + 4) = b[4]
          /\ Top(pool, ScratchBlocks + 5) = b[5] /\ Top(pool, ScratchBlocks + 6) = b[6]
          /\ Top(pool, ScratchBlocks + 7) = b[7] /\ Top(pool, ScratchBlocks + 8) = b[8]
          /\ Top(pool, ScratchBlocks + 9) = b[9] /\ Top(pool, ScratchBlocks + 10) = b[10]
      BY <2>3 DEF NewBlocks
    <2>5. PICK new : Allocated(ScratchBlocks, b[6], b[9], new)
      BY DEF Allocated
    <2>6. PICK q : q = Take(pool, new)
      OBVIOUS
    <2>7. PICK u : CodeSet(q, b[5], u)
      BY DEF CodeSet
    <2>8. PICK v : CodeSet(u, b[7], v)
      BY DEF CodeSet
    <2>9. PICK w : CodeSet(v, b[8], w)
      BY DEF CodeSet
    <2>10. PICK z : CodeSet(w, b[10], z)
      BY DEF CodeSet
    <2>11. pool' = z
      <3>1. new = [i \in 1 .. ScratchBlocks |-> Container] \o
                    <<Container, Table(Null), Table(Null), Table(Null),
                      Table(b[6]), Container, Container, Table(b[9]), Container, Container>>
        BY <2>5 DEF Allocated, ProgramSeq
      <3>2. z = SetPersistenceCode(SetPersistenceCode(SetPersistenceCode(SetPersistenceCode(q,
                  b[5], 10), b[7], 10), b[8], 10), b[10], 10)
        BY <2>7, <2>8, <2>9, <2>10 DEF CodeSet
      <3>3. QED
        BY <2>1, <2>4, <2>6, <3>1, <3>2, Zenon DEF InitProgram
    <2>12. Initial(b, ctx')
      BY <2>1, <2>4, Zenon DEF InitProgram, Initial
    <2>13. Sound(Cells, q) /\ Touches(pool, q, {}) /\ NewDraft(pool, q, b)
      <3>1. Sound(Cells, pool)
        BY DEF ServiceSound
      <3>2. QED
        BY <3>1, <2>2, <2>3, <2>5, <2>6, ProgramTaken
    <2>14. /\ Sound(Cells, z) /\ Coded(q, z, Draftings(b))
           /\ \A x \in Draftings(b) : z.db[x].persistence_code > 0
      BY <2>13, <2>7, <2>8, <2>9, <2>10, DraftCoded
    <2>15. Touches(pool, z, {})
      <3>1. \A x \in Draftings(b) : ~Live(pool, x)
        BY <2>13 DEF Draftings, NewDraft
      <3>2. QED
        BY <3>1, <2>13, <2>14 DEF Touches, Coded
    <2>16. DraftKept(z, ctx') /\ Fresh(pool, Holds(z, ctx')) /\ ctx'.drafting /\ Begun(z, ctx')
      BY <2>12, <2>13, <2>14, DraftBegun
    <2>17. QED
      BY <2>1, <2>11, <2>14, <2>15, <2>16
  <1>3. QED
    BY <1>1, <1>2

-----------------------------------------------------------------------------
\* emit-build: the cull gives back what has no code, and the program that is
\* added has the functions and the layouts of the draft.
CodedSame(p, q) == \A b \in Blocks : Live(p, b) /\ p.db[b].persistence_code > 0 => q.db[b] = p.db[b]
OfDraft(q, c) ==
    /\ q.functions = c.functions
    /\ q.memory_layout_ll = c.memory_layout_ll /\ q.memory_layout_hl = c.memory_layout_hl

\* emit-build leaves a program with the blocks of the draft, and no draft.
LEMMA BuildLeaves ==
    ASSUME ServiceSound, Build, ~Fail
    PROVE  /\ DraftKept(pool, ctx) /\ ctx.drafting /\ Sound(Cells, pool') /\ CodedSame(pool, pool')
           /\ \E q : /\ OfDraft(q, ctx) /\ programs' = Append(programs, q) /\ q.code = Code
                     /\ q.function_map = FunctionMap(pool') /\ q.handles = handles
           /\ ctx.active_labels = Null
           /\ ctx' = [drafting |-> FALSE] /\ handles' = <<>> /\ cmd = Null
           /\ UNCHANGED <<cmd, cmd_lasttoken, status>>
  <1>1. /\ Drafting /\ cmd = Null /\ ctx.active_labels = Null
        /\ Room(pool, CompileBlocks)
        /\ pool' = Compiled
        /\ programs' = Append(programs,
               [code |-> Code, functions |-> ctx.functions, memory_layout_ll |-> ctx.memory_layout_ll,
                memory_layout_hl |-> ctx.memory_layout_hl, function_map |-> FunctionMap(Compiled),
                handles |-> handles])
        /\ ctx' = [drafting |-> FALSE] /\ handles' = <<>>
        /\ UNCHANGED <<cmd, cmd_lasttoken, status>>
    BY DEF Build
  <1>2. ctx.drafting /\ DraftKept(pool, ctx) /\ Sound(Cells, pool)
    BY <1>1 DEF ServiceSound, Drafting
  <1>3. PICK p, q, w, d : p = pool /\ q = pool' /\ d = [External("true") EXCEPT !.persistence_code = 100]
                          /\ w = Take(p, <<d>>)
    OBVIOUS
  <1>4. d \in BlocksOf(Cells) /\ d.type = "EXTERNAL" /\ Refers(d) = {}
    <2>1. PICK t \in Text, none \in Blocks \cup {Null}, code \in Nat : t = "true" /\ none = Null /\ code = 100
      BY DEF Text
    <2>2. d = ExternalBlock(t, none, code)
      BY <1>3, <2>1 DEF External, Disposed, ExternalBlock
    <2>3. d \in BlocksOf(Cells) /\ d.type = "EXTERNAL" /\ Refers(d) = {Null, none} \ {Null}
      BY <2>2, ExternalMade
    <2>4. QED
      BY <2>1, <2>3
  <1>5. Sound(Cells, w) /\ Touches(p, w, {})
    <2>1. Room(p, 1) /\ Sound(Cells, p)
      BY <1>1, <1>2, <1>3 DEF CompileBlocks
    <2>2. QED
      BY <2>1, <1>3, <1>4, TakeOne
  <1>6. q = Cull(w, 0)
    BY <1>1, <1>3 DEF Compiled
  <1>7. Sound(Cells, q) /\ \A b \in Blocks : w.db[b].persistence_code > 0 => q.db[b] = w.db[b]
    BY <1>5, <1>6, CullSound
  <1>8. CodedSame(p, q)
    BY <1>5, <1>7 DEF CodedSame, Touches
  <1>9. PICK built : /\ programs' = Append(programs, built)
                     /\ built = [code |-> Code, functions |-> ctx.functions,
                                 memory_layout_ll |-> ctx.memory_layout_ll,
                                 memory_layout_hl |-> ctx.memory_layout_hl,
                                 function_map |-> FunctionMap(pool'), handles |-> handles]
    BY <1>1
  <1>10. /\ OfDraft(built, ctx) /\ built.code = Code
         /\ built.function_map = FunctionMap(pool') /\ built.handles = handles
    BY <1>9 DEF OfDraft
  <1>11. \E b : /\ OfDraft(b, ctx) /\ programs' = Append(programs, b) /\ b.code = Code
                /\ b.function_map = FunctionMap(pool') /\ b.handles = handles
    BY <1>9, <1>10
  <1>12. QED
    BY <1>1, <1>2, <1>3, <1>7, <1>8, <1>11

-----------------------------------------------------------------------------
\* The parts of the invariant through a step that touches the blocks of W.
LEMMA FunctionsStay ==
    ASSUME NEW p, NEW q, NEW W, Touches(p, q, W), NEW t, FunctionsKept(p, t), {t, p.db[t].store} \cap W = {}
    PROVE  FunctionsKept(q, t)
  <1>1. /\ t \in Blocks /\ Live(p, t) /\ p.db[t].store \in Blocks /\ Live(p, p.db[t].store)
    BY DEF FunctionsKept, Live
  <1>2. q.db[t] = p.db[t] /\ q.db[p.db[t].store] = p.db[p.db[t].store]
    BY <1>1 DEF Touches
  <1>3. QED
    BY <1>2 DEF FunctionsKept

\* Layouts stay what they are when their blocks do.
LEMMA LayoutsStay ==
    ASSUME NEW p, NEW q, NEW W, Touches(p, q, W), NEW l, NEW t, LayoutsKept(p, l, t),
           {l, t, p.db[t].store} \cap W = {}
    PROVE  LayoutsKept(q, l, t)
  <1>1. /\ t \in Blocks /\ Live(p, t) /\ p.db[t].store \in Blocks /\ Live(p, p.db[t].store)
        /\ l \in Blocks /\ Live(p, l)
    BY DEF LayoutsKept, Live
  <1>2. q.db[t] = p.db[t] /\ q.db[p.db[t].store] = p.db[p.db[t].store] /\ q.db[l] = p.db[l]
    BY <1>1 DEF Touches
  <1>3. QED
    BY <1>2 DEF LayoutsKept

\* The blocks of a draft stay the same ones.
LEMMA KeptBoth ==
    ASSUME NEW p, NEW q, NEW W, Touches(p, q, W), NEW c, Kept(p, c), NEW d, SameDraft(c, d),
           FunctionsKept(q, d.functions), LayoutsKept(q, d.memory_layout_ll, d.memory_layout_hl)
    PROVE  Kept(q, d) /\ Holds(q, d) = Holds(p, c)
  <1>1. /\ c.functions \in Blocks /\ Live(p, c.functions)
        /\ c.memory_layout_hl \in Blocks /\ Live(p, c.memory_layout_hl)
    BY DEF Kept, FunctionsKept, LayoutsKept, Live
  <1>2. /\ q.db[c.functions].store = p.db[c.functions].store
        /\ q.db[c.memory_layout_hl].store = p.db[c.memory_layout_hl].store
    BY <1>1 DEF Touches
  <1>3. /\ d.functions = c.functions /\ d.memory_layout_ll = c.memory_layout_ll
        /\ d.memory_layout_hl = c.memory_layout_hl
    BY DEF SameDraft
  <1>4. QED
    BY <1>2, <1>3 DEF Kept, Holds

\* So do blocks that will not be kept,
LEMMA PassingStays ==
    ASSUME NEW p, NEW q, NEW W, Touches(p, q, W), NEW b, NEW type, type # "NONE", Passing(p, b, type)
    PROVE  Passing(q, b, type) /\ (b \notin W => q.db[b] = p.db[b])
  BY DEF Passing, Touches, Live

\* What remains to be shown of a draft when its layouts, its functions, its
\* commands or its labels have changed.
LabelsEnd(p, c) ==
    c.active_labels # Null
      => Passing(p, c.active_labels_last, "STRING") /\ p.db[c.active_labels_last].next = Null

\* the draft,
LEMMA DraftStays ==
    ASSUME NEW p, NEW q, NEW W, Touches(p, q, W), NEW c, DraftKept(p, c), NEW d, SameDraft(c, d), d \in Drafts,
           FunctionsKept(q, d.functions), LayoutsKept(q, d.memory_layout_ll, d.memory_layout_hl),
           q.db[c.script_commands].content \in Seq(Commands), LabelsEnd(q, d)
    PROVE  DraftKept(q, d) /\ Holds(q, d) = Holds(p, c)
  <1>1. Kept(q, d) /\ Holds(q, d) = Holds(p, c)
    <2>1. Kept(p, c)
      BY DEF DraftKept
    <2>2. QED
      BY <2>1, KeptBoth
  <1>2. /\ d.script_commands = c.script_commands /\ d.label_table = c.label_table
        /\ d.labelindex_table = c.labelindex_table /\ d.memblock_table = c.memblock_table
    BY DEF SameDraft
  <1>3. /\ Passing(q, c.script_commands, "UNSPECIFIED") /\ Passing(q, c.label_table, "TABLE")
        /\ Passing(q, c.labelindex_table, "TABLE") /\ Passing(q, c.memblock_table, "TABLE")
    BY PassingStays DEF DraftKept
  <1>4. c.label_table # c.labelindex_table
    BY DEF DraftKept
  <1>5. QED
    BY <1>1, <1>2, <1>3, <1>4 DEF DraftKept, LabelsEnd

\* ... and nothing remains if none of them was touched.
LEMMA DraftSame ==
    ASSUME NEW p, NEW q, NEW W, Touches(p, q, W), NEW c, DraftKept(p, c), Holds(p, c) \cap W = {},
           c.script_commands \notin W, c.active_labels # Null => c.active_labels_last \notin W
    PROVE  DraftKept(q, c) /\ Holds(q, c) = Holds(p, c)
  <1>1. c \in Drafts /\ SameDraft(c, c)
    BY DEF DraftKept, SameDraft
  <1>2. Kept(p, c) /\ FunctionsKept(p, c.functions) /\ LayoutsKept(p, c.memory_layout_ll, c.memory_layout_hl)
    BY DEF DraftKept, Kept
  <1>3. FunctionsKept(q, c.functions)
    <2>1. {c.functions, p.db[c.functions].store} \cap W = {}
      BY DEF Holds
    <2>2. QED
      BY <2>1, <1>2, FunctionsStay
  <1>4. LayoutsKept(q, c.memory_layout_ll, c.memory_layout_hl)
    <2>1. {c.memory_layout_ll, c.memory_layout_hl, p.db[c.memory_layout_hl].store} \cap W = {}
      BY DEF Holds
    <2>2. QED
      BY <2>1, <1>2, LayoutsStay
  <1>5. q.db[c.script_commands].content \in Seq(Commands)
    BY PassingStays DEF DraftKept
  <1>6. LabelsEnd(q, c)
    BY PassingStays DEF DraftKept, LabelsEnd
  <1>7. QED
    BY <1>1, <1>3, <1>4, <1>5, <1>6, DraftStays

\* The open command stays open as long as its last token is not linked on.
LEMMA CommandStays ==
    ASSUME NEW p, NEW q, NEW W, Touches(p, q, W), NEW b, NEW last, CommandOpen(p, b, last), last \notin W
    PROVE  CommandOpen(q, b, last)
  <1>1. Passing(q, b, "STRING") /\ Passing(q, last, "EXTERNAL") /\ q.db[last] = p.db[last]
    BY PassingStays DEF CommandOpen
  <1>2. q.db[b].token = p.db[b].token
    BY DEF CommandOpen, Passing, Touches, Live
  <1>3. QED
    BY <1>1, <1>2 DEF CommandOpen

\* Programs are not touched by what changes a draft or blocks without a code.
ProgramsKept(p, c) ==
    \A n \in 1 .. Len(programs) :
      Kept(p, programs[n]) /\ (c.drafting => Holds(p, c) \cap Holds(p, programs[n]) = {})
OfDraftOrPassing(W) ==
    \A x \in W : (ctx.drafting /\ x \in Holds(pool, ctx)) \/ pool.db[x].persistence_code = 0

\* and a program that was built.
LEMMA ProgramStays ==
    ASSUME ServiceSound, NEW n \in 1 .. Len(programs), NEW W, OfDraftOrPassing(W), Touches(pool, pool', W)
    PROVE  Kept(pool', programs[n]) /\ Holds(pool', programs[n]) = Holds(pool, programs[n])
  <1>1. Kept(pool, programs[n]) /\ (ctx.drafting => Holds(pool, ctx) \cap Holds(pool, programs[n]) = {})
    BY DEF ServiceSound
  <1>2. ASSUME NEW x \in Holds(pool, programs[n])
        PROVE  x \notin W
    <2>1. pool.db[x].persistence_code > 0
      BY <1>1, HoldsLive
    <2>2. pool.db[x].persistence_code # 0
      BY <2>1
    <2>3. QED
      BY <2>2, <1>1 DEF OfDraftOrPassing
  <1>3. Holds(pool, programs[n]) \cap W = {}
    BY <1>2
  <1>4. QED
    BY <1>1, <1>3, KeptStays

\* The invariant after a step, part by part.
LEMMA SoundAfter ==
    ASSUME ServiceSound, UNCHANGED <<programs>>, status' \in {"running", "failed"},
           Sound(Cells, pool'), NEW W, OfDraftOrPassing(W), Touches(pool, pool', W),
           DraftKept(pool', ctx'), ctx'.drafting,
           \/ ctx.drafting /\ Holds(pool', ctx') = Holds(pool, ctx)
           \/ Fresh(pool, Holds(pool', ctx')),
           {cmd', cmd_lasttoken'} \subseteq Blocks \cup {Null},
           cmd' # Null => CommandOpen(pool', cmd', cmd_lasttoken')
    PROVE  ServiceSound'
  <1>1. ASSUME NEW n \in 1 .. Len(programs)
        PROVE  Kept(pool', programs[n]) /\ Holds(pool', ctx') \cap Holds(pool', programs[n]) = {}
    <2>1. Kept(pool', programs[n]) /\ Holds(pool', programs[n]) = Holds(pool, programs[n])
      BY ProgramStays
    <2>2. Kept(pool, programs[n]) /\ (ctx.drafting => Holds(pool, ctx) \cap Holds(pool, programs[n]) = {})
      BY DEF ServiceSound
    <2>3. \A x \in Holds(pool, programs[n]) : Live(pool, x)
      BY <2>2, HoldsLive
    <2>4. QED
      BY <2>1, <2>2, <2>3 DEF Fresh
  <1>2. ctx' \in Drafts
    BY DEF DraftKept
  <1>3. \E S : programs \in Seq(S)
    BY DEF ServiceSound
  <1>4. QED
    BY <1>1, <1>2, <1>3 DEF ServiceSound

\* An error of the service ends it and leaves everything as it is.
LEMMA FailSound ==
    ASSUME ServiceSound, UNCHANGED <<pool, ctx, cmd, cmd_lasttoken, programs>>, status' \in {"running", "failed"}
    PROVE  ServiceSound'
  BY DEF ServiceSound

\* The open command through a step that leaves it alone.
LEMMA OpenStays ==
    ASSUME ServiceSound, UNCHANGED <<cmd, cmd_lasttoken>>, NEW W, Touches(pool, pool', W),
           cmd # Null => cmd_lasttoken \notin W
    PROVE  /\ {cmd', cmd_lasttoken'} \subseteq Blocks \cup {Null}
           /\ cmd' # Null => CommandOpen(pool', cmd', cmd_lasttoken')
  <1>1. {cmd, cmd_lasttoken} \subseteq Blocks \cup {Null} /\ (cmd # Null => CommandOpen(pool, cmd, cmd_lasttoken))
    BY DEF ServiceSound
  <1>2. cmd # Null => CommandOpen(pool', cmd, cmd_lasttoken)
    BY <1>1, CommandStays
  <1>3. QED
    BY <1>1, <1>2

\* emit-new keeps the service sound.
LEMMA NewSound ==
    ASSUME ServiceSound, New
    PROVE  ServiceSound'
  <1>1. UNCHANGED <<cmd, cmd_lasttoken, programs>>
    BY NewLeaves
  <1>2. CASE UNCHANGED <<pool, ctx>> /\ status' = "failed"
    BY <1>1, <1>2, FailSound
  <1>3. CASE /\ Sound(Cells, pool') /\ Touches(pool, pool', {}) /\ status' = status
             /\ ctx'.drafting /\ DraftKept(pool', ctx') /\ Fresh(pool, Holds(pool', ctx'))
    <2>1. PICK W : W = {}
      OBVIOUS
    <2>2. OfDraftOrPassing(W) /\ Touches(pool, pool', W)
      BY <1>3, <2>1 DEF OfDraftOrPassing
    <2>3. /\ {cmd', cmd_lasttoken'} \subseteq Blocks \cup {Null}
          /\ cmd' # Null => CommandOpen(pool', cmd', cmd_lasttoken')
      BY <1>1, <2>1, <2>2, OpenStays
    <2>4. status' \in {"running", "failed"}
      BY <1>3 DEF ServiceSound
    <2>5. QED
      BY <1>1, <1>3, <2>2, <2>3, <2>4, SoundAfter
  <1>4. QED
    BY <1>2, <1>3, NewLeaves

\* The context while a draft is open.
LEMMA DraftOpen ==
    ASSUME ServiceSound, Drafting
    PROVE  DraftKept(pool, ctx) /\ ctx.drafting /\ ctx \in Drafts
  BY DEF ServiceSound, Drafting, DraftKept

\* emit-cmd keeps the service sound.
LEMMA CmdSound ==
    ASSUME ServiceSound, NEW token \in Instructions \cup Operands, Cmd(token), ~Fail
    PROVE  ServiceSound'
  <1>1. /\ Sound(Cells, pool') /\ Touches(pool, pool', {})
        /\ CommandOpen(pool', cmd', cmd_lasttoken') /\ UNCHANGED <<ctx, programs, status>>
    BY CmdLeaves
  <1>2. DraftKept(pool, ctx) /\ ctx.drafting
    BY DraftOpen DEF Cmd
  <1>3. PICK W : W = {}
    OBVIOUS
  <1>4. OfDraftOrPassing(W) /\ Touches(pool, pool', W)
    BY <1>1, <1>3 DEF OfDraftOrPassing
  <1>5. DraftKept(pool', ctx) /\ Holds(pool', ctx) = Holds(pool, ctx)
    BY <1>2, <1>3, <1>4, DraftSame
  <1>6. {cmd', cmd_lasttoken'} \subseteq Blocks \cup {Null}
    BY <1>1 DEF CommandOpen, Passing
  <1>7. status' \in {"running", "failed"}
    BY <1>1 DEF ServiceSound
  <1>8. QED
    BY <1>1, <1>2, <1>4, <1>5, <1>6, <1>7, SoundAfter

\* The functions that add a token to a command keep the service sound.
LEMMA AppendSound ==
    ASSUME ServiceSound, NEW n \in 1 .. MaxTokens, NEW tokens \in [1 .. n -> Operands],
           AppendTokens(tokens), ~Fail
    PROVE  ServiceSound'
  <1>1. /\ Sound(Cells, pool') /\ Touches(pool, pool', {cmd_lasttoken}) /\ cmd # Null
        /\ cmd_lasttoken' = Top(pool, n)
        /\ \A i \in 1 .. n : /\ Top(pool, i) \in Blocks /\ Passing(pool', Top(pool, i), "EXTERNAL")
                             /\ pool'.db[Top(pool, i)].next = IF i = n THEN Null ELSE Top(pool, i + 1)
        /\ UNCHANGED <<ctx, cmd, programs, status>>
    BY AppendLeaves
  <1>2. DraftKept(pool, ctx) /\ ctx.drafting /\ CommandOpen(pool, cmd, cmd_lasttoken)
    BY <1>1, DraftOpen DEF AppendTokens, ServiceSound
  <1>3. Passing(pool, cmd, "STRING") /\ pool.db[cmd].token \in Blocks /\ Passing(pool, cmd_lasttoken, "EXTERNAL")
    BY <1>2 DEF CommandOpen
  <1>4. PICK W : W = {cmd_lasttoken}
    OBVIOUS
  <1>5. OfDraftOrPassing(W) /\ Touches(pool, pool', W)
    BY <1>1, <1>3, <1>4 DEF OfDraftOrPassing, Passing
  <1>6. /\ Holds(pool, ctx) \cap W = {} /\ ctx.script_commands \notin W
        /\ ctx.active_labels # Null => ctx.active_labels_last \notin W
    <2>1. \A x \in Holds(pool, ctx) : pool.db[x].persistence_code > 0
      BY <1>2, HoldsLive DEF DraftKept
    <2>2. pool.db[cmd_lasttoken].persistence_code = 0 /\ pool.db[cmd_lasttoken].type = "EXTERNAL"
      BY <1>3 DEF Passing
    <2>3. /\ pool.db[ctx.script_commands].type = "UNSPECIFIED"
          /\ ctx.active_labels # Null => pool.db[ctx.active_labels_last].type = "STRING"
      BY <1>2 DEF DraftKept, Passing
    <2>4. cmd_lasttoken \notin Holds(pool, ctx)
      <3>1. ~(pool.db[cmd_lasttoken].persistence_code > 0)
        BY <2>2
      <3>2. QED
        BY <2>1, <3>1
    <2>5. QED
      BY <1>4, <2>2, <2>3, <2>4
  <1>7. DraftKept(pool', ctx) /\ Holds(pool', ctx) = Holds(pool, ctx)
    BY <1>2, <1>5, <1>6, DraftSame
  <1>8. n \in 1 .. n
    BY CountsAssumption
  <1>9. cmd_lasttoken' \in Blocks /\ Passing(pool', cmd_lasttoken', "EXTERNAL") /\ pool'.db[cmd_lasttoken'].next = Null
    BY <1>1, <1>8
  <1>10. Passing(pool', cmd, "STRING") /\ pool'.db[cmd].token = pool.db[cmd].token
    <2>1. cmd \in Blocks /\ Live(pool, cmd)
      BY <1>3 DEF Passing, Live
    <2>2. QED
      BY <2>1, <1>1, <1>3, PassingStays DEF Touches
  <1>11. CommandOpen(pool', cmd, cmd_lasttoken')
    BY <1>3, <1>9, <1>10 DEF CommandOpen
  <1>12. {cmd', cmd_lasttoken'} \subseteq Blocks \cup {Null} /\ cmd' = cmd
    BY <1>1, <1>3, <1>9 DEF Passing
  <1>13. status' \in {"running", "failed"}
    BY <1>1 DEF ServiceSound
  <1>14. QED
    BY <1>1, <1>2, <1>5, <1>7, <1>11, <1>12, <1>13, SoundAfter

\* emit-end, with its cull, keeps the service sound.
LEMMA EndSound ==
    ASSUME ServiceSound, EndCmd, ~Fail
    PROVE  ServiceSound'
  <1>1. PICK object \in Commands :
          pool'.db[ctx.script_commands].content = Append(pool.db[ctx.script_commands].content, object)
    BY EndLeaves
  <1>2. /\ DraftKept(pool, ctx) /\ Sound(Cells, pool') /\ Touches(pool, pool', {ctx.script_commands})
        /\ SameDraft(ctx, ctx') /\ ctx'.active_labels = Null /\ cmd' = Null /\ cmd_lasttoken' = Null
        /\ UNCHANGED <<programs, status>>
    BY EndLeaves
  <1>3. ctx.drafting
    BY DEF EndCmd, Drafting
  <1>4. PICK W : W = {ctx.script_commands}
    OBVIOUS
  <1>5. OfDraftOrPassing(W) /\ Touches(pool, pool', W)
    BY <1>2, <1>4 DEF OfDraftOrPassing, DraftKept, Passing
  <1>6. Holds(pool, ctx) \cap W = {}
    <2>1. \A x \in Holds(pool, ctx) : pool.db[x].persistence_code > 0
      BY <1>2, HoldsLive DEF DraftKept
    <2>2. ~(pool.db[ctx.script_commands].persistence_code > 0)
      BY <1>2 DEF DraftKept, Passing
    <2>3. QED
      BY <1>4, <2>1, <2>2
  <1>7. FunctionsKept(pool', ctx'.functions)
    <2>1. FunctionsKept(pool, ctx.functions) /\ ctx'.functions = ctx.functions
      BY <1>2 DEF DraftKept, Kept, SameDraft
    <2>2. QED
      BY <2>1, <1>5, <1>6, FunctionsStay DEF Holds
  <1>8. LayoutsKept(pool', ctx'.memory_layout_ll, ctx'.memory_layout_hl)
    <2>1. /\ LayoutsKept(pool, ctx.memory_layout_ll, ctx.memory_layout_hl)
          /\ ctx'.memory_layout_ll = ctx.memory_layout_ll /\ ctx'.memory_layout_hl = ctx.memory_layout_hl
      BY <1>2 DEF DraftKept, Kept, SameDraft
    <2>2. QED
      BY <2>1, <1>5, <1>6, LayoutsStay DEF Holds
  <1>9. pool'.db[ctx.script_commands].content \in Seq(Commands)
    <2>1. pool.db[ctx.script_commands].content \in Seq(Commands)
      BY <1>2 DEF DraftKept
    <2>2. QED
      BY <2>1, <1>1, AppendProperties
  <1>10. LabelsEnd(pool', ctx') /\ ctx' \in Drafts
    BY <1>2 DEF LabelsEnd, SameDraft
  <1>11. DraftKept(pool', ctx') /\ Holds(pool', ctx') = Holds(pool, ctx)
    BY <1>2, <1>5, <1>7, <1>8, <1>9, <1>10, DraftStays
  <1>12. ctx'.drafting
    BY <1>10 DEF Drafts
  <1>13. status' \in {"running", "failed"}
    BY <1>2 DEF ServiceSound
  <1>14. QED
    BY <1>2, <1>3, <1>5, <1>11, <1>12, <1>13, SoundAfter

\* The blocks of the layouts are two containers and a table, with a code.
LEMMA LayoutBlocks ==
    ASSUME NEW p, NEW l, NEW t, LayoutsKept(p, l, t), NEW s, s = p.db[t].store
    PROVE  /\ p.db[l].type = "UNSPECIFIED" /\ p.db[l].persistence_code # 0
           /\ p.db[t].type = "TABLE" /\ p.db[t].persistence_code # 0
           /\ p.db[s].type = "UNSPECIFIED" /\ p.db[s].persistence_code # 0
  <1>1. /\ p.db[l].type = "UNSPECIFIED" /\ p.db[l].persistence_code > 0
        /\ p.db[t].type = "TABLE" /\ p.db[t].persistence_code > 0
        /\ p.db[s].type = "UNSPECIFIED" /\ p.db[s].persistence_code > 0
    BY DEF LayoutsKept
  <1>2. \A x : x > 0 => x # 0
    OBVIOUS
  <1>3. QED
    BY <1>1, <1>2

\* The layouts are apart from the functions, the commands and the labels.
LEMMA LayoutsApart ==
    ASSUME NEW p, NEW c, DraftKept(p, c), NEW l, NEW t, NEW s, NEW m,
           l = c.memory_layout_ll, t = c.memory_layout_hl, s = p.db[t].store, m = c.memblock_table
    PROVE  /\ {c.functions, p.db[c.functions].store, c.script_commands} \cap {l, t, s, m} = {}
           /\ \A x \in {l, t, s, m} : p.db[x].type \notin {"STRING", "EXTERNAL"}
  <1>1. /\ Kept(p, c) /\ Passing(p, m, "TABLE") /\ Passing(p, c.script_commands, "UNSPECIFIED")
    BY DEF DraftKept
  <1>2. /\ p.db[l].type = "UNSPECIFIED" /\ p.db[l].persistence_code # 0
        /\ p.db[t].type = "TABLE" /\ p.db[t].persistence_code # 0
        /\ p.db[s].type = "UNSPECIFIED" /\ p.db[s].persistence_code # 0
    <2>1. LayoutsKept(p, l, t)
      BY <1>1 DEF Kept
    <2>2. QED
      BY <2>1, LayoutBlocks
  <1>3. FunctionsKept(p, c.functions) /\ c.functions # t /\ p.db[c.functions].store \notin {l, s}
    BY <1>1 DEF Kept
  <1>4. /\ p.db[c.functions].type = "TABLE" /\ p.db[c.functions].persistence_code # 0
        /\ p.db[p.db[c.functions].store].type = "UNSPECIFIED"
    BY <1>3 DEF FunctionsKept
  <1>5. /\ p.db[m].persistence_code = 0 /\ p.db[m].type = "TABLE"
        /\ p.db[c.script_commands].persistence_code = 0 /\ p.db[c.script_commands].type = "UNSPECIFIED"
    BY <1>1 DEF Passing
  <1>6. QED
    BY <1>2, <1>3, <1>4, <1>5

\* The memory declarations keep the service sound.
LEMMA MemSound ==
    ASSUME ServiceSound, NEW kind \in Kinds, NEW name \in Names, Mem(kind, name), ~Fail
    PROVE  ServiceSound'
  <1>1. PICK l, t, m, s : l = ctx.memory_layout_ll /\ t = ctx.memory_layout_hl /\ m = ctx.memblock_table
                          /\ s = pool.db[t].store
    OBVIOUS
  <1>2. /\ ctx.drafting /\ DraftKept(pool, ctx)
        /\ Sound(Cells, pool') /\ Touches(pool, pool', {l, t, s, m})
        /\ LayoutsKept(pool', l, t)
        /\ UNCHANGED <<ctx, cmd, cmd_lasttoken, programs, status>>
    BY <1>1, MemLeaves
  <1>3. PICK W : W = {l, t, s, m}
    OBVIOUS
  <1>4. /\ Kept(pool, ctx) /\ Passing(pool, m, "TABLE") /\ Passing(pool, ctx.script_commands, "UNSPECIFIED")
        /\ pool.db[ctx.script_commands].content \in Seq(Commands)
        /\ ctx.active_labels # Null
             => Passing(pool, ctx.active_labels_last, "STRING") /\ pool.db[ctx.active_labels_last].next = Null
    BY <1>1, <1>2 DEF DraftKept
  <1>5. OfDraftOrPassing(W) /\ Touches(pool, pool', W)
    BY <1>1, <1>2, <1>3, <1>4 DEF OfDraftOrPassing, Passing, Holds
  <1>6. /\ {ctx.functions, pool.db[ctx.functions].store, ctx.script_commands} \cap W = {}
        /\ \A x \in W : pool.db[x].type # "STRING"
    BY <1>1, <1>2, <1>3, LayoutsApart
  <1>7. FunctionsKept(pool', ctx.functions)
    <2>1. FunctionsKept(pool, ctx.functions)
      BY <1>4 DEF Kept
    <2>2. QED
      BY <1>5, <1>6, <2>1, FunctionsStay
  <1>8. pool'.db[ctx.script_commands].content \in Seq(Commands)
    BY <1>4, <1>5, <1>6, PassingStays
  <1>9. LabelsEnd(pool', ctx)
    <2>1. CASE ctx.active_labels # Null
      <3>1. pool.db[ctx.active_labels_last].type = "STRING"
        BY <2>1, <1>4 DEF Passing
      <3>2. ctx.active_labels_last \notin W
        BY <3>1, <1>6
      <3>3. QED
        BY <2>1, <3>2, <1>4, <1>5, PassingStays DEF LabelsEnd
    <2>2. QED
      BY <2>1 DEF LabelsEnd
  <1>10. SameDraft(ctx, ctx) /\ ctx \in Drafts
    BY <1>2 DEF DraftKept, SameDraft
  <1>11. DraftKept(pool', ctx) /\ Holds(pool', ctx) = Holds(pool, ctx)
    BY <1>1, <1>2, <1>5, <1>7, <1>8, <1>9, <1>10, DraftStays
  <1>12. /\ {cmd', cmd_lasttoken'} \subseteq Blocks \cup {Null}
         /\ cmd' # Null => CommandOpen(pool', cmd', cmd_lasttoken')
    <2>1. cmd # Null => cmd_lasttoken \notin W
      <3>1. cmd # Null => pool.db[cmd_lasttoken].type = "EXTERNAL"
        BY DEF ServiceSound, CommandOpen, Passing
      <3>2. \A x \in W : pool.db[x].type # "EXTERNAL"
        BY <1>1, <1>2, <1>3, LayoutsApart
      <3>3. QED
        BY <3>1, <3>2
    <2>2. QED
      BY <2>1, <1>2, <1>5, OpenStays
  <1>13. status' \in {"running", "failed"}
    BY <1>2 DEF ServiceSound
  <1>14. QED
    BY <1>2, <1>5, <1>11, <1>12, <1>13, SoundAfter

\* emit-label keeps the service sound.
LEMMA LabelSound ==
    ASSUME ServiceSound, NEW name \in Names, Label(name), ~Fail
    PROVE  ServiceSound'
  <1>1. PICK F, s : F = ctx.functions /\ HasStore(pool, F, s)
    BY DEF HasStore
  <1>2. /\ ctx.drafting /\ DraftKept(pool, ctx) /\ Sound(Cells, pool')
        /\ Touches(pool, pool', LabelTouched(F, s)) /\ FunctionsKept(pool', F)
        /\ UNCHANGED <<cmd, cmd_lasttoken, programs, status>>
    BY <1>1, LabelLeaves
  <1>3. PICK b : SymbolAt(pool, pool', b, name) /\ LabelWaits(b)
    BY <1>1, LabelLeaves
  <1>4. PICK W : W = LabelTouched(F, s)
    OBVIOUS
  <1>5. /\ Kept(pool, ctx) /\ Passing(pool, ctx.label_table, "TABLE") /\ Passing(pool, ctx.labelindex_table, "TABLE")
        /\ Passing(pool, ctx.script_commands, "UNSPECIFIED")
        /\ pool.db[ctx.script_commands].content \in Seq(Commands)
        /\ ctx.active_labels # Null => Passing(pool, ctx.active_labels_last, "STRING")
    BY <1>2 DEF DraftKept
  <1>6. /\ pool.db[F].type = "TABLE" /\ pool.db[F].persistence_code # 0 /\ s = pool.db[F].store
        /\ pool.db[s].type = "UNSPECIFIED" /\ pool.db[s].persistence_code # 0
        /\ pool.db[ctx.label_table].type = "TABLE" /\ pool.db[ctx.label_table].persistence_code = 0
        /\ pool.db[ctx.labelindex_table].type = "TABLE" /\ pool.db[ctx.labelindex_table].persistence_code = 0
        /\ ctx.active_labels # Null => /\ pool.db[ctx.active_labels_last].type = "STRING"
                                       /\ pool.db[ctx.active_labels_last].persistence_code = 0
    BY <1>1, <1>5 DEF Kept, FunctionsKept, HasStore, Passing
  <1>7. OfDraftOrPassing(W) /\ Touches(pool, pool', W)
    <2>1. F \in Holds(pool, ctx) /\ s \in Holds(pool, ctx)
      BY <1>1, <1>6 DEF Holds
    <2>2. QED
      BY <2>1, <1>2, <1>4, <1>6 DEF OfDraftOrPassing, LabelTouched
  <1>8. LayoutsKept(pool', ctx.memory_layout_ll, ctx.memory_layout_hl)
    <2>1. /\ LayoutsKept(pool, ctx.memory_layout_ll, ctx.memory_layout_hl)
          /\ F # ctx.memory_layout_hl /\ s # ctx.memory_layout_ll /\ s # pool.db[ctx.memory_layout_hl].store
      BY <1>1, <1>5, <1>6 DEF Kept
    <2>2. /\ pool.db[ctx.memory_layout_hl].type = "TABLE" /\ pool.db[ctx.memory_layout_hl].persistence_code # 0
          /\ pool.db[ctx.memory_layout_ll].type = "UNSPECIFIED" /\ pool.db[ctx.memory_layout_ll].persistence_code # 0
          /\ pool.db[pool.db[ctx.memory_layout_hl].store].type = "UNSPECIFIED"
          /\ pool.db[pool.db[ctx.memory_layout_hl].store].persistence_code # 0
      BY <2>1, LayoutBlocks
    <2>3. {ctx.memory_layout_ll, ctx.memory_layout_hl, pool.db[ctx.memory_layout_hl].store} \cap W = {}
      BY <1>4, <1>6, <2>1, <2>2 DEF LabelTouched
    <2>4. QED
      BY <1>7, <2>1, <2>3, LayoutsStay
  <1>9. pool'.db[ctx.script_commands].content \in Seq(Commands)
    <2>1. pool.db[ctx.script_commands].type = "UNSPECIFIED" /\ pool.db[ctx.script_commands].persistence_code = 0
      BY <1>5 DEF Passing
    <2>2. ctx.script_commands \notin W
      BY <1>4, <1>6, <2>1 DEF LabelTouched
    <2>3. QED
      BY <1>5, <1>7, <2>2, PassingStays
  <1>10. SameDraft(ctx, ctx') /\ ctx' \in Drafts /\ ctx'.functions = F /\ ctx'.active_labels_last = b
         /\ ctx'.memory_layout_ll = ctx.memory_layout_ll /\ ctx'.memory_layout_hl = ctx.memory_layout_hl
    BY <1>1, <1>3 DEF LabelWaits, SameDraft
  <1>11. LabelsEnd(pool', ctx')
    BY <1>3, <1>10 DEF LabelsEnd, SymbolAt, Passing
  <1>12. DraftKept(pool', ctx') /\ Holds(pool', ctx') = Holds(pool, ctx)
    BY <1>2, <1>7, <1>8, <1>9, <1>10, <1>11, DraftStays
  <1>13. /\ {cmd', cmd_lasttoken'} \subseteq Blocks \cup {Null}
         /\ cmd' # Null => CommandOpen(pool', cmd', cmd_lasttoken')
    <2>1. cmd # Null => cmd_lasttoken \notin W
      <3>1. cmd # Null => pool.db[cmd_lasttoken].type = "EXTERNAL"
        BY DEF ServiceSound, CommandOpen, Passing
      <3>2. QED
        BY <3>1, <1>4, <1>6 DEF LabelTouched
    <2>2. QED
      BY <2>1, <1>2, <1>7, OpenStays
  <1>14. status' \in {"running", "failed"}
    BY <1>2 DEF ServiceSound
  <1>15. ctx'.drafting
    BY <1>10 DEF Drafts
  <1>16. QED
    BY <1>2, <1>7, <1>12, <1>13, <1>14, <1>15, SoundAfter

\* emit-build keeps the service sound.
LEMMA BuildSound ==
    ASSUME ServiceSound, Build, ~Fail
    PROVE  ServiceSound'
  <1>1. /\ DraftKept(pool, ctx) /\ ctx.drafting /\ Sound(Cells, pool') /\ CodedSame(pool, pool')
        /\ ctx' = [drafting |-> FALSE] /\ cmd = Null /\ UNCHANGED <<cmd, cmd_lasttoken, status>>
    BY BuildLeaves
  <1>2. PICK q : OfDraft(q, ctx) /\ programs' = Append(programs, q)
    BY BuildLeaves
  <1>3. ASSUME NEW r, Kept(pool, r)
        PROVE  Kept(pool', r)
    <2>1. \A b \in Holds(pool, r) : pool'.db[b] = pool.db[b]
      BY <1>1, <1>3, HoldsLive DEF CodedSame
    <2>2. QED
      BY <2>1, <1>3, KeptSame
  <1>4. Kept(pool', q)
    <2>1. Kept(pool, ctx)
      BY <1>1 DEF DraftKept
    <2>2. Kept(pool, q)
      BY <2>1, <1>2 DEF OfDraft, Kept
    <2>3. QED
      BY <2>2, <1>3
  <1>5. PICK S : programs \in Seq(S)
    BY DEF ServiceSound
  <1>6. /\ programs' \in Seq(S \cup {q}) /\ Len(programs') = Len(programs) + 1 /\ Len(programs) \in Nat
        /\ programs'[Len(programs) + 1] = q
        /\ \A n \in 1 .. Len(programs) : programs'[n] = programs[n]
    <2>1. programs \in Seq(S \cup {q})
      BY <1>5
    <2>2. QED
      BY <2>1, <1>2, AppendProperties, LenProperties
  <1>7. \A n \in 1 .. Len(programs') : Kept(pool', programs'[n])
    <2>1. ASSUME NEW n \in 1 .. Len(programs')
          PROVE  Kept(pool', programs'[n])
      <3>1. CASE n \in 1 .. Len(programs)
        <4>1. Kept(pool, programs[n])
          BY <3>1 DEF ServiceSound
        <4>2. QED
          BY <3>1, <4>1, <1>3, <1>6
      <3>2. CASE n = Len(programs) + 1
        BY <3>2, <1>4, <1>6
      <3>3. QED
        BY <3>1, <3>2, <1>6
    <2>2. QED
      BY <2>1
  <1>8. ~ctx'.drafting /\ ctx' \in Drafts \cup {[drafting |-> FALSE]}
    BY <1>1
  <1>9. {cmd, cmd_lasttoken} \subseteq Blocks \cup {Null} /\ status \in {"running", "failed"}
    BY DEF ServiceSound
  <1>10. QED
    BY <1>1, <1>6, <1>7, <1>8, <1>9 DEF ServiceSound

-----------------------------------------------------------------------------
\* The pool that the program starts with.
LEMMA FullPoolSound == Sound(Cells, FullPool)
  <1>1. FullPool.db = [b \in Blocks |-> Disposed] /\ FullPool.stack = [i \in 1 .. DBLOCKS_CAPACITY |-> i]
    BY DEF FullPool, Blocks
  <1>2. DBLOCKS_CAPACITY \in Nat
    BY CapacityAssumption
  <1>3. /\ FullPool.stack \in Seq(Blocks) /\ Len(FullPool.stack) = DBLOCKS_CAPACITY
        /\ \A i \in Blocks : FullPool.stack[i] = i
    BY <1>1, <1>2 DEF Blocks
  <1>4. FullPool \in PoolsOf(Cells)
    <2>1. Disposed \in BlocksOf(Cells)
      BY DisposedBlock
    <2>2. FullPool.db \in [Blocks -> BlocksOf(Cells)]
      BY <1>1, <2>1
    <2>3. FullPool = [db |-> FullPool.db, stack |-> FullPool.stack]
      BY DEF FullPool
    <2>4. QED
      BY <1>3, <2>2, <2>3 DEF PoolsOf
  <1>5. \A b \in Blocks : FullPool.db[b] = Disposed
    BY <1>1
  <1>6. \A b \in Blocks : ~Live(FullPool, b)
    BY <1>5 DEF Live, Disposed
  <1>7. FreeStack(FullPool)
    BY <1>3, <1>6 DEF FreeStack, Blocks
  <1>8. \A b \in Blocks : Linked(FullPool, b) = {} /\ Keys(FullPool, b) = {} /\ FullPool.db[b].next = Null
    BY <1>5 DEF Linked, Keys, Disposed
  <1>9. LinksLive(FullPool) /\ LinksSurvive(FullPool)
    BY <1>8 DEF LinksLive, LinksSurvive
  <1>10. ListsEnd(FullPool)
    <2>1. PICK rank : rank = [b \in Blocks |-> 0]
      OBVIOUS
    <2>2. rank \in [Blocks -> Nat] /\ 0 \in Nat /\ \A b \in Blocks : rank[b] <= 0
      BY <2>1
    <2>3. QED
      BY <2>2, <1>8 DEF ListsEnd
  <1>11. QED
    BY <1>4, <1>7, <1>9, <1>10 DEF Sound

\* The service is sound when it starts.
LEMMA SoundInit ==
    ASSUME Init
    PROVE  ServiceSound
  <1>1. /\ pool = FullPool /\ ctx = [drafting |-> FALSE] /\ cmd = Null /\ cmd_lasttoken = Null
        /\ programs = <<>> /\ status = "running"
    BY DEF Init
  <1>2. ~ctx.drafting /\ Len(programs) = 0 /\ programs \in Seq({})
    BY <1>1
  <1>3. QED
    BY <1>1, <1>2, FullPoolSound DEF ServiceSound

\* Every call keeps it sound.
LEMMA SoundStep ==
    ASSUME ServiceSound, [Next]_vars
    PROVE  ServiceSound'
  <1>1. CASE UNCHANGED vars
    BY <1>1 DEF ServiceSound, vars
  <1>2. CASE Fail
    BY <1>2, FailSound DEF Fail
  <1>3. CASE ~Fail /\ Next
    <2>1. CASE New
      BY <2>1, NewSound
    <2>2. CASE EndCmd
      BY <2>2, <1>3, EndSound
    <2>3. CASE OperandInvalid \/ Rejected
      BY <2>3, <1>3 DEF OperandInvalid, Rejected
    <2>4. CASE Build
      BY <2>4, <1>3, BuildSound
    <2>5. CASE \E name \in Names : Label(name)
      BY <2>5, <1>3, LabelSound
    <2>6. CASE \E name \in Names : \E kind \in Kinds : Mem(kind, name)
      BY <2>6, <1>3, MemSound
    <2>7. CASE \E token \in Instructions \cup Operands : Cmd(token)
      BY <2>7, <1>3, CmdSound
    <2>8. CASE \E n \in 1 .. MaxTokens : \E tokens \in [1 .. n -> Operands] : AppendTokens(tokens)
      BY <2>8, <1>3, AppendSound
    <2>9. QED
      BY <1>3, <2>1, <2>2, <2>3, <2>4, <2>5, <2>6, <2>7, <2>8 DEF Next
  <1>4. QED
    BY <1>1, <1>2, <1>3

\* Whatever a script calls, every block of the service is where the code of
\* its owner says: the inductive invariant.
THEOREM ServiceStaysSound == Spec => []ServiceSound
  <1>1. Init => ServiceSound
    BY SoundInit
  <1>2. ServiceSound /\ [Next]_vars => ServiceSound'
    BY SoundStep
  <1>3. QED
    BY <1>1, <1>2, PTL DEF Spec

\* The stack of free blocks holds each disposed block once, so that no block
\* is handed out twice (tactyk_dblock__alloc and its disposal).
THEOREM StackStaysExact == Spec => []TypeOK
  <1>1. ServiceSound => TypeOK
    BY StackIsExact DEF ServiceSound, TypeOK, Sound
  <1>2. QED
    BY <1>1, ServiceStaysSound, PTL

\* What a block with a persistence code refers to outlives every cull that the
\* block does (tactyk_dblock__cull after every build).
THEOREM LinksOfKeptSurvive == Spec => []KeptSurvives
  <1>1. ServiceSound => KeptSurvives
    BY DEF ServiceSound, KeptSurvives, Sound
  <1>2. QED
    BY <1>1, ServiceStaysSound, PTL

\* The two layouts of a draft or a program agree on every name.
LEMMA KeptInStep ==
    ASSUME Sound(Cells, pool), NEW q, Kept(pool, q)
    PROVE  LayoutInStep(q)
  <1>1. PICK l, t, s : l = q.memory_layout_ll /\ t = q.memory_layout_hl /\ s = pool.db[t].store
    OBVIOUS
  <1>2. LayoutsKept(pool, l, t)
    BY <1>1 DEF Kept
  <1>3. /\ t \in Blocks /\ pool.db[t].type = "TABLE"
        /\ \A i \in 1 .. Len(pool.db[t].content) : pool.db[t].content[i].value \in 1 .. Len(pool.db[s].content)
        /\ \A i \in 1 .. Len(pool.db[s].content) :
             /\ pool.db[s].content[i].memblock \in 1 .. Len(pool.db[l].content)
             /\ pool.db[s].content[i].memblock = pool.db[s].content[i].memblock_id + 1
        /\ \A i \in 1 .. Len(pool.db[l].content) : pool.db[l].content[i].memblock_index + 1 = i
        /\ pool.db[l].content \in Seq(LowLayouts) /\ pool.db[s].content \in Seq(HighLayouts)
    BY <1>1, <1>2 DEF LayoutsKept
  <1>4. DOMAIN pool.db[t].content = 1 .. Len(pool.db[t].content)
    <2>1. pool.db[t].content \in Seq(Fields)
      BY <1>3, BlockTypes DEF Sound, WellShaped
    <2>2. QED
      BY <2>1, LenProperties
  <1>5. ASSUME NEW f \in Range(pool.db[t].content)
        PROVE  /\ pool.db[l].content[pool.db[s].content[f.value].memblock].memblock_index
                    = pool.db[s].content[f.value].memblock_id
               /\ pool.db[s].content[f.value].memblock = pool.db[s].content[f.value].memblock_id + 1
    <2>1. PICK i \in 1 .. Len(pool.db[t].content) : f = pool.db[t].content[i]
      BY <1>4 DEF Range
    <2>2. PICK v : v = f.value
      OBVIOUS
    <2>3. v \in 1 .. Len(pool.db[s].content)
      BY <1>3, <2>1, <2>2
    <2>4. PICK k : k = pool.db[s].content[v].memblock
      OBVIOUS
    <2>5. k \in 1 .. Len(pool.db[l].content) /\ k = pool.db[s].content[v].memblock_id + 1
      BY <1>3, <2>3, <2>4
    <2>6. pool.db[l].content[k].memblock_index + 1 = k
      BY <1>3, <2>5
    <2>7. pool.db[l].content[k].memblock_index \in Nat /\ pool.db[s].content[v].memblock_id \in Nat
      <3>1. pool.db[l].content[k] \in LowLayouts /\ pool.db[s].content[v] \in HighLayouts
        BY <1>3, <2>3, <2>5, ElementOfSeq
      <3>2. QED
        BY <3>1 DEF LowLayouts, HighLayouts
    <2>8. pool.db[l].content[k].memblock_index = pool.db[s].content[v].memblock_id
      <3>1. \A x, y \in Nat : k = x + 1 /\ y + 1 = k => y = x
        OBVIOUS
      <3>2. QED
        BY <3>1, <2>5, <2>6, <2>7
    <2>9. QED
      BY <2>2, <2>4, <2>5, <2>8
  <1>6. QED
    BY <1>1, <1>5 DEF LayoutInStep, Content, db

\* The memory that a name stands for carries the index recorded with the name,
\* in a draft and in every built program (declare_memblock).
THEOREM LayoutsStayInStep == Spec => []LayoutsInStep
  <1>1. ServiceSound => LayoutsInStep
    <2> SUFFICES ASSUME ServiceSound PROVE LayoutsInStep
      OBVIOUS
    <2>1. ASSUME NEW n \in DOMAIN programs
          PROVE  LayoutInStep(programs[n])
      <3>1. n \in 1 .. Len(programs)
        BY LenProperties DEF ServiceSound
      <3>2. Kept(pool, programs[n]) /\ Sound(Cells, pool)
        BY <3>1 DEF ServiceSound
      <3>3. QED
        BY <3>2, KeptInStep
    <2>2. ctx.drafting => LayoutInStep(ctx)
      BY KeptInStep DEF ServiceSound, DraftKept
    <2>3. QED
      BY <2>1, <2>2 DEF LayoutsInStep
  <1>2. QED
    BY <1>1, ServiceStaysSound, PTL

-----------------------------------------------------------------------------
(***************************************************************************)
(* The handles that emit-label returns, for any pool, vocabulary and number*)
(* of calls: in a program that is built each selects the command that has  *)
(* the label.  The invariant follows the symbols of a draft, the labels of *)
(* its commands and then those that wait, in the order they were added.    *)
(***************************************************************************)

Returned == [name : Names, handle : Nat]

\* The k-th label that was added to a draft: its symbol, the object of the
\* function store that stands for it, and the command that has it, or will.
HeadOf(cmds, labels, v) == IF v < Len(cmds) THEN cmds[v + 1].labels ELSE labels
SymbolKept(p, objects, cmds, labels, hs, sym, k) ==
    /\ Passing(p, sym[k], "STRING") /\ p.db[sym[k]].content = <<hs[k].name>>
    /\ objects[k].value <= Len(cmds)
    /\ p.db[sym[k]].next = IF k < Len(hs) /\ objects[k + 1].value = objects[k].value THEN sym[k + 1] ELSE Null
    /\ \/ k > 1 /\ objects[k - 1].value = objects[k].value
       \/ HeadOf(cmds, labels, objects[k].value) = sym[k]
Waiting(objects, cmds, labels, last, hs, sym) ==
    /\ labels # Null => Len(hs) > 0 /\ objects[Len(hs)].value = Len(cmds) /\ last = sym[Len(hs)]
    /\ labels = Null => \A k \in 1 .. Len(hs) : objects[k].value < Len(cmds)
SymbolsKept(p, objects, cmds, labels, last, hs, sym) ==
    /\ Len(objects) = Len(hs)
    /\ \A j, k \in 1 .. Len(hs) : sym[j] = sym[k] => j = k
    /\ \A k \in 1 .. Len(hs) : SymbolKept(p, objects, cmds, labels, hs, sym, k)
    /\ Waiting(objects, cmds, labels, last, hs, sym)

\* The names in the table of functions are those of labels that were added,
\* each at the place of its label up to the first name that was added again.
NamesKept(p, F, hs) ==
    /\ \A text : Has(p, F, text) => \E k \in 1 .. Len(hs) : hs[k].name = text
    /\ NamesDiffer(hs, Len(hs)) => Len(p.db[F].content) = Len(hs)
    /\ \A k \in 1 .. Len(hs) : NamesDiffer(hs, k) => hs[k].handle + 1 = k /\ k <= Len(p.db[F].content)

HandlesKept(p, c, hs) ==
    /\ \E sym : SymbolsKept(p, p.db[p.db[c.functions].store].content, p.db[c.script_commands].content,
                            c.active_labels, c.active_labels_last, hs, sym)
    /\ NamesKept(p, c.functions, hs)

\* The inductive invariant.
HandlesSound ==
    /\ ServiceSound
    /\ handles \in Seq(Returned)
    /\ Drafting => HandlesKept(pool, ctx, handles)
    /\ HandleReachesLabel

-----------------------------------------------------------------------------
\* A sequence and the same with an element more.
Grown(s, t, n, x) == Len(s) = n /\ Len(t) = n + 1 /\ t[n + 1] = x /\ \A k \in 1 .. n : t[k] = s[k]

\* A sequence with an element more has grown by it.
LEMMA GrownByAppend ==
    ASSUME NEW S, NEW s \in Seq(S), NEW x \in S, NEW t, t = Append(s, x)
    PROVE  t \in Seq(S) /\ \E n \in Nat : Grown(s, t, n, x)
  <1>1. PICK n \in Nat : n = Len(s)
    BY LenProperties
  <1>2. t \in Seq(S) /\ Len(t) = n + 1 /\ t[n + 1] = x /\ \A k \in 1 .. n : t[k] = s[k]
    BY <1>1, AppendProperties
  <1>3. QED
    BY <1>1, <1>2 DEF Grown

\* The symbols when what changed is neither theirs nor the commands'.
LEMMA SymbolsStay ==
    ASSUME NEW p, NEW q, NEW W, Touches(p, q, W), NEW objects, NEW cmds, NEW labels, NEW last, NEW hs, NEW sym,
           SymbolsKept(p, objects, cmds, labels, last, hs, sym),
           \A k \in 1 .. Len(hs) : sym[k] \notin W
    PROVE  SymbolsKept(q, objects, cmds, labels, last, hs, sym)
  <1>1. ASSUME NEW k \in 1 .. Len(hs)
        PROVE  SymbolKept(q, objects, cmds, labels, hs, sym, k)
    <2>1. SymbolKept(p, objects, cmds, labels, hs, sym, k)
      BY DEF SymbolsKept
    <2>2. Passing(p, sym[k], "STRING")
      BY <2>1 DEF SymbolKept
    <2>3. Passing(q, sym[k], "STRING") /\ q.db[sym[k]] = p.db[sym[k]]
      BY <2>2, PassingStays
    <2>4. QED
      BY <2>1, <2>3 DEF SymbolKept
  <1>2. QED
    BY <1>1 DEF SymbolsKept

\* A command takes the labels that wait.
LEMMA SymbolsTaken ==
    ASSUME NEW p, NEW objects \in Seq(FunctionObjects), NEW cmds, NEW labels, NEW last, NEW hs, NEW sym,
           SymbolsKept(p, objects, cmds, labels, last, hs, sym), Len(hs) \in Nat,
           NEW more, NEW n \in Nat, NEW object, Grown(cmds, more, n, object), object.labels = labels,
           NEW other
    PROVE  SymbolsKept(p, objects, more, Null, other, hs, sym)
  <1>1. Len(objects) = Len(hs) /\ \A k \in 1 .. Len(hs) : objects[k].value \in Nat
    <2>1. Len(objects) = Len(hs)
      BY DEF SymbolsKept
    <2>2. \A k \in 1 .. Len(hs) : objects[k] \in FunctionObjects
      BY <2>1, ElementOfSeq
    <2>3. QED
      BY <2>1, <2>2 DEF FunctionObjects
  <1>2. Len(cmds) = n /\ Len(more) = n + 1 /\ more[n + 1] = object /\ \A k \in 1 .. n : more[k] = cmds[k]
    BY DEF Grown
  <1>3. ASSUME NEW v \in Nat, v <= n
        PROVE  HeadOf(more, Null, v) = HeadOf(cmds, labels, v)
    <2>1. CASE v < n
      <3>1. v + 1 \in 1 .. n /\ v < n + 1
        BY <2>1
      <3>2. more[v + 1] = cmds[v + 1]
        BY <3>1, <1>2
      <3>3. QED
        BY <2>1, <3>1, <3>2, <1>2 DEF HeadOf
    <2>2. CASE v = n
      <3>1. v < n + 1 /\ ~(v < n)
        BY <2>2
      <3>2. QED
        BY <2>2, <3>1, <1>2 DEF HeadOf
    <2>3. QED
      BY <1>3, <2>1, <2>2
  <1>4. ASSUME NEW k \in 1 .. Len(hs)
        PROVE  SymbolKept(p, objects, more, Null, hs, sym, k) /\ objects[k].value < n + 1
    <2>1. SymbolKept(p, objects, cmds, labels, hs, sym, k)
      BY DEF SymbolsKept
    <2>2. PICK v \in Nat : v = objects[k].value
      BY <1>1
    <2>3. v <= n
      BY <2>1, <2>2, <1>2 DEF SymbolKept
    <2>4. v <= n + 1 /\ v < n + 1
      BY <2>3
    <2>5. HeadOf(more, Null, v) = HeadOf(cmds, labels, v)
      BY <2>3, <1>3
    <2>6. SymbolKept(p, objects, more, Null, hs, sym, k)
      BY <2>1, <2>2, <2>4, <2>5, <1>2 DEF SymbolKept
    <2>7. QED
      BY <2>2, <2>4, <2>6
  <1>5. Waiting(objects, more, Null, other, hs, sym)
    BY <1>4, <1>2 DEF Waiting
  <1>6. QED
    BY <1>4, <1>5 DEF SymbolsKept

\* A label is added: its symbol is linked to the one before, if that waits.
LabelsNow(labels, b) == IF labels = Null THEN b ELSE labels
LastOnly(p, W, labels, last) == \A x \in W : p.db[x].type = "STRING" => labels # Null /\ x = last
StandsFor(object, h, v, text) == object.value = v /\ h.name = text

\* With one label more, the symbols are in order of emission.
LEMMA SymbolsAdded ==
    ASSUME NEW p, NEW q, NEW W, Touches(p, q, W), NEW labels, NEW last, LastOnly(p, W, labels, last),
           NEW name, NEW b, SymbolAt(p, q, b, name), labels # Null => q.db[last].next = b,
           NEW objects \in Seq(FunctionObjects), NEW more, NEW cmds, NEW m \in Nat, m = Len(cmds),
           NEW hs, NEW hs2, NEW n \in Nat, NEW object, NEW h, StandsFor(object, h, m, name),
           Grown(objects, more, n, object), Grown(hs, hs2, n, h),
           NEW sym, SymbolsKept(p, objects, cmds, labels, last, hs, sym)
    PROVE  \E sym2 : SymbolsKept(q, more, cmds, LabelsNow(labels, b), b, hs2, sym2)
  <1>1. /\ Len(hs) = n /\ Len(hs2) = n + 1 /\ hs2[n + 1] = h /\ \A k \in 1 .. n : hs2[k] = hs[k]
        /\ Len(objects) = n /\ Len(more) = n + 1 /\ more[n + 1] = object
        /\ \A k \in 1 .. n : more[k] = objects[k]
    BY DEF Grown
  <1>2. \A k \in 1 .. n : objects[k].value \in Nat
    <2>1. \A k \in 1 .. n : objects[k] \in FunctionObjects
      BY <1>1, ElementOfSeq
    <2>2. QED
      BY <2>1 DEF FunctionObjects
  <1>3. object.value = m /\ h.name = name
    BY DEF StandsFor
  <1>4. PICK sym2 : sym2 = [k \in 1 .. n + 1 |-> IF k <= n THEN sym[k] ELSE b]
    OBVIOUS
  <1>5. sym2[n + 1] = b /\ \A k \in 1 .. n : sym2[k] = sym[k]
    BY <1>4
  <1>6. /\ \A k \in 1 .. n : SymbolKept(p, objects, cmds, labels, hs, sym, k)
        /\ \A j, k \in 1 .. n : sym[j] = sym[k] => j = k
        /\ Waiting(objects, cmds, labels, last, hs, sym)
    BY <1>1 DEF SymbolsKept
  <1>7. /\ labels # Null => n > 0 /\ objects[n].value = m /\ last = sym[n]
        /\ labels = Null => \A k \in 1 .. n : objects[k].value < m
    BY <1>1, <1>6 DEF Waiting
  <1>8. \A k \in 1 .. n : Passing(p, sym[k], "STRING")
    BY <1>6 DEF SymbolKept
  <1>9. /\ b \in Blocks /\ b # Null /\ ~Live(p, b) /\ Passing(q, b, "STRING") /\ q.db[b].next = Null
        /\ q.db[b].content = <<name>>
    BY DEF SymbolAt
  <1>10. \A j, k \in 1 .. n + 1 : sym2[j] = sym2[k] => j = k
    <2>1. \A k \in 1 .. n : sym[k] # b
      BY <1>8, <1>9 DEF Passing, Live
    <2>2. \A k \in 1 .. n + 1 : k \in 1 .. n \/ k = n + 1
      OBVIOUS
    <2>3. QED
      BY <2>1, <2>2, <1>5, <1>6
  <1>11. PICK now : now = LabelsNow(labels, b)
    OBVIOUS
  <1>12. now # Null /\ (labels # Null => now = labels) /\ (labels = Null => now = b)
    BY <1>9, <1>11 DEF LabelsNow
  <1>13. ASSUME NEW k \in 1 .. n
         PROVE  SymbolKept(q, more, cmds, now, hs2, sym2, k)
    <2>1. PICK v \in Nat : v = objects[k].value /\ v = more[k].value
      BY <1>1, <1>2
    <2>2. SymbolKept(p, objects, cmds, labels, hs, sym, k)
      BY <1>6
    <2>3. PICK x \in Blocks : x = sym[k] /\ x = sym2[k] /\ Passing(p, x, "STRING")
      BY <1>5, <1>8 DEF Passing
    <2>4. Passing(q, x, "STRING") /\ q.db[x].content = p.db[x].content
      <3>1. Passing(q, x, "STRING")
        BY <2>3, PassingStays
      <3>2. Live(p, x) /\ p.db[x].type = "STRING"
        BY <2>3 DEF Passing, Live
      <3>3. QED
        BY <3>1, <3>2 DEF Touches
    <2>5. p.db[x].content = <<hs2[k].name>> /\ v <= m
      BY <2>1, <2>2, <2>3, <1>1 DEF SymbolKept
    <2>6. q.db[x].next = IF k < n + 1 /\ more[k + 1].value = v THEN sym2[k + 1] ELSE Null
      <3>1. CASE k < n
        <4>1. k + 1 \in 1 .. n
          BY <3>1
        <4>2. more[k + 1] = objects[k + 1] /\ sym2[k + 1] = sym[k + 1]
          BY <4>1, <1>1, <1>5
        <4>3. p.db[x].next = IF objects[k + 1].value = v THEN sym[k + 1] ELSE Null
          BY <3>1, <2>1, <2>2, <2>3, <1>1 DEF SymbolKept
        <4>4. x \notin W
          <5>1. SUFFICES ASSUME x \in W PROVE FALSE
            OBVIOUS
          <5>2. labels # Null /\ x = last
            BY <5>1, <2>3 DEF LastOnly, Passing
          <5>3. sym[k] = sym[n] /\ n \in 1 .. n
            BY <5>2, <2>3, <1>7, <3>1
          <5>4. k = n
            BY <5>3, <1>6
          <5>5. QED
            BY <5>4, <3>1
        <4>5. q.db[x] = p.db[x]
          BY <4>4, <2>3, PassingStays
        <4>6. k < n + 1
          BY <3>1
        <4>7. QED
          BY <4>2, <4>3, <4>5, <4>6
      <3>2. CASE k = n
        <4>1. more[k + 1].value = m /\ sym2[k + 1] = b /\ k < n + 1 /\ ~(k < n)
          BY <3>2, <1>1, <1>3, <1>5
        <4>2. CASE labels # Null
          <5>1. v = m /\ x = last /\ q.db[x].next = b
            BY <4>2, <3>2, <2>1, <2>3, <1>7
          <5>2. QED
            BY <4>1, <5>1
        <4>3. CASE labels = Null
          <5>1. v < m
            BY <4>3, <2>1, <1>7
          <5>2. v # m
            BY <5>1
          <5>3. p.db[x].next = Null
            BY <4>1, <2>2, <2>3, <1>1 DEF SymbolKept
          <5>4. x \notin W
            BY <4>3, <2>3 DEF LastOnly, Passing
          <5>5. q.db[x] = p.db[x]
            BY <5>4, <2>3, PassingStays
          <5>6. QED
            BY <4>1, <5>2, <5>3, <5>5
        <4>4. QED
          BY <4>2, <4>3
      <3>3. QED
        BY <3>1, <3>2
    <2>7. (k > 1 /\ more[k - 1].value = v) \/ HeadOf(cmds, now, v) = x
      <3>1. (k > 1 /\ objects[k - 1].value = v) \/ HeadOf(cmds, labels, v) = x
        BY <2>1, <2>2, <2>3 DEF SymbolKept
      <3>2. CASE k > 1 /\ objects[k - 1].value = v
        <4>1. k - 1 \in 1 .. n
          BY <3>2
        <4>2. QED
          BY <4>1, <3>2, <1>1
      <3>3. CASE HeadOf(cmds, labels, v) = x
        <4>1. HeadOf(cmds, now, v) = HeadOf(cmds, labels, v)
          <5>1. CASE v < m
            BY <5>1 DEF HeadOf
          <5>2. CASE ~(v < m)
            <6>1. labels # Null
              BY <5>2, <2>1, <1>7
            <6>2. QED
              BY <6>1, <1>12
          <5>3. QED
            BY <5>1, <5>2
        <4>2. QED
          BY <4>1, <3>3
      <3>4. QED
        BY <3>1, <3>2, <3>3
    <2>8. QED
      BY <2>1, <2>3, <2>4, <2>5, <2>6, <2>7, <1>1 DEF SymbolKept
  <1>14. SymbolKept(q, more, cmds, now, hs2, sym2, n + 1)
    <2>1. PICK k : k = n + 1
      OBVIOUS
    <2>2. /\ more[k].value = m /\ m <= Len(cmds) /\ sym2[k] = b /\ hs2[k].name = name
          /\ ~(k < Len(hs2))
      BY <2>1, <1>1, <1>3, <1>5
    <2>3. (k > 1 /\ more[k - 1].value = m) \/ HeadOf(cmds, now, m) = b
      <3>1. CASE labels # Null
        <4>1. k > 1 /\ k - 1 = n /\ n \in 1 .. n
          BY <3>1, <2>1, <1>7
        <4>2. more[n].value = m
          BY <4>1, <3>1, <1>1, <1>7
        <4>3. QED
          BY <4>1, <4>2
      <3>2. CASE labels = Null
        <4>1. ~(m < Len(cmds))
          OBVIOUS
        <4>2. QED
          BY <4>1, <3>2, <1>12 DEF HeadOf
      <3>3. QED
        BY <3>1, <3>2
    <2>4. SymbolKept(q, more, cmds, now, hs2, sym2, k)
      BY <2>2, <2>3, <1>9 DEF SymbolKept
    <2>5. QED
      BY <2>1, <2>4
  <1>15. Waiting(more, cmds, now, b, hs2, sym2)
    BY <1>1, <1>3, <1>5, <1>12 DEF Waiting
  <1>16. \A k \in 1 .. n + 1 : SymbolKept(q, more, cmds, now, hs2, sym2, k)
    <2>1. \A k \in 1 .. n + 1 : k \in 1 .. n \/ k = n + 1
      OBVIOUS
    <2>2. QED
      BY <2>1, <1>13, <1>14
  <1>17. SymbolsKept(q, more, cmds, now, b, hs2, sym2)
    BY <1>1, <1>10, <1>15, <1>16 DEF SymbolsKept
  <1>18. QED
    BY <1>11, <1>17

-----------------------------------------------------------------------------
\* A put adds no name to a table but the one it is given.
LEMMA NamesAfterPut ==
    ASSUME NEW p, Sound(Cells, p), NEW q, Sound(Cells, q), NEW W, Touches(p, q, W),
           NEW F \in Blocks, p.db[F].type = "TABLE", NEW name, NEW place, FieldPut(p, q, F, name, place)
    PROVE  /\ \A text : Has(q, F, text) => text = name \/ Has(p, F, text)
           /\ Len(q.db[F].content) = Len(p.db[F].content) + (IF Has(p, F, name) THEN 0 ELSE 1)
  <1>1. PICK old, new : old = p.db[F].content /\ new = q.db[F].content
    OBVIOUS
  <1>2. q.db[F].type = "TABLE" /\ DOMAIN new = 1 .. Len(new)
    <2>1. q.db[F].type = "TABLE"
      BY DEF Touches, Live
    <2>2. QED
      BY <2>1, <1>1, TableFields
  <1>3. /\ old \in Seq(Fields) /\ Len(old) \in Nat /\ DOMAIN old = 1 .. Len(old)
        /\ \A j \in 1 .. Len(old) : old[j].key \in Blocks /\ Live(p, old[j].key)
    BY <1>1, TableFields
  <1>4. \A j \in 1 .. Len(old) : TextOf(q, old[j].key) = TextOf(p, old[j].key)
    BY <1>3, TextStays
  <1>5. \A text : \A j \in 1 .. Len(old) : TextOf(p, old[j].key) = text => Has(p, F, text)
    BY <1>1, <1>3 DEF Has, FieldsWith
  <1>6. ASSUME NEW text, Has(q, F, text)
        PROVE  \E j \in 1 .. Len(new) : TextOf(q, new[j].key) = text
    BY <1>1, <1>2, <1>6 DEF Has, FieldsWith
  <1>7. CASE Has(p, F, name)
    <2>1. PICK i : /\ i \in 1 .. Len(old) /\ Len(new) = Len(old)
                   /\ \A j \in 1 .. Len(old) :
                        new[j] = IF j = i THEN [key |-> old[i].key, value |-> place] ELSE old[j]
      BY <1>1, <1>7 DEF FieldPut
    <2>2. \A j \in 1 .. Len(old) : new[j].key = old[j].key
      BY <2>1
    <2>3. \A text : Has(q, F, text) => text = name \/ Has(p, F, text)
      BY <2>1, <2>2, <1>4, <1>5, <1>6
    <2>4. Len(new) = Len(old) + 0
      BY <2>1, <1>3
    <2>5. QED
      BY <2>3, <2>4, <1>1, <1>7
  <1>8. CASE ~Has(p, F, name)
    <2>1. PICK k \in Blocks : TextOf(q, k) = name /\ new = Append(old, [key |-> k, value |-> place])
      BY <1>1, <1>8 DEF FieldPut
    <2>2. PICK e : e = [key |-> k, value |-> place]
      OBVIOUS
    <2>3. /\ Len(new) = Len(old) + 1 /\ new[Len(old) + 1] = e
          /\ \A j \in 1 .. Len(old) : new[j] = old[j]
      <3>1. old \in Seq(Fields \cup {e}) /\ e \in Fields \cup {e}
        BY <1>3
      <3>2. new = Append(old, e)
        BY <2>1, <2>2
      <3>3. QED
        BY <3>1, <3>2, <1>3, AppendProperties
    <2>4. e.key = k
      BY <2>2
    <2>5. \A j \in 1 .. Len(new) : j \in 1 .. Len(old) \/ j = Len(old) + 1
      BY <2>3, <1>3
    <2>6. \A j \in 1 .. Len(new) : TextOf(q, new[j].key) = name \/ \E i \in 1 .. Len(old) : new[j] = old[i]
      BY <2>1, <2>3, <2>4, <2>5
    <2>7. \A text : Has(q, F, text) => text = name \/ Has(p, F, text)
      BY <2>6, <1>4, <1>5, <1>6
    <2>8. QED
      BY <2>3, <2>7, <1>1, <1>8
  <1>9. QED
    BY <1>7, <1>8

\* The names in the function table stay what they stand for,
LEMMA NamesStay ==
    ASSUME NEW p, Sound(Cells, p), NEW q, NEW W, Touches(p, q, W), NEW F \in Blocks, p.db[F].type = "TABLE",
           F \notin W, NEW hs, NamesKept(p, F, hs)
    PROVE  NamesKept(q, F, hs)
  <1>1. q.db[F].content = p.db[F].content
    BY DEF Touches, Live
  <1>2. \A text : Has(q, F, text) = Has(p, F, text)
    BY <1>1, HasStays
  <1>3. QED
    BY <1>1, <1>2 DEF NamesKept

\* A handle is the number of names that were there.
Handed(p, F, h, name) == h.name = name /\ h.handle = Len(p.db[F].content)

\* and a new name stands for its own label.
LEMMA NamesAdded ==
    ASSUME NEW p, Sound(Cells, p), NEW q, Sound(Cells, q), NEW W, Touches(p, q, W),
           NEW F \in Blocks, p.db[F].type = "TABLE", NEW name, NEW place, FieldPut(p, q, F, name, place),
           NEW hs, NEW hs2, NEW n \in Nat, NEW h, Grown(hs, hs2, n, h), Handed(p, F, h, name), NamesKept(p, F, hs)
    PROVE  NamesKept(q, F, hs2)
  <1>1. /\ Len(hs) = n /\ Len(hs2) = n + 1 /\ hs2[n + 1] = h /\ \A k \in 1 .. n : hs2[k] = hs[k]
        /\ h.name = name /\ h.handle = Len(p.db[F].content)
    BY DEF Grown, Handed
  <1>2. /\ \A text : Has(q, F, text) => text = name \/ Has(p, F, text)
        /\ Len(q.db[F].content) = Len(p.db[F].content) + (IF Has(p, F, name) THEN 0 ELSE 1)
    BY NamesAfterPut
  <1>3. n + 1 \in 1 .. n + 1 /\ \A k \in 1 .. n : k \in 1 .. n + 1 /\ k # n + 1
    OBVIOUS
  <1>4. ASSUME NEW text, Has(q, F, text)
        PROVE  \E k \in 1 .. Len(hs2) : hs2[k].name = text
    <2>1. CASE text = name
      BY <2>1, <1>1, <1>3
    <2>2. CASE Has(p, F, text)
      <3>1. PICK k \in 1 .. n : hs[k].name = text
        BY <2>2, <1>1 DEF NamesKept
      <3>2. QED
        BY <3>1, <1>1, <1>3
    <2>3. QED
      BY <1>2, <1>4, <2>1, <2>2
  <1>5. Len(p.db[F].content) \in Nat
    BY TableFields
  <1>6. ASSUME NamesDiffer(hs2, n + 1)
        PROVE  Len(p.db[F].content) = n /\ Len(q.db[F].content) = n + 1
    <2>1. \A j, k \in 1 .. n + 1 : hs2[j].name = hs2[k].name => j = k
      BY <1>6 DEF NamesDiffer
    <2>2. NamesDiffer(hs, n)
      BY <2>1, <1>1, <1>3 DEF NamesDiffer
    <2>3. Len(p.db[F].content) = n
      BY <2>2, <1>1 DEF NamesKept
    <2>4. ~Has(p, F, name)
      <3>1. SUFFICES ASSUME Has(p, F, name) PROVE FALSE
        OBVIOUS
      <3>2. PICK k \in 1 .. n : hs[k].name = name
        BY <3>1, <1>1 DEF NamesKept
      <3>3. hs2[k].name = hs2[n + 1].name
        BY <3>2, <1>1
      <3>4. QED
        BY <3>3, <2>1, <1>3
    <2>5. QED
      BY <2>3, <2>4, <1>2
  <1>7. ASSUME NEW k \in 1 .. n + 1, NamesDiffer(hs2, k)
        PROVE  hs2[k].handle + 1 = k /\ k <= Len(q.db[F].content)
    <2>1. CASE k = n + 1
      BY <2>1, <1>1, <1>6, <1>7
    <2>2. CASE k \in 1 .. n
      <3>1. \A i \in 1 .. k : i \in 1 .. n
        BY <2>2
      <3>2. NamesDiffer(hs, k)
        BY <3>1, <1>1, <1>7 DEF NamesDiffer
      <3>3. hs[k].handle + 1 = k /\ k <= Len(p.db[F].content)
        BY <3>2, <2>2, <1>1 DEF NamesKept
      <3>4. PICK m, l : m = Len(p.db[F].content) /\ l = (IF Has(p, F, name) THEN 0 ELSE 1)
        OBVIOUS
      <3>5. m \in Nat /\ l \in Nat /\ Len(q.db[F].content) = m + l /\ k <= m
        BY <3>3, <3>4, <1>2, <1>5
      <3>6. k <= m + l
        BY <3>5
      <3>7. hs2[k] = hs[k]
        BY <2>2, <1>1
      <3>8. QED
        BY <3>3, <3>5, <3>6, <3>7
    <2>3. QED
      BY <2>1, <2>2
  <1>8. QED
    BY <1>1, <1>4, <1>6, <1>7 DEF NamesKept

\* A symbol is on the list of the command that its label is of.
LEMMA SymbolReached ==
    ASSUME NEW p, Sound(Cells, p), NEW objects \in Seq(FunctionObjects), NEW cmds \in Seq(Commands),
           NEW last, NEW hs, NEW sym, Len(hs) \in Nat, SymbolsKept(p, objects, cmds, Null, last, hs, sym), NEW k \in 1 .. Len(hs)
    PROVE  /\ objects[k].value \in Nat /\ objects[k].value < Len(cmds)
           /\ OnChain(p, cmds[objects[k].value + 1].labels, sym[k])
  <1> DEFINE list(j) == cmds[objects[j].value + 1].labels
             Bad == {j \in 1 .. Len(hs) : ~OnChain(p, list(j), sym[j])}
  <1>1. PICK n \in Nat : n = Len(hs) /\ n = Len(objects)
    BY DEF SymbolsKept
  <1>2. \A j \in 1 .. n : objects[j].value \in Nat
    <2>1. \A j \in 1 .. n : objects[j] \in FunctionObjects
      BY <1>1, ElementOfSeq
    <2>2. QED
      BY <2>1 DEF FunctionObjects
  <1>3. /\ \A j \in 1 .. n : SymbolKept(p, objects, cmds, Null, hs, sym, j) /\ objects[j].value < Len(cmds)
    BY <1>1 DEF SymbolsKept, Waiting
  <1>4. p \in PoolsOf(Cells) /\ ListsEnd(p)
    BY DEF Sound
  <1>5. Bad = {}
    <2> SUFFICES ASSUME Bad # {}
                 PROVE  FALSE
      OBVIOUS
    <2>1. PICK j \in Bad : \A i \in Bad : j <= i
      <3>1. Bad \in SUBSET Nat
        BY <1>1
      <3>2. QED
        BY <3>1, LeastNumber
    <2>2. j \in 1 .. n /\ ~OnChain(p, list(j), sym[j])
      BY <1>1
    <2>3. SymbolKept(p, objects, cmds, Null, hs, sym, j) /\ objects[j].value < Len(cmds)
      BY <2>2, <1>3
    <2>4. sym[j] \in Blocks
      BY <2>3 DEF SymbolKept, Passing
    <2>5. CASE j > 1 /\ objects[j - 1].value = objects[j].value
      <3>1. PICK i \in 1 .. n : i = j - 1 /\ i < n /\ i + 1 = j
        <4>1. j - 1 \in 1 .. n /\ j - 1 < n /\ (j - 1) + 1 = j
          BY <2>2, <2>5
        <4>2. QED
          BY <4>1
      <3>2. i \notin Bad
        BY <2>1, <3>1
      <3>3. OnChain(p, list(i), sym[i]) /\ list(i) = list(j)
        BY <3>1, <3>2, <2>5, <1>1
      <3>4. sym[i] \in Blocks /\ p.db[sym[i]].next = sym[j]
        <4>1. SymbolKept(p, objects, cmds, Null, hs, sym, i)
          BY <1>3
        <4>2. QED
          BY <4>1, <3>1, <2>5, <1>1 DEF SymbolKept, Passing
      <3>5. list(i) \in Blocks \cup {Null}
        <4>1. PICK v \in Nat : v = objects[i].value
          BY <1>2
        <4>2. v < Len(cmds) /\ Len(cmds) \in Nat
          BY <4>1, <1>3, LenProperties
        <4>3. v + 1 \in 1 .. Len(cmds)
          BY <4>2
        <4>4. cmds[v + 1] \in Commands
          BY <4>3, ElementOfSeq
        <4>5. QED
          BY <4>1, <4>4 DEF Commands
      <3>6. list(i) # Null
        <4>1. Chain(p, Null) = <<>>
          BY <1>4, ChainStep
        <4>2. ~OnChain(p, Null, sym[i])
          BY <4>1 DEF OnChain
        <4>3. QED
          BY <4>2, <3>3
      <3>7. PICK b \in Blocks : b = list(i)
        BY <3>5, <3>6
      <3>8. OnChain(p, b, sym[j])
        BY <3>3, <3>4, <3>7, <2>4, <1>4, ChainGoesOn
      <3>9. QED
        BY <3>3, <3>7, <3>8, <2>2
    <2>6. CASE HeadOf(cmds, Null, objects[j].value) = sym[j]
      <3>1. list(j) = sym[j]
        BY <2>3, <2>6 DEF HeadOf
      <3>2. OnChain(p, sym[j], sym[j])
        BY <2>4, <1>4, ChainFirst
      <3>3. QED
        BY <3>1, <3>2, <2>2
    <2>7. QED
      BY <2>3, <2>5, <2>6 DEF SymbolKept
  <1>6. QED
    BY <1>1, <1>2, <1>3, <1>5

-----------------------------------------------------------------------------
\* The invariant after a step that adds no program.
LEMMA HandlesAfter ==
    ASSUME HandlesSound, ServiceSound', UNCHANGED <<programs>>, handles' \in Seq(Returned),
           Drafting' => HandlesKept(pool', ctx', handles')
    PROVE  HandlesSound'
  <1>1. HandleReachesLabel'
    BY DEF HandlesSound, HandleReachesLabel
  <1>2. QED
    BY <1>1 DEF HandlesSound

\* ... and after one that leaves the functions, the commands and the labels.
LEMMA HandlesStay ==
    ASSUME HandlesSound, Drafting, NEW W, Touches(pool, pool', W), UNCHANGED <<ctx, handles>>,
           {ctx.functions, pool.db[ctx.functions].store, ctx.script_commands} \cap W = {},
           \A x \in W : pool.db[x].type # "STRING"
    PROVE  HandlesKept(pool', ctx', handles')
  <1>1. PICK F, s, c, p, q, hs : /\ F = ctx.functions /\ s = pool.db[F].store /\ c = ctx.script_commands
                                 /\ p = pool /\ q = pool' /\ hs = handles
    OBVIOUS
  <1>2. DraftKept(p, ctx) /\ Sound(Cells, p) /\ HandlesKept(p, ctx, hs)
    BY <1>1, DraftOpen DEF HandlesSound, ServiceSound
  <1>3. FunctionsKept(p, F) /\ Passing(p, c, "UNSPECIFIED")
    BY <1>1, <1>2 DEF DraftKept, Kept
  <1>4. /\ F \in Blocks /\ Live(p, F) /\ p.db[F].type = "TABLE"
        /\ s \in Blocks /\ Live(p, s) /\ c \in Blocks /\ Live(p, c)
    BY <1>1, <1>3 DEF FunctionsKept, Passing, Live
  <1>5. q.db[F] = p.db[F] /\ q.db[s] = p.db[s] /\ q.db[c] = p.db[c] /\ F \notin W /\ Touches(p, q, W)
    BY <1>1, <1>4 DEF Touches
  <1>6. NamesKept(q, F, hs)
    <2>1. NamesKept(p, F, hs)
      BY <1>1, <1>2 DEF HandlesKept
    <2>2. QED
      BY <2>1, <1>2, <1>4, <1>5, NamesStay
  <1>7. PICK sym : SymbolsKept(p, p.db[s].content, p.db[c].content, ctx.active_labels, ctx.active_labels_last, hs, sym)
    BY <1>1, <1>2 DEF HandlesKept
  <1>8. \A k \in 1 .. Len(hs) : sym[k] \notin W
    <2>1. \A k \in 1 .. Len(hs) : p.db[sym[k]].type = "STRING"
      BY <1>7 DEF SymbolsKept, SymbolKept, Passing
    <2>2. QED
      BY <2>1, <1>1
  <1>9. SymbolsKept(q, p.db[s].content, p.db[c].content, ctx.active_labels, ctx.active_labels_last, hs, sym)
    BY <1>5, <1>7, <1>8, SymbolsStay
  <1>10. SymbolsKept(q, q.db[s].content, q.db[c].content, ctx.active_labels, ctx.active_labels_last, hs, sym)
    BY <1>5, <1>9
  <1>11. HandlesKept(q, ctx, hs)
    <2>1. q.db[F].store = s
      BY <1>1, <1>5
    <2>2. QED
      BY <2>1, <1>1, <1>6, <1>10 DEF HandlesKept
  <1>12. QED
    BY <1>1, <1>11

\* An error of the service keeps the handles.
LEMMA HandlesFail ==
    ASSUME HandlesSound, Fail
    PROVE  HandlesSound'
  <1>1. ServiceSound'
    BY FailSound DEF HandlesSound, Fail
  <1>2. QED
    BY <1>1, HandlesAfter DEF HandlesSound, Fail, Drafting

\* emit-new starts without labels.
LEMMA HandlesNew ==
    ASSUME HandlesSound, New
    PROVE  HandlesSound'
  <1>1. ServiceSound' /\ UNCHANGED <<programs>> /\ handles' = <<>>
    BY NewSound, NewLeaves DEF HandlesSound, New
  <1>2. handles' \in Seq(Returned)
    BY <1>1
  <1>3. ASSUME Drafting'
        PROVE  HandlesKept(pool', ctx', handles')
    <2>1. Begun(pool', ctx') /\ DraftKept(pool', ctx')
      BY <1>3, NewLeaves DEF HandlesSound, Drafting
    <2>2. PICK q, c, hs : q = pool' /\ c = ctx' /\ hs = handles'
      OBVIOUS
    <2>3. /\ q.db[c.functions].content = <<>> /\ q.db[q.db[c.functions].store].content = <<>>
          /\ q.db[c.script_commands].content = <<>> /\ c.active_labels = Null
      BY <2>1, <2>2 DEF Begun
    <2>4. Len(hs) = 0 /\ hs = <<>>
      BY <1>1, <2>2
    <2>5. NamesKept(q, c.functions, hs)
      <3>1. \A text : ~Has(q, c.functions, text)
        <4>1. DOMAIN q.db[c.functions].content = {}
          BY <2>3
        <4>2. QED
          BY <4>1 DEF Has, FieldsWith
      <3>2. Len(q.db[c.functions].content) = 0
        BY <2>3
      <3>3. QED
        BY <3>1, <3>2, <2>4 DEF NamesKept
    <2>6. SymbolsKept(q, q.db[q.db[c.functions].store].content, q.db[c.script_commands].content,
                      c.active_labels, c.active_labels_last, hs, <<>>)
      <3>1. Len(q.db[q.db[c.functions].store].content) = 0
        BY <2>3
      <3>2. QED
        BY <3>1, <2>3, <2>4 DEF SymbolsKept, Waiting
    <2>7. QED
      BY <2>2, <2>5, <2>6 DEF HandlesKept
  <1>4. QED
    BY <1>1, <1>2, <1>3, HandlesAfter

\* emit-cmd leaves labels and symbols alone.
LEMMA HandlesCmd ==
    ASSUME HandlesSound, NEW token \in Instructions \cup Operands, Cmd(token), ~Fail
    PROVE  HandlesSound'
  <1>1. ServiceSound /\ handles \in Seq(Returned)
    BY DEF HandlesSound
  <1>2. ServiceSound' /\ Touches(pool, pool', {}) /\ UNCHANGED <<ctx, handles, programs>>
    BY <1>1, CmdSound, CmdLeaves
  <1>3. HandlesKept(pool', ctx', handles')
    <2>1. PICK W : W = {}
      OBVIOUS
    <2>2. Drafting
      BY DEF Cmd
    <2>3. QED
      BY <1>2, <2>1, <2>2, HandlesStay
  <1>4. QED
    BY <1>1, <1>2, <1>3, HandlesAfter

\* So do the functions that add a token,
LEMMA HandlesAppend ==
    ASSUME HandlesSound, NEW n \in 1 .. MaxTokens, NEW tokens \in [1 .. n -> Operands],
           AppendTokens(tokens), ~Fail
    PROVE  HandlesSound'
  <1>1. ServiceSound /\ handles \in Seq(Returned) /\ Drafting
    BY DEF HandlesSound, AppendTokens
  <1>2. /\ ServiceSound' /\ Touches(pool, pool', {cmd_lasttoken}) /\ cmd # Null
        /\ UNCHANGED <<ctx, handles, programs>>
    BY <1>1, AppendSound, AppendLeaves
  <1>3. pool.db[cmd_lasttoken].type = "EXTERNAL"
    BY <1>1, <1>2 DEF ServiceSound, CommandOpen, Passing
  <1>4. /\ pool.db[ctx.functions].type = "TABLE" /\ pool.db[pool.db[ctx.functions].store].type = "UNSPECIFIED"
        /\ pool.db[ctx.script_commands].type = "UNSPECIFIED"
    BY <1>1, DraftOpen DEF DraftKept, Kept, FunctionsKept, Passing
  <1>5. HandlesKept(pool', ctx', handles')
    <2>1. /\ {ctx.functions, pool.db[ctx.functions].store, ctx.script_commands} \cap {cmd_lasttoken} = {}
          /\ \A x \in {cmd_lasttoken} : pool.db[x].type # "STRING"
      BY <1>3, <1>4
    <2>2. QED
      BY <2>1, <1>1, <1>2, HandlesStay
  <1>6. QED
    BY <1>1, <1>2, <1>5, HandlesAfter

\* and the memory declarations.
LEMMA HandlesMem ==
    ASSUME HandlesSound, NEW kind \in Kinds, NEW name \in Names, Mem(kind, name), ~Fail
    PROVE  HandlesSound'
  <1>1. ServiceSound /\ handles \in Seq(Returned) /\ Drafting
    BY DEF HandlesSound, Mem
  <1>2. PICK l, t, m, s : l = ctx.memory_layout_ll /\ t = ctx.memory_layout_hl /\ m = ctx.memblock_table
                          /\ s = pool.db[t].store
    OBVIOUS
  <1>3. /\ DraftKept(pool, ctx) /\ Touches(pool, pool', {l, t, s, m})
        /\ UNCHANGED <<ctx, handles, programs>>
    BY <1>1, <1>2, MemLeaves
  <1>4. /\ {ctx.functions, pool.db[ctx.functions].store, ctx.script_commands} \cap {l, t, s, m} = {}
        /\ \A x \in {l, t, s, m} : pool.db[x].type # "STRING"
    BY <1>2, <1>3, LayoutsApart
  <1>5. HandlesKept(pool', ctx', handles')
    BY <1>1, <1>3, <1>4, HandlesStay
  <1>6. ServiceSound'
    BY <1>1, MemSound
  <1>7. QED
    BY <1>1, <1>3, <1>5, <1>6, HandlesAfter

\* emit-end gives the labels that wait to the command it ends.
LEMMA HandlesEnd ==
    ASSUME HandlesSound, EndCmd, ~Fail
    PROVE  HandlesSound'
  <1>1. ServiceSound /\ handles \in Seq(Returned) /\ Drafting
    BY DEF HandlesSound, EndCmd
  <1>2. /\ DraftKept(pool, ctx) /\ Sound(Cells, pool') /\ Touches(pool, pool', {ctx.script_commands})
        /\ SameDraft(ctx, ctx') /\ ctx'.active_labels = Null /\ UNCHANGED <<programs, handles>> /\ ServiceSound'
    BY <1>1, EndLeaves, EndSound
  <1>3. PICK object \in Commands :
          /\ object.labels = ctx.active_labels
          /\ pool'.db[ctx.script_commands].content = Append(pool.db[ctx.script_commands].content, object)
    BY <1>1, EndLeaves
  <1>4. PICK F, s, c, p, q, hs, W : /\ F = ctx.functions /\ s = pool.db[F].store /\ c = ctx.script_commands
                                    /\ p = pool /\ q = pool' /\ hs = handles /\ W = {c}
    OBVIOUS
  <1>5. /\ Sound(Cells, p) /\ HandlesKept(p, ctx, hs) /\ FunctionsKept(p, F) /\ Passing(p, c, "UNSPECIFIED")
        /\ p.db[c].content \in Seq(Commands) /\ Touches(p, q, W)
    BY <1>1, <1>2, <1>4 DEF HandlesSound, ServiceSound, DraftKept, Kept
  <1>6. /\ F \in Blocks /\ Live(p, F) /\ p.db[F].type = "TABLE" /\ s \in Blocks /\ Live(p, s)
        /\ p.db[s].content \in Seq(FunctionObjects) /\ F # c /\ s # c
    <2>1. /\ F \in Blocks /\ p.db[F].type = "TABLE"
          /\ s \in Blocks /\ p.db[s].type = "UNSPECIFIED" /\ p.db[s].persistence_code > 0
          /\ p.db[s].content \in Seq(FunctionObjects)
      BY <1>4, <1>5 DEF FunctionsKept
    <2>2. p.db[c].type = "UNSPECIFIED" /\ ~(p.db[c].persistence_code > 0)
      BY <1>5 DEF Passing
    <2>3. QED
      BY <2>1, <2>2 DEF Live
  <1>7. q.db[F] = p.db[F] /\ q.db[s] = p.db[s] /\ F \notin W
    BY <1>4, <1>5, <1>6 DEF Touches
  <1>8. NamesKept(q, F, hs)
    <2>1. NamesKept(p, F, hs)
      BY <1>4, <1>5 DEF HandlesKept
    <2>2. QED
      BY <2>1, <1>5, <1>6, <1>7, NamesStay
  <1>9. PICK sym : SymbolsKept(p, p.db[s].content, p.db[c].content, ctx.active_labels, ctx.active_labels_last, hs, sym)
    BY <1>4, <1>5 DEF HandlesKept
  <1>10. \A k \in 1 .. Len(hs) : sym[k] \notin W
    <2>1. \A k \in 1 .. Len(hs) : p.db[sym[k]].type = "STRING"
      BY <1>9 DEF SymbolsKept, SymbolKept, Passing
    <2>2. p.db[c].type = "UNSPECIFIED"
      BY <1>5 DEF Passing
    <2>3. QED
      BY <2>1, <2>2, <1>4
  <1>11. SymbolsKept(q, p.db[s].content, p.db[c].content, ctx.active_labels, ctx.active_labels_last, hs, sym)
    BY <1>5, <1>9, <1>10, SymbolsStay
  <1>12. PICK n \in Nat : Grown(p.db[c].content, q.db[c].content, n, object)
    <2>1. q.db[c].content = Append(p.db[c].content, object)
      BY <1>3, <1>4
    <2>2. QED
      BY <2>1, <1>5, GrownByAppend
  <1>13. SymbolsKept(q, p.db[s].content, q.db[c].content, Null, ctx'.active_labels_last, hs, sym)
    <2>1. Len(hs) \in Nat
      BY <1>1, <1>4, LenProperties
    <2>2. PICK labels : labels = ctx.active_labels
      OBVIOUS
    <2>3. SymbolsKept(q, p.db[s].content, p.db[c].content, labels, ctx.active_labels_last, hs, sym)
          /\ object.labels = labels
      BY <1>3, <1>11, <2>2
    <2>4. QED
      BY <2>1, <2>3, <1>6, <1>12, SymbolsTaken
  <1>14. HandlesKept(q, ctx', hs)
    <2>1. ctx'.functions = F /\ ctx'.script_commands = c /\ q.db[F].store = s /\ q.db[s].content = p.db[s].content
      BY <1>2, <1>4, <1>7 DEF SameDraft
    <2>2. QED
      BY <2>1, <1>2, <1>8, <1>13 DEF HandlesKept
  <1>15. HandlesKept(pool', ctx', handles') /\ handles' \in Seq(Returned)
    BY <1>1, <1>2, <1>4, <1>14
  <1>16. QED
    BY <1>2, <1>15, HandlesAfter

\* emit-label appends a symbol to those that wait.
LEMMA HandlesLabel ==
    ASSUME HandlesSound, NEW name \in Names, Label(name), ~Fail
    PROVE  HandlesSound'
  <1>1. ServiceSound /\ handles \in Seq(Returned) /\ Drafting
    BY DEF HandlesSound, Label
  <1>2. PICK F, s, c, p, q, hs, W, labels, last :
          /\ F = ctx.functions /\ s = pool.db[F].store /\ c = ctx.script_commands
          /\ p = pool /\ q = pool' /\ hs = handles /\ W = LabelTouched(F, s)
          /\ labels = ctx.active_labels /\ last = ctx.active_labels_last
    OBVIOUS
  <1>3. HasStore(p, F, s)
    BY <1>2 DEF HasStore
  <1>4. /\ DraftKept(pool, ctx) /\ Sound(Cells, pool') /\ Touches(pool, pool', LabelTouched(F, s))
        /\ FunctionsKept(pool', F) /\ HasStore(pool', F, s)
        /\ handles' = Append(handles, [name |-> name, handle |-> LabelHandle])
        /\ UNCHANGED <<programs>> /\ ServiceSound'
    BY <1>1, <1>2, <1>3, LabelLeaves, LabelSound
  <1>5. PICK b : SymbolAt(p, q, b, name) /\ LabelWaits(b)
    BY <1>1, <1>2, <1>3, LabelLeaves
  <1>6. PICK object, place : /\ ObjectFor(name, object) /\ Added(p, q, s, object)
                             /\ FieldPut(p, q, F, name, place)
    BY <1>1, <1>2, <1>3, LabelLeaves
  <1>7. /\ Sound(Cells, p) /\ HandlesKept(p, ctx, hs) /\ FunctionsKept(p, F) /\ Passing(p, c, "UNSPECIFIED")
        /\ Passing(p, ctx.label_table, "TABLE") /\ Passing(p, ctx.labelindex_table, "TABLE")
        /\ p.db[c].content \in Seq(Commands) /\ Touches(p, q, W)
        /\ labels # Null => Passing(p, last, "STRING")
    BY <1>1, <1>2, <1>4 DEF HandlesSound, ServiceSound, DraftKept, Kept
  <1>8. /\ F \in Blocks /\ Live(p, F) /\ p.db[F].type = "TABLE" /\ s \in Blocks /\ Live(p, s)
        /\ p.db[s].type = "UNSPECIFIED" /\ p.db[s].content \in Seq(FunctionObjects) /\ s # c
        /\ p.db[c].type = "UNSPECIFIED" /\ c \in Blocks /\ Live(p, c)
    <2>1. /\ F \in Blocks /\ p.db[F].type = "TABLE"
          /\ s \in Blocks /\ p.db[s].type = "UNSPECIFIED" /\ p.db[s].persistence_code > 0
          /\ p.db[s].content \in Seq(FunctionObjects)
      BY <1>2, <1>7 DEF FunctionsKept
    <2>2. p.db[c].type = "UNSPECIFIED" /\ ~(p.db[c].persistence_code > 0) /\ c \in Blocks
      BY <1>7 DEF Passing
    <2>3. QED
      BY <2>1, <2>2 DEF Live
  <1>9. /\ p.db[ctx.label_table].type = "TABLE" /\ p.db[ctx.labelindex_table].type = "TABLE"
        /\ labels # Null => p.db[last].type = "STRING"
    BY <1>7 DEF Passing
  <1>10. LastOnly(p, W, labels, last)
    <2>1. \A x \in W : \/ x \in {ctx.label_table, F, s, ctx.labelindex_table}
                       \/ labels # Null /\ x = last
      BY <1>2 DEF LabelTouched
    <2>2. QED
      BY <2>1, <1>8, <1>9 DEF LastOnly
  <1>11. q.db[c] = p.db[c]
    <2>1. c \notin W
      BY <1>2, <1>8, <1>9 DEF LabelTouched
    <2>2. QED
      BY <2>1, <1>7, <1>8 DEF Touches
  <1>12. PICK m \in Nat, h \in Returned : /\ m = Len(p.db[c].content)
                                          /\ h = [name |-> name, handle |-> LabelHandle]
    <2>1. Len(p.db[c].content) \in Nat /\ Len(p.db[F].content) \in Nat
      BY <1>7, <1>8, LenProperties, TableFields
    <2>2. LabelHandle \in Nat
      BY <2>1, <1>2 DEF LabelHandle, Content, db
    <2>3. [name |-> name, handle |-> LabelHandle] \in Returned
      BY <2>2 DEF Returned
    <2>4. QED
      BY <2>1, <2>3
  <1>13. Handed(p, F, h, name)
    BY <1>2, <1>12 DEF Handed, LabelHandle, Content, db
  <1>14. PICK hs2 \in Seq(Returned), n \in Nat : hs2 = handles' /\ Grown(hs, hs2, n, h)
    <2>1. handles' = Append(hs, h) /\ hs \in Seq(Returned)
      BY <1>1, <1>2, <1>4, <1>12
    <2>2. QED
      BY <2>1, GrownByAppend
  <1>15. StandsFor(object, h, m, name) /\ object \in FunctionObjects
    <2>1. object = [txt |-> name, value |-> m]
      BY <1>2, <1>6, <1>12 DEF ObjectFor, Index, Content, db
    <2>2. QED
      BY <2>1, <1>13 DEF StandsFor, Handed, FunctionObjects
  <1>16. NamesKept(q, F, hs2)
    <2>1. NamesKept(p, F, hs) /\ Sound(Cells, q)
      BY <1>2, <1>4, <1>7 DEF HandlesKept
    <2>2. QED
      BY <2>1, <1>6, <1>7, <1>8, <1>13, <1>14, NamesAdded
  <1>17. PICK sym : SymbolsKept(p, p.db[s].content, p.db[c].content, labels, last, hs, sym)
    BY <1>2, <1>7 DEF HandlesKept
  <1>18. Grown(p.db[s].content, q.db[s].content, n, object)
    <2>1. PICK k \in Nat : Grown(p.db[s].content, q.db[s].content, k, object)
      BY <1>6, <1>8, <1>15, GrownByAppend DEF Added
    <2>2. k = n
      <3>1. Len(p.db[s].content) = k /\ Len(hs) = n
        BY <2>1, <1>14 DEF Grown
      <3>2. QED
        BY <3>1, <1>17 DEF SymbolsKept
    <2>3. QED
      BY <2>1, <2>2
  <1>19. labels # Null => q.db[last].next = b
    BY <1>2, <1>5 DEF LabelWaits
  <1>20. \E sym2 : SymbolsKept(q, q.db[s].content, p.db[c].content, LabelsNow(labels, b), b, hs2, sym2)
    <2>1. PICK objects, more, cmds : objects = p.db[s].content /\ more = q.db[s].content /\ cmds = p.db[c].content
      OBVIOUS
    <2>2. /\ objects \in Seq(FunctionObjects) /\ m = Len(cmds) /\ Grown(objects, more, n, object)
          /\ SymbolsKept(p, objects, cmds, labels, last, hs, sym)
      BY <2>1, <1>8, <1>12, <1>17, <1>18
    <2>3. \E sym2 : SymbolsKept(q, more, cmds, LabelsNow(labels, b), b, hs2, sym2)
      BY <2>2, <1>5, <1>7, <1>10, <1>14, <1>15, <1>19, SymbolsAdded
    <2>4. QED
      BY <2>1, <2>3
  <1>21. HandlesKept(q, ctx', hs2)
    <2>1. /\ ctx'.functions = F /\ ctx'.script_commands = c /\ ctx'.active_labels_last = b
          /\ ctx'.active_labels = LabelsNow(labels, b)
      BY <1>2, <1>5 DEF LabelWaits, SameDraft, LabelsNow
    <2>2. q.db[F].store = s
      BY <1>2, <1>4 DEF HasStore
    <2>3. QED
      BY <2>1, <2>2, <1>11, <1>16, <1>20 DEF HandlesKept
  <1>22. HandlesKept(pool', ctx', handles') /\ handles' \in Seq(Returned)
    BY <1>2, <1>14, <1>21
  <1>23. QED
    BY <1>4, <1>22, HandlesAfter

-----------------------------------------------------------------------------
\* What compile reads of a block on the list of labels of a command.
LabelAt(i, j, b, x) == Chain(pool, b)[j] = x /\ Code[i].labels[j] = TextOf(pool, x)

\* The labels of a command are read along its list.
LEMMA LabelRead ==
    ASSUME Sound(Cells, pool), NEW cmds \in Seq(Commands), cmds = pool.db[ctx.script_commands].content,
           NEW i \in 1 .. Len(cmds), NEW x, OnChain(pool, cmds[i].labels, x)
    PROVE  i \in DOMAIN Code /\ \E j \in DOMAIN Code[i].labels : LabelAt(i, j, cmds[i].labels, x)
  <1>1. pool \in PoolsOf(Cells) /\ ListsEnd(pool)
    BY DEF Sound
  <1>2. PICK b \in Blocks \cup {Null} : b = cmds[i].labels
    <2>1. cmds[i] \in Commands
      BY ElementOfSeq
    <2>2. QED
      BY <2>1 DEF Commands
  <1>3. PICK list \in Seq(Blocks) : list = Chain(pool, b)
    <2>1. Blocks \in SUBSET Blocks /\ \A y \in Blocks : pool.db[y].next \in Blocks \cup {Null}
      BY <1>1, BlockTypes
    <2>2. Chain(pool, b) \in Seq(Blocks)
      BY <2>1, <1>1, ChainInside
    <2>3. QED
      BY <2>2
  <1>4. DOMAIN list = 1 .. Len(list) /\ DOMAIN cmds = 1 .. Len(cmds)
    BY LenProperties
  <1>5. i \in DOMAIN Code /\ Code[i].labels = Texts(b)
    BY <1>2, <1>4 DEF Code, Content, db
  <1>6. Texts(b) = [j \in 1 .. Len(list) |-> TextOf(pool, list[j])]
    BY <1>3, <1>4 DEF Texts
  <1>7. PICK j \in 1 .. Len(list) : list[j] = x
    BY <1>2, <1>3 DEF OnChain
  <1>8. j \in DOMAIN Code[i].labels /\ LabelAt(i, j, b, x)
    BY <1>3, <1>5, <1>6, <1>7 DEF LabelAt
  <1>9. QED
    BY <1>2, <1>5, <1>8

\* What HandleReachesLabel says of a program.
FirstReach(r) == \A k \in DOMAIN r.handles : NamesDiffer(r.handles, k) => Reaches(r, r.handles[k])

\* A handle selects the command whose list has the label.
LEMMA BuiltReaches ==
    ASSUME Sound(Cells, pool), DraftKept(pool, ctx), handles \in Seq(Returned), HandlesKept(pool, ctx, handles),
           ctx.active_labels = Null, CodedSame(pool, pool'),
           NEW r, r.code = Code, r.function_map = FunctionMap(pool'), r.handles = handles
    PROVE  FirstReach(r)
  <1>1. PICK F, s, cmds, objects, n :
          /\ F = ctx.functions /\ s = pool.db[F].store /\ cmds = pool.db[ctx.script_commands].content
          /\ objects = pool.db[s].content /\ n = Len(handles)
    OBVIOUS
  <1>2. /\ cmds \in Seq(Commands) /\ FunctionsKept(pool, F) /\ NamesKept(pool, F, handles)
    BY <1>1 DEF DraftKept, Kept, HandlesKept
  <1>3. PICK sym, last : SymbolsKept(pool, objects, cmds, Null, last, handles, sym)
    BY <1>1 DEF HandlesKept
  <1>4. /\ F \in Blocks /\ pool.db[F].type = "TABLE" /\ objects \in Seq(FunctionObjects)
        /\ pool'.db[F] = pool.db[F] /\ pool'.db[s] = pool.db[s]
    <2>1. /\ F \in Blocks /\ pool.db[F].type = "TABLE" /\ pool.db[F].persistence_code > 0
          /\ s \in Blocks /\ pool.db[s].type = "UNSPECIFIED" /\ pool.db[s].persistence_code > 0
          /\ objects \in Seq(FunctionObjects)
      BY <1>1, <1>2 DEF FunctionsKept
    <2>2. QED
      BY <2>1 DEF CodedSame, Live
  <1>5. n \in Nat /\ DOMAIN handles = 1 .. n
    BY <1>1, LenProperties
  <1>6. /\ \A j, k \in 1 .. n : sym[j] = sym[k] => j = k
        /\ \A k \in 1 .. n : Passing(pool, sym[k], "STRING") /\ pool.db[sym[k]].content = <<handles[k].name>>
    BY <1>1, <1>3 DEF SymbolsKept, SymbolKept
  <1>7. \A k \in 1 .. n : TextOf(pool, sym[k]) = handles[k].name
    <2>1. ASSUME NEW k \in 1 .. n
          PROVE  TextOf(pool, sym[k]) = handles[k].name
      <3>1. pool.db[sym[k]].type = "STRING"
        BY <1>6 DEF Passing
      <3>2. TextOf(pool, sym[k]) = Head(pool.db[sym[k]].content)
        BY <3>1 DEF TextOf
      <3>3. PICK x : x = handles[k].name
        OBVIOUS
      <3>4. Head(<<x>>) = x
        OBVIOUS
      <3>5. QED
        BY <3>2, <3>3, <3>4, <1>6
    <2>2. QED
      BY <2>1
  <1>8. \A k \in 1 .. n : \E i \in 1 .. Len(cmds) : i = objects[k].value + 1 /\ OnChain(pool, cmds[i].labels, sym[k])
    <2>1. ASSUME NEW k \in 1 .. n
          PROVE  \E i \in 1 .. Len(cmds) : i = objects[k].value + 1 /\ OnChain(pool, cmds[i].labels, sym[k])
      <3>1. /\ objects[k].value \in Nat /\ objects[k].value < Len(cmds)
            /\ OnChain(pool, cmds[objects[k].value + 1].labels, sym[k])
        BY <1>1, <1>2, <1>3, <1>4, <1>5, SymbolReached
      <3>2. Len(cmds) \in Nat
        BY <1>2, LenProperties
      <3>3. PICK i : i = objects[k].value + 1
        OBVIOUS
      <3>4. i \in 1 .. Len(cmds)
        BY <3>1, <3>2, <3>3
      <3>5. QED
        BY <3>1, <3>3, <3>4
    <2>2. QED
      BY <2>1
  <1>9. \A k \in 1 .. n : \E i \in 1 .. Len(cmds) : \E j \in DOMAIN Code[i].labels :
           i = objects[k].value + 1 /\ i \in DOMAIN Code /\ LabelAt(i, j, cmds[i].labels, sym[k])
    <2>1. ASSUME NEW k \in 1 .. n
          PROVE  \E i \in 1 .. Len(cmds) : \E j \in DOMAIN Code[i].labels :
                   i = objects[k].value + 1 /\ i \in DOMAIN Code /\ LabelAt(i, j, cmds[i].labels, sym[k])
      <3>1. PICK i \in 1 .. Len(cmds) : i = objects[k].value + 1 /\ OnChain(pool, cmds[i].labels, sym[k])
        BY <1>8
      <3>2. i \in DOMAIN Code /\ \E j \in DOMAIN Code[i].labels : LabelAt(i, j, cmds[i].labels, sym[k])
        BY <3>1, <1>1, <1>2, LabelRead
      <3>3. QED
        BY <3>1, <3>2
    <2>2. QED
      BY <2>1
  <1>10. PICK len \in Nat : len = Len(pool.db[F].content)
    BY <1>4, TableFields
  <1>11. /\ DOMAIN r.function_map = 1 .. len
         /\ \A k \in 1 .. len : r.function_map[k] = objects[k].value
    <2>1. DOMAIN pool.db[F].content = 1 .. len
      BY <1>4, <1>10, TableFields
    <2>2. FunctionMap(pool') = [k \in DOMAIN pool'.db[F].content |-> pool'.db[pool'.db[F].store].content[k].value]
      BY <1>1 DEF FunctionMap
    <2>3. pool'.db[F].store = s /\ pool'.db[s].content = objects /\ DOMAIN pool'.db[F].content = 1 .. len
      BY <2>1, <1>1, <1>4
    <2>4. PICK f : f = [k \in 1 .. len |-> objects[k].value]
      OBVIOUS
    <2>5. FunctionMap(pool') = f
      BY <2>2, <2>3, <2>4, Zenon
    <2>6. r.function_map = f
      BY <2>5
    <2>7. QED
      BY <2>4, <2>6
  <1>12. ASSUME NEW k \in 1 .. n, NamesDiffer(handles, k)
         PROVE  Reaches(r, handles[k])
    <2>1. handles[k].handle + 1 = k /\ k \in 1 .. len
      BY <1>1, <1>2, <1>10, <1>12 DEF NamesKept
    <2>2. handles[k].handle + 1 \in DOMAIN r.function_map /\ r.function_map[handles[k].handle + 1] = objects[k].value
      BY <2>1, <1>11
    <2>3. PICK i \in 1 .. Len(cmds) : \E j \in DOMAIN Code[i].labels :
             i = objects[k].value + 1 /\ LabelAt(i, j, cmds[i].labels, sym[k])
      BY <1>9
    <2>4. PICK j \in DOMAIN Code[i].labels : i = objects[k].value + 1 /\ LabelAt(i, j, cmds[i].labels, sym[k])
      BY <2>3
    <2>5. Code[i].labels[j] = handles[k].name
      BY <2>4, <1>7 DEF LabelAt
    <2>6. handles[k].name \in Range(Code[i].labels)
      BY <2>4, <2>5 DEF Range
    <2>7. r.function_map[handles[k].handle + 1] + 1 = i
      BY <2>2, <2>4
    <2>8. QED
      BY <2>2, <2>6, <2>7 DEF Reaches
  <1>13. QED
    BY <1>5, <1>12 DEF FirstReach

\* emit-build keeps the handles of the program it makes.
LEMMA HandlesBuild ==
    ASSUME HandlesSound, Build, ~Fail
    PROVE  HandlesSound'
  <1>1. ServiceSound /\ handles \in Seq(Returned) /\ Drafting /\ HandlesKept(pool, ctx, handles)
    BY DEF HandlesSound, Build
  <1>2. /\ DraftKept(pool, ctx) /\ CodedSame(pool, pool') /\ ctx.active_labels = Null
        /\ ctx' = [drafting |-> FALSE] /\ handles' = <<>> /\ ServiceSound'
    BY <1>1, BuildLeaves, BuildSound
  <1>3. PICK r : /\ programs' = Append(programs, r) /\ r.code = Code
                 /\ r.function_map = FunctionMap(pool') /\ r.handles = handles
    BY <1>1, BuildLeaves
  <1>4. FirstReach(r)
    <2>1. Sound(Cells, pool)
      BY <1>1 DEF ServiceSound
    <2>2. QED
      BY <2>1, <1>1, <1>2, <1>3, BuiltReaches
  <1>5. PICK S : programs \in Seq(S) /\ r \in S
    <2>1. PICK R : programs \in Seq(R)
      BY <1>1 DEF ServiceSound
    <2>2. programs \in Seq(R \cup {r}) /\ r \in R \cup {r}
      BY <2>1
    <2>3. QED
      BY <2>2
  <1>6. PICK n \in Nat : programs' \in Seq(S) /\ Grown(programs, programs', n, r)
    BY <1>3, <1>5, GrownByAppend
  <1>7. DOMAIN programs = 1 .. n /\ DOMAIN programs' = 1 .. n + 1
    BY <1>5, <1>6, LenProperties DEF Grown
  <1>8. \A k \in 1 .. n : FirstReach(programs[k])
    BY <1>7 DEF HandlesSound, HandleReachesLabel, FirstReach
  <1>9. \A k \in 1 .. n + 1 : FirstReach(programs'[k])
    <2>1. \A k \in 1 .. n + 1 : k \in 1 .. n \/ k = n + 1
      OBVIOUS
    <2>2. QED
      BY <2>1, <1>4, <1>6, <1>8 DEF Grown
  <1>10. HandleReachesLabel'
    BY <1>7, <1>9 DEF HandleReachesLabel, FirstReach, Reaches
  <1>11. ~Drafting' /\ handles' \in Seq(Returned)
    BY <1>2 DEF Drafting
  <1>12. QED
    BY <1>2, <1>10, <1>11 DEF HandlesSound

\* Every call keeps the handles.
LEMMA HandlesStep ==
    ASSUME HandlesSound, [Next]_vars
    PROVE  HandlesSound'
  <1>1. CASE UNCHANGED vars
    BY <1>1 DEF HandlesSound, ServiceSound, HandlesKept, NamesKept, SymbolsKept, vars, Drafting, HandleReachesLabel
  <1>2. CASE Fail
    BY <1>2, HandlesFail
  <1>3. CASE ~Fail /\ Next
    <2>1. CASE New
      BY <2>1, HandlesNew
    <2>2. CASE EndCmd
      BY <2>2, <1>3, HandlesEnd
    <2>3. CASE OperandInvalid \/ Rejected
      BY <2>3, <1>3 DEF OperandInvalid, Rejected
    <2>4. CASE Build
      BY <2>4, <1>3, HandlesBuild
    <2>5. CASE \E name \in Names : Label(name)
      BY <2>5, <1>3, HandlesLabel
    <2>6. CASE \E name \in Names : \E kind \in Kinds : Mem(kind, name)
      BY <2>6, <1>3, HandlesMem
    <2>7. CASE \E token \in Instructions \cup Operands : Cmd(token)
      BY <2>7, <1>3, HandlesCmd
    <2>8. CASE \E n \in 1 .. MaxTokens : \E tokens \in [1 .. n -> Operands] : AppendTokens(tokens)
      BY <2>8, <1>3, HandlesAppend
    <2>9. QED
      BY <1>3, <2>1, <2>2, <2>3, <2>4, <2>5, <2>6, <2>7, <2>8 DEF Next
  <1>4. QED
    BY <1>1, <1>2, <1>3

\* The handle that emit-label returned for a name selects, in the function map
\* of the program that is built, the command that carries the label, for every
\* label up to the first whose name is added again.
THEOREM HandlesReachLabels == Spec => []HandleReachesLabel
  <1>1. Init => HandlesSound
    <2> SUFFICES ASSUME Init PROVE HandlesSound
      OBVIOUS
    <2>1. ServiceSound
      BY SoundInit
    <2>2. handles = <<>> /\ programs = <<>> /\ ctx = [drafting |-> FALSE]
      BY DEF Init
    <2>3. handles \in Seq(Returned) /\ ~Drafting /\ DOMAIN programs = {}
      BY <2>2 DEF Drafting
    <2>4. QED
      BY <2>1, <2>3 DEF HandlesSound, HandleReachesLabel
  <1>2. HandlesSound /\ [Next]_vars => HandlesSound'
    BY HandlesStep
  <1>3. HandlesSound => HandleReachesLabel
    BY DEF HandlesSound
  <1>4. QED
    BY <1>1, <1>2, <1>3, PTL DEF Spec

-----------------------------------------------------------------------------
\* What a script sees of a pool: the texts on a list, the commands of a draft,
\* and what the names of its functions and of its memory stand for.
TextsIn(p, b) == [i \in 1 .. Len(Chain(p, b)) |-> TextOf(p, Chain(p, b)[i])]
CommandIn(p, command) == [labels |-> TextsIn(p, command.labels), tokens |-> TextsIn(p, command.tokens)]
CodeIn(p, b) == [i \in 1 .. Len(p.db[b].content) |-> CommandIn(p, p.db[b].content[i])]
NamesIn(p, t) == {TextOf(p, p.db[t].content[i].key) : i \in 1 .. Len(p.db[t].content)}
FunctionAt(p, t, place) == p.db[p.db[t].store].content[place].value
FunctionsIn(p, t) == [name \in NamesIn(p, t) |-> FunctionAt(p, t, Get(p, t, name))]
MemoryAt(p, l, t, place) == p.db[l].content[p.db[p.db[t].store].content[place].memblock].base_address
MemoryIn(p, l, t) == [name \in NamesIn(p, t) |-> MemoryAt(p, l, t, Get(p, t, name))]
ProgramIn(p, q) ==
    [code |-> q.code, functions |-> FunctionsIn(p, q.functions),
     memory |-> MemoryIn(p, q.memory_layout_ll, q.memory_layout_hl)]
DraftIn(p, c) ==
    [code |-> CodeIn(p, c.script_commands), pending |-> TextsIn(p, c.active_labels), functions |-> FunctionsIn(p, c.functions),
     memory |-> MemoryIn(p, c.memory_layout_ll, c.memory_layout_hl)]
OpenIn(p, b) == IF b = Null THEN <<>> ELSE TextsIn(p, p.db[b].token)
BuiltIn(p, built) == [n \in 1 .. Len(built) |-> ProgramIn(p, built[n])]

\* The lists of commands (done) and the one that still grows (open), from its
\* head to its last, are apart, and made of one type of block.
ListsDone(p, done, type) ==
    /\ done \in SUBSET Blocks
    /\ \A x \in done : p.db[x].type = type /\ p.db[x].next \in done \cup {Null}
ListOpen(p, open, head, last, type) ==
    /\ open \in SUBSET Blocks
    /\ \A x \in open : /\ p.db[x].type = type /\ p.db[x].next \in open \cup {Null}
                       /\ p.db[x].next = Null => x = last
    /\ head # Null => head \in open /\ last \in open
ListsApart(p, heads, head, last, type) ==
    \E done, open :
      /\ ListsDone(p, done, type) /\ ListOpen(p, open, head, last, type)
      /\ \A x \in done : x \notin open
      /\ heads \subseteq done \cup {Null}

\* A list is a sequence of blocks.
LEMMA ChainIsSeq ==
    ASSUME NEW p, Sound(Cells, p), NEW b \in Blocks \cup {Null}
    PROVE  /\ Chain(p, b) \in Seq(Blocks) /\ Len(Chain(p, b)) \in Nat
           /\ Chain(p, Null) = <<>>
           /\ b # Null => Chain(p, b) = <<b>> \o Chain(p, p.db[b].next)
  <1>1. p \in PoolsOf(Cells) /\ ListsEnd(p)
    BY DEF Sound
  <1>2. Blocks \in SUBSET Blocks /\ \A x \in Blocks : p.db[x].next \in Blocks \cup {Null}
    BY <1>1, BlockTypes
  <1>3. Chain(p, b) \in Seq(Blocks)
    BY <1>1, <1>2, ChainInside
  <1>4. QED
    BY <1>1, <1>3, ChainStep, LenProperties

\* The texts on a list stay as long as the list and its blocks do.
LEMMA TextsStay ==
    ASSUME NEW p, Sound(Cells, p), NEW q, Sound(Cells, q), NEW W, Touches(p, q, W),
           NEW K \in SUBSET Blocks, \A x \in K : Live(p, x) /\ p.db[x].next \in K \cup {Null} /\ x \notin W,
           NEW b \in K \cup {Null}
    PROVE  TextsIn(q, b) = TextsIn(p, b) /\ Chain(q, b) = Chain(p, b)
  <1>1. p \in PoolsOf(Cells) /\ ListsEnd(p) /\ q \in PoolsOf(Cells) /\ ListsEnd(q)
    BY DEF Sound
  <1>2. \A x \in K : p.db[x].next \in K \cup {Null} /\ q.db[x].next = p.db[x].next
    BY DEF Touches
  <1>3. Chain(q, b) = Chain(p, b)
    BY <1>1, <1>2, ChainFrame
  <1>4. PICK list \in Seq(K) : list = Chain(p, b)
    BY <1>1, <1>2, ChainInside
  <1>5. ASSUME NEW i \in 1 .. Len(list)
        PROVE  TextOf(q, list[i]) = TextOf(p, list[i])
    <2>1. list[i] \in K
      BY ElementOfSeq
    <2>2. list[i] \in Blocks /\ Live(p, list[i])
      BY <2>1
    <2>3. QED
      BY <2>2, TextStays
  <1>6. QED
    BY <1>3, <1>4, <1>5 DEF TextsIn

\* The texts of one list after those of another.
TextsJoined(p, q, b, c) == TextsIn(q, b) = TextsIn(p, b) \o TextsIn(q, c)

\* The texts on joined lists.
LEMMA TextsJoin ==
    ASSUME NEW p, Sound(Cells, p), NEW q, Sound(Cells, q), NEW W, Touches(p, q, W), NEW K \in SUBSET Blocks,
           \A x \in K : Live(p, x) /\ p.db[x].next \in K \cup {Null},
           NEW b \in K, NEW c \in Blocks, Joined(p, q, b, c)
    PROVE  TextsJoined(p, q, b, c)
  <1>1. p \in PoolsOf(Cells) /\ ListsEnd(p)
    BY DEF Sound
  <1>2. PICK s \in Seq(K) : s = Chain(p, b)
    BY <1>1, ChainInside
  <1>3. PICK t \in Seq(Blocks) : t = Chain(q, c)
    BY ChainIsSeq
  <1>4. PICK m \in Nat, n \in Nat : m = Len(s) /\ n = Len(t)
    BY LenProperties
  <1>5. PICK u : u = Chain(q, b)
    OBVIOUS
  <1>6. /\ Len(u) = m + n
        /\ \A i \in 1 .. m : u[i] = s[i]
        /\ \A i \in 1 .. n : u[m + i] = t[i]
    <2>1. s \in Seq(Blocks)
      OBVIOUS
    <2>2. u = s \o t
      BY <1>2, <1>3, <1>5 DEF Joined
    <2>3. QED
      BY <2>1, <2>2, <1>4, ConcatProperties
  <1>7. \A i \in 1 .. m : TextOf(q, s[i]) = TextOf(p, s[i])
    <2>1. ASSUME NEW i \in 1 .. m
          PROVE  TextOf(q, s[i]) = TextOf(p, s[i])
      <3>1. s[i] \in K
        BY <1>4, ElementOfSeq
      <3>2. s[i] \in Blocks /\ Live(p, s[i])
        BY <3>1
      <3>3. QED
        BY <3>2, TextStays
    <2>2. QED
      BY <2>1
  <1>8. PICK f, g, h : f = TextsIn(p, b) /\ g = TextsIn(q, c) /\ h = TextsIn(q, b)
    OBVIOUS
  <1>9. /\ f = [i \in 1 .. m |-> TextOf(p, s[i])] /\ g = [i \in 1 .. n |-> TextOf(q, t[i])]
        /\ h = [i \in 1 .. m + n |-> TextOf(q, u[i])]
    BY <1>2, <1>3, <1>4, <1>5, <1>6, <1>8 DEF TextsIn
  <1>10. PICK S : (\A i \in 1 .. m : f[i] \in S) /\ (\A i \in 1 .. n : g[i] \in S)
    <2> DEFINE T == {f[i] : i \in 1 .. m} \cup {g[i] : i \in 1 .. n}
    <2>1. (\A i \in 1 .. m : f[i] \in T) /\ (\A i \in 1 .. n : g[i] \in T)
      OBVIOUS
    <2>2. QED
      BY <2>1
  <1>11. f \in Seq(S) /\ g \in Seq(S) /\ Len(f) = m /\ Len(g) = n
    <2>1. /\ f = [i \in 1 .. m |-> f[i]] /\ g = [i \in 1 .. n |-> g[i]]
          /\ DOMAIN f = 1 .. m /\ DOMAIN g = 1 .. n
      BY <1>9
    <2>2. f \in [1 .. m -> S] /\ g \in [1 .. n -> S]
      BY <2>1, <1>10
    <2>3. QED
      BY <2>1, <2>2
  <1>12. PICK k : k = f \o g
    OBVIOUS
  <1>13. /\ k \in Seq(S) /\ Len(k) = m + n
         /\ \A i \in 1 .. m : k[i] = f[i]
         /\ \A i \in 1 .. n : k[m + i] = g[i]
    <2>1. /\ k \in Seq(S) /\ Len(k) = m + n
          /\ \A i \in 1 .. m + n : k[i] = IF i <= m THEN f[i] ELSE g[i - m]
      BY <1>11, <1>12, ConcatProperties
    <2>2. \A i \in 1 .. m : i \in 1 .. m + n /\ i <= m
      OBVIOUS
    <2>3. \A i \in 1 .. n : m + i \in 1 .. m + n /\ ~(m + i <= m) /\ (m + i) - m = i
      OBVIOUS
    <2>4. QED
      BY <2>1, <2>2, <2>3
  <1>14. \A i \in 1 .. m + n : h[i] = k[i]
    <2>1. \A i \in 1 .. m : h[i] = k[i]
      <3>1. \A i \in 1 .. m : i \in 1 .. m + n
        OBVIOUS
      <3>2. QED
        BY <3>1, <1>6, <1>7, <1>9, <1>13
    <2>2. \A i \in 1 .. n : h[m + i] = k[m + i]
      <3>1. \A i \in 1 .. n : m + i \in 1 .. m + n
        OBVIOUS
      <3>2. QED
        BY <3>1, <1>6, <1>9, <1>13
    <2>3. \A i \in 1 .. m + n : i \in 1 .. m \/ (i - m \in 1 .. n /\ i = m + (i - m))
      OBVIOUS
    <2>4. QED
      BY <2>1, <2>2, <2>3
  <1>15. h = k
    <2>1. k = [i \in 1 .. m + n |-> k[i]]
      BY <1>13
    <2>2. QED
      BY <2>1, <1>9, <1>14
  <1>16. QED
    BY <1>8, <1>12, <1>15 DEF TextsJoined

\* A list of one block.
LEMMA TextsOfOne ==
    ASSUME NEW p, Sound(Cells, p), NEW b \in Blocks, p.db[b].next = Null,
           p.db[b].type \in {"STRING", "EXTERNAL"}, NEW text, p.db[b].content = <<text>>
    PROVE  TextsIn(p, b) = <<text>>
  <1>1. p \in PoolsOf(Cells) /\ ListsEnd(p)
    BY DEF Sound
  <1>2. b # Null
    BY CapacityAssumption DEF Blocks, Null
  <1>3. Chain(p, b) = <<b>>
    <2>1. <<b>> \in Seq(Blocks)
      OBVIOUS
    <2>2. Chain(p, b) = <<b>> \o <<>>
      BY <1>1, ChainStep
    <2>3. QED
      BY <2>1, <2>2, ConcatEmptySeq
  <1>4. TextOf(p, b) = text
    BY DEF TextOf
  <1>5. TextsIn(p, b) = [i \in 1 .. 1 |-> text]
    BY <1>3, <1>4 DEF TextsIn
  <1>6. QED
    BY <1>5

\* The empty list.
LEMMA TextsOfNone ==
    ASSUME NEW p, Sound(Cells, p)
    PROVE  TextsIn(p, Null) = <<>>
  <1>1. Chain(p, Null) = <<>>
    BY ChainIsSeq
  <1>2. QED
    BY <1>1 DEF TextsIn

\* The lists of commands stay as long as their blocks do,
LEMMA DoneStays ==
    ASSUME NEW p, Sound(Cells, p), NEW q, Sound(Cells, q), NEW W, Touches(p, q, W), NEW done, NEW type,
           type # "NONE", ListsDone(p, done, type), \A x \in W : x \notin done
    PROVE  /\ ListsDone(q, done, type)
           /\ \A b \in done \cup {Null} : TextsIn(q, b) = TextsIn(p, b)
  <1>1. /\ done \in SUBSET Blocks
        /\ \A x \in done : Live(p, x) /\ p.db[x].next \in done \cup {Null} /\ x \notin W
    BY DEF ListsDone, Live
  <1>2. \A x \in done : q.db[x] = p.db[x]
    BY <1>1 DEF Touches
  <1>3. ListsDone(q, done, type)
    BY <1>2 DEF ListsDone
  <1>4. \A b \in done \cup {Null} : TextsIn(q, b) = TextsIn(p, b)
    BY <1>1, TextsStay
  <1>5. QED
    BY <1>3, <1>4

\* and so does the open one.
LEMMA OpenListStays ==
    ASSUME NEW p, Sound(Cells, p), NEW q, Sound(Cells, q), NEW W, Touches(p, q, W), NEW open, NEW type,
           NEW head, NEW last, type # "NONE", ListOpen(p, open, head, last, type), \A x \in W : x \notin open
    PROVE  ListOpen(q, open, head, last, type) /\ TextsIn(q, head) = TextsIn(p, head)
  <1>1. /\ open \in SUBSET Blocks
        /\ \A x \in open : Live(p, x) /\ p.db[x].next \in open \cup {Null} /\ x \notin W
    BY DEF ListOpen, Live
  <1>2. \A x \in open : q.db[x] = p.db[x]
    BY <1>1 DEF Touches
  <1>3. ListOpen(q, open, head, last, type)
    BY <1>2 DEF ListOpen
  <1>4. head \in open \cup {Null}
    BY DEF ListOpen
  <1>5. TextsIn(q, head) = TextsIn(p, head)
    BY <1>1, <1>4, TextsStay
  <1>6. QED
    BY <1>3, <1>5

\* What follows the blocks of a list joins them.
LEMMA ChainJoins ==
    ASSUME NEW p, Sound(Cells, p), NEW q, Sound(Cells, q), NEW A \in SUBSET Blocks, NEW last \in A,
           NEW c \in Blocks, LinkedTo(p, q, last, c),
           \A x \in A : x # last => p.db[x].next \in A /\ q.db[x].next = p.db[x].next,
           NEW b \in A
    PROVE  Joined(p, q, b, c)
  <1>1. p \in PoolsOf(Cells) /\ ListsEnd(p) /\ q \in PoolsOf(Cells) /\ ListsEnd(q)
    BY DEF Sound
  <1>2. QED
    BY <1>1, ChainLink

\* A list is linked to the end of the open one.
LEMMA OpenListGrows ==
    ASSUME NEW p, Sound(Cells, p), NEW q, Sound(Cells, q), NEW W, Touches(p, q, W), NEW open, NEW type,
           NEW head, NEW last, type # "NONE", ListOpen(p, open, head, last, type), head # Null,
           \A x \in W : x \in open => x = last,
           NEW more, NEW first, NEW end, ListOpen(q, more, first, end, type), first # Null,
           LinkedTo(p, q, last, first), \A x \in more : x \notin open
    PROVE  /\ ListOpen(q, open \cup more, head, end, type)
           /\ TextsJoined(p, q, head, first)
  <1>1. /\ open \in SUBSET Blocks /\ head \in open /\ last \in open
        /\ \A x \in open : Live(p, x) /\ p.db[x].next \in open \cup {Null}
        /\ \A x \in open : x # last => p.db[x].next \in open
    BY DEF ListOpen, Live
  <1>2. \A x \in open : q.db[x].type = type /\ (x # last => q.db[x] = p.db[x])
    BY <1>1 DEF Touches, ListOpen
  <1>3. more \in SUBSET Blocks /\ first \in more /\ end \in more /\ first \in Blocks
    BY DEF ListOpen
  <1>4. ListOpen(q, open \cup more, head, end, type)
    <2>1. ASSUME NEW x \in open \cup more
          PROVE  /\ q.db[x].type = type /\ q.db[x].next \in open \cup more \cup {Null}
                 /\ q.db[x].next = Null => x = end
      <3>1. CASE x \in more
        BY <3>1 DEF ListOpen
      <3>2. CASE x \in open /\ x # last
        <4>1. q.db[x].next \in open /\ q.db[x].next # Null
          BY <3>2, <1>1, <1>2, CapacityAssumption DEF Blocks, Null
        <4>2. QED
          BY <4>1, <3>2, <1>2
      <3>3. CASE x = last
        BY <3>3, <1>1, <1>2, <1>3 DEF LinkedTo
      <3>4. QED
        BY <3>1, <3>2, <3>3
    <2>2. QED
      BY <2>1, <1>1, <1>3 DEF ListOpen
  <1>5. Joined(p, q, head, first)
    <2>1. \A x \in open : x # last => p.db[x].next \in open /\ q.db[x].next = p.db[x].next
      BY <1>1, <1>2
    <2>2. QED
      BY <2>1, <1>1, <1>3, ChainJoins
  <1>6. TextsJoined(p, q, head, first)
    <2>1. PICK A \in SUBSET Blocks, b \in Blocks, c \in Blocks : A = open /\ b \in A /\ b = head /\ c = first
      BY <1>1, <1>3
    <2>2. /\ \A x \in A : Live(p, x) /\ p.db[x].next \in A \cup {Null}
          /\ Joined(p, q, b, c)
      BY <2>1, <1>1, <1>5
    <2>3. TextsJoined(p, q, b, c)
      BY <2>1, <2>2, TextsJoin
    <2>4. QED
      BY <2>1, <2>3
  <1>7. QED
    BY <1>4, <1>6

\* All lists through a step that touches none of their blocks,
LEMMA ListsStay ==
    ASSUME NEW p, Sound(Cells, p), NEW q, Sound(Cells, q), NEW W, Touches(p, q, W), NEW type, type # "NONE",
           NEW heads, NEW head, NEW last, ListsApart(p, heads, head, last, type),
           \A x \in W : p.db[x].type # type
    PROVE  /\ ListsApart(q, heads, head, last, type)
           /\ \A b \in heads \cup {head} : TextsIn(q, b) = TextsIn(p, b)
  <1>1. PICK done, open :
          /\ ListsDone(p, done, type) /\ ListOpen(p, open, head, last, type)
          /\ \A x \in done : x \notin open
          /\ heads \subseteq done \cup {Null}
    BY DEF ListsApart
  <1>2. \A x \in W : x \notin done /\ x \notin open
    BY <1>1 DEF ListsDone, ListOpen
  <1>3. ListsDone(q, done, type) /\ \A b \in done \cup {Null} : TextsIn(q, b) = TextsIn(p, b)
    BY <1>1, <1>2, DoneStays
  <1>4. ListOpen(q, open, head, last, type) /\ TextsIn(q, head) = TextsIn(p, head)
    BY <1>1, <1>2, OpenListStays
  <1>5. QED
    BY <1>1, <1>3, <1>4 DEF ListsApart

\* one that adds to the open list,
LEMMA ListsGrow ==
    ASSUME NEW p, Sound(Cells, p), NEW q, Sound(Cells, q), NEW W, Touches(p, q, W), NEW type, type # "NONE",
           NEW heads, NEW head, NEW last, ListsApart(p, heads, head, last, type), head # Null,
           \A x \in W : p.db[x].type = type => x = last,
           NEW more, NEW first, NEW end, ListOpen(q, more, first, end, type), first # Null,
           LinkedTo(p, q, last, first), \A x \in more : ~Live(p, x)
    PROVE  /\ ListsApart(q, heads, head, end, type)
           /\ \A b \in heads : TextsIn(q, b) = TextsIn(p, b)
           /\ TextsJoined(p, q, head, first)
  <1>1. PICK done, open :
          /\ ListsDone(p, done, type) /\ ListOpen(p, open, head, last, type)
          /\ \A x \in done : x \notin open
          /\ heads \subseteq done \cup {Null}
    BY DEF ListsApart
  <1>2. /\ last \in open /\ \A x \in done \cup open : Live(p, x) /\ p.db[x].type = type
    BY <1>1 DEF ListsDone, ListOpen, Live
  <1>3. \A x \in more : x \notin open /\ x \notin done
    BY <1>2
  <1>4. ListsDone(q, done, type) /\ \A b \in done \cup {Null} : TextsIn(q, b) = TextsIn(p, b)
    <2>1. \A x \in W : x \notin done
      BY <1>1, <1>2
    <2>2. QED
      BY <2>1, <1>1, DoneStays
  <1>5. /\ ListOpen(q, open \cup more, head, end, type)
        /\ TextsJoined(p, q, head, first)
    <2>1. \A x \in W : x \in open => x = last
      BY <1>2
    <2>2. QED
      BY <2>1, <1>1, <1>3, OpenListGrows
  <1>6. \A x \in done : x \notin open \cup more
    BY <1>1, <1>3
  <1>7. QED
    BY <1>1, <1>4, <1>5, <1>6 DEF ListsApart

\* one that begins another,
LEMMA ListsBegin ==
    ASSUME NEW p, Sound(Cells, p), NEW q, Sound(Cells, q), NEW W, Touches(p, q, W), NEW type, type # "NONE",
           NEW heads, NEW head, NEW last, ListsApart(p, heads, head, last, type),
           \A x \in W : p.db[x].type # type,
           NEW more, NEW first, NEW end, ListOpen(q, more, first, end, type), \A x \in more : ~Live(p, x)
    PROVE  /\ ListsApart(q, heads, first, end, type)
           /\ \A b \in heads : TextsIn(q, b) = TextsIn(p, b)
  <1>1. PICK done, open :
          /\ ListsDone(p, done, type) /\ ListOpen(p, open, head, last, type)
          /\ \A x \in done : x \notin open
          /\ heads \subseteq done \cup {Null}
    BY DEF ListsApart
  <1>2. \A x \in done : Live(p, x) /\ p.db[x].type = type
    BY <1>1 DEF ListsDone, Live
  <1>3. (\A x \in done : x \notin more) /\ \A x \in W : x \notin done
    BY <1>2
  <1>4. ListsDone(q, done, type) /\ \A b \in done \cup {Null} : TextsIn(q, b) = TextsIn(p, b)
    BY <1>1, <1>3, DoneStays
  <1>5. QED
    BY <1>1, <1>3, <1>4 DEF ListsApart

\* and one that makes the open list that of a command.
LEMMA ListsTaken ==
    ASSUME NEW p, NEW heads, NEW head, NEW last, NEW type, ListsApart(p, heads, head, last, type),
           NEW taken, taken \subseteq heads \cup {head}, NEW end
    PROVE  ListsApart(p, taken, Null, end, type)
  <1>1. PICK done, open :
          /\ ListsDone(p, done, type) /\ ListOpen(p, open, head, last, type)
          /\ \A x \in done : x \notin open
          /\ heads \subseteq done \cup {Null}
    BY DEF ListsApart
  <1>2. ListsDone(p, done \cup open, type)
    BY <1>1 DEF ListsDone, ListOpen
  <1>3. taken \subseteq (done \cup open) \cup {Null}
    BY <1>1 DEF ListOpen
  <1>4. ListOpen(p, {}, Null, end, type)
    BY DEF ListOpen
  <1>5. QED
    BY <1>2, <1>3, <1>4 DEF ListsApart

\* Without commands only the open list counts,
LEMMA ListsLeft ==
    ASSUME NEW p, NEW heads, NEW head, NEW last, NEW type, ListsApart(p, heads, head, last, type)
    PROVE  ListsApart(p, {}, head, last, type)
  BY DEF ListsApart

\* and there may be none.
LEMMA NoLists ==
    ASSUME NEW p, NEW last, NEW type
    PROVE  ListsApart(p, {}, Null, last, type)
  <1>1. ListsDone(p, {}, type) /\ ListOpen(p, {}, Null, last, type)
    BY DEF ListsDone, ListOpen
  <1>2. QED
    BY <1>1 DEF ListsApart

\* What a table has under a name is in one of its fields.
LEMMA NameFound ==
    ASSUME NEW p, Sound(Cells, p), NEW t \in Blocks, p.db[t].type = "TABLE", NEW text \in NamesIn(p, t)
    PROVE  Has(p, t, text) /\ \E i \in 1 .. Len(p.db[t].content) : Get(p, t, text) = p.db[t].content[i].value
  <1>1. DOMAIN p.db[t].content = 1 .. Len(p.db[t].content)
    BY TableFields
  <1>2. FieldsWith(p, t, text) # {} /\ FieldsWith(p, t, text) \subseteq 1 .. Len(p.db[t].content)
    BY <1>1 DEF NamesIn, FieldsWith
  <1>3. PICK i \in 1 .. Len(p.db[t].content) : i = CHOOSE j \in FieldsWith(p, t, text) : TRUE
    BY <1>2
  <1>4. QED
    BY <1>2, <1>3 DEF Has, Get

\* The names of a table that is not touched.
LEMMA NamesUntouched ==
    ASSUME NEW p, Sound(Cells, p), NEW q, NEW W, Touches(p, q, W), NEW t \in Blocks, p.db[t].type = "TABLE",
           t \notin W
    PROVE  NamesIn(q, t) = NamesIn(p, t) /\ \A text : Get(q, t, text) = Get(p, t, text)
  <1>1. q.db[t] = p.db[t]
    BY DEF Touches, Live
  <1>2. \A i \in 1 .. Len(p.db[t].content) : TextOf(q, p.db[t].content[i].key) = TextOf(p, p.db[t].content[i].key)
    <2>1. \A i \in 1 .. Len(p.db[t].content) : p.db[t].content[i].key \in Blocks /\ Live(p, p.db[t].content[i].key)
      BY TableFields
    <2>2. QED
      BY <2>1, TextStays
  <1>3. NamesIn(q, t) = NamesIn(p, t)
    BY <1>1, <1>2 DEF NamesIn
  <1>4. ASSUME NEW text PROVE Get(q, t, text) = Get(p, t, text)
    <2>1. FieldsWith(q, t, text) = FieldsWith(p, t, text)
      BY <1>1, HasStays
    <2>2. QED
      BY <1>1, <2>1 DEF Get
  <1>5. QED
    BY <1>3, <1>4

\* Names may come to a table, one at a time.
NameAdded(names, more, name) == more = names \cup {name}

\* After a put the table has one name more, or the same ones, and a new value
\* under the name.
LEMMA FieldsAfterPut ==
    ASSUME NEW p, Sound(Cells, p), NEW q, Sound(Cells, q), NEW W, Touches(p, q, W),
           NEW F \in Blocks, p.db[F].type = "TABLE", NEW name, NEW place, FieldPut(p, q, F, name, place)
    PROVE  /\ NameAdded(NamesIn(p, F), NamesIn(q, F), name)
           /\ Get(q, F, name) = place
           /\ \A text \in NamesIn(p, F) : text # name => Get(q, F, text) = Get(p, F, text)
  <1>1. PICK old, new : old = p.db[F].content /\ new = q.db[F].content
    OBVIOUS
  <1>2. q.db[F].type = "TABLE" /\ DOMAIN new = 1 .. Len(new)
    <2>1. q.db[F].type = "TABLE"
      BY DEF Touches, Live
    <2>2. QED
      BY <2>1, <1>1, TableFields
  <1>3. /\ old \in Seq(Fields) /\ Len(old) \in Nat /\ DOMAIN old = 1 .. Len(old)
        /\ \A j \in 1 .. Len(old) : old[j].key \in Blocks /\ Live(p, old[j].key)
    BY <1>1, TableFields
  <1>4. \A j \in 1 .. Len(old) : TextOf(q, old[j].key) = TextOf(p, old[j].key)
    BY <1>3, TextStays
  <1>5. /\ NamesIn(p, F) = {TextOf(p, old[j].key) : j \in 1 .. Len(old)}
        /\ NamesIn(q, F) = {TextOf(q, new[j].key) : j \in 1 .. Len(new)}
    BY <1>1 DEF NamesIn
  <1>6. \A text : /\ FieldsWith(p, F, text) = {j \in 1 .. Len(old) : TextOf(p, old[j].key) = text}
                  /\ FieldsWith(q, F, text) = {j \in 1 .. Len(new) : TextOf(q, new[j].key) = text}
    BY <1>1, <1>2, <1>3 DEF FieldsWith
  <1>7. CASE Has(p, F, name)
    <2>1. PICK i \in FieldsWith(p, F, name) :
             /\ i = CHOOSE j \in FieldsWith(p, F, name) : TRUE
             /\ i \in 1 .. Len(old) /\ Len(new) = Len(old)
             /\ \A j \in 1 .. Len(old) :
                  new[j] = IF j = i THEN [key |-> old[i].key, value |-> place] ELSE old[j]
      BY <1>1, <1>7 DEF FieldPut
    <2>2. /\ new[i].value = place /\ \A j \in 1 .. Len(old) : j # i => new[j] = old[j]
          /\ \A j \in 1 .. Len(old) : new[j].key = old[j].key
      <3>1. PICK e : e = [key |-> old[i].key, value |-> place]
        OBVIOUS
      <3>2. i \in 1 .. Len(old) /\ \A j \in 1 .. Len(old) : new[j] = IF j = i THEN e ELSE old[j]
        BY <2>1, <3>1
      <3>3. e.key = old[i].key /\ e.value = place
        BY <3>1
      <3>4. QED
        BY <3>2, <3>3
    <2>2a. \A j \in 1 .. Len(old) : TextOf(q, new[j].key) = TextOf(p, old[j].key)
      BY <2>2, <1>4
    <2>3. \A text : FieldsWith(q, F, text) = FieldsWith(p, F, text)
      <3>1. ASSUME NEW text PROVE FieldsWith(q, F, text) = FieldsWith(p, F, text)
        <4>1. Len(new) = Len(old)
          BY <2>1
        <4>2. \A j : j \in FieldsWith(q, F, text) <=> j \in FieldsWith(p, F, text)
          BY <4>1, <2>2a, <1>6
        <4>3. QED
          BY <4>2
      <3>2. QED
        BY <3>1
    <2>4. NamesIn(q, F) = NamesIn(p, F) /\ name \in NamesIn(p, F)
      <3>1. TextOf(p, old[i].key) = name
        BY <2>1, <1>6
      <3>2. QED
        BY <3>1, <2>1, <2>2a, <1>5
    <2>5. Get(q, F, name) = place
      <3>1. i = CHOOSE j \in FieldsWith(q, F, name) : TRUE
        BY <2>1, <2>3
      <3>2. QED
        BY <3>1, <2>2, <1>1 DEF Get
    <2>6. ASSUME NEW text \in NamesIn(p, F), text # name
          PROVE  Get(q, F, text) = Get(p, F, text)
      <3>1. FieldsWith(p, F, text) # {}
        BY <1>5, <1>6
      <3>2. PICK k \in FieldsWith(p, F, text) : k = CHOOSE j \in FieldsWith(p, F, text) : TRUE
        BY <3>1
      <3>3. k \in 1 .. Len(old) /\ k # i
        BY <3>2, <2>1, <2>6, <1>6
      <3>4. new[k] = old[k]
        BY <3>3, <2>2
      <3>5. Get(p, F, text) = old[k].value /\ Get(q, F, text) = new[k].value
        <4>1. k = CHOOSE j \in FieldsWith(q, F, text) : TRUE
          BY <3>2, <2>3
        <4>2. QED
          BY <4>1, <3>2, <1>1 DEF Get
      <3>6. QED
        BY <3>4, <3>5
    <2>7. QED
      BY <2>4, <2>5, <2>6 DEF NameAdded
  <1>8. CASE ~Has(p, F, name)
    <2>1. PICK key \in Blocks : TextOf(q, key) = name /\ new = Append(old, [key |-> key, value |-> place])
      BY <1>1, <1>8 DEF FieldPut
    <2>2. PICK e : e = [key |-> key, value |-> place]
      OBVIOUS
    <2>3. /\ Len(new) = Len(old) + 1 /\ new[Len(old) + 1] = e
          /\ \A j \in 1 .. Len(old) : new[j] = old[j]
      <3>1. old \in Seq(Fields \cup {e}) /\ e \in Fields \cup {e}
        BY <1>3
      <3>2. new = Append(old, e)
        BY <2>1, <2>2
      <3>3. QED
        BY <3>1, <3>2, <1>3, AppendProperties
    <2>4. e.key = key /\ e.value = place
      BY <2>2
    <2>5. PICK n \in Nat : n = Len(old)
      BY <1>3
    <2>6. /\ \A j \in 1 .. n : TextOf(q, new[j].key) = TextOf(p, old[j].key)
          /\ TextOf(q, new[n + 1].key) = name /\ new[n + 1].value = place /\ Len(new) = n + 1
          /\ \A j \in 1 .. n + 1 : j \in 1 .. n \/ j = n + 1
          /\ n + 1 \in 1 .. n + 1 /\ n + 1 \notin 1 .. n /\ \A j \in 1 .. n : j \in 1 .. n + 1
      BY <2>1, <2>3, <2>4, <2>5, <1>4
    <2>7. NameAdded(NamesIn(p, F), NamesIn(q, F), name)
      <3>1. \A text : text \in NamesIn(q, F) <=> text \in NamesIn(p, F) \/ text = name
        BY <2>5, <2>6, <1>5
      <3>2. QED
        BY <3>1 DEF NameAdded
    <2>8. \A j \in 1 .. n : TextOf(p, old[j].key) # name
      BY <1>6, <1>8, <2>5 DEF Has
    <2>9. FieldsWith(q, F, name) = {n + 1}
      <3>1. \A j : j \in FieldsWith(q, F, name) <=> j = n + 1
        BY <2>6, <2>8, <1>6
      <3>2. QED
        BY <3>1
    <2>10. Get(q, F, name) = place
      BY <2>6, <2>9, <1>1 DEF Get
    <2>11. ASSUME NEW text \in NamesIn(p, F), text # name
           PROVE  Get(q, F, text) = Get(p, F, text)
      <3>1. \A j : j \in FieldsWith(q, F, text) <=> j \in FieldsWith(p, F, text)
        BY <2>5, <2>6, <2>11, <1>6
      <3>2. FieldsWith(q, F, text) = FieldsWith(p, F, text)
        BY <3>1
      <3>3. FieldsWith(p, F, text) # {}
        BY <1>5, <1>6
      <3>4. PICK k \in FieldsWith(p, F, text) : k = CHOOSE j \in FieldsWith(p, F, text) : TRUE
        BY <3>3
      <3>5. k \in 1 .. n
        BY <3>4, <2>5, <1>6
      <3>6. new[k] = old[k]
        BY <3>5, <2>3, <2>5
      <3>7. Get(p, F, text) = old[k].value /\ Get(q, F, text) = new[k].value
        BY <3>2, <3>4, <1>1 DEF Get
      <3>8. QED
        BY <3>6, <3>7
    <2>12. QED
      BY <2>7, <2>10, <2>11
  <1>9. QED
    BY <1>7, <1>8

\* Names that stand for the same.
NamesSame(p, q, t) == NamesIn(q, t) = NamesIn(p, t) /\ \A text : Get(q, t, text) = Get(p, t, text)

\* What the functions of a program stand for is in the table and its store,
LEMMA FunctionsSame ==
    ASSUME NEW p, NEW q, NEW t, NamesSame(p, q, t), NEW s, HasStore(p, t, s), HasStore(q, t, s),
           q.db[s] = p.db[s]
    PROVE  FunctionsIn(q, t) = FunctionsIn(p, t)
  <1>1. NamesIn(q, t) = NamesIn(p, t)
    BY DEF NamesSame
  <1>2. \A name : FunctionAt(q, t, Get(q, t, name)) = FunctionAt(p, t, Get(p, t, name))
    BY DEF NamesSame, HasStore, FunctionAt
  <1>3. QED
    BY <1>1, <1>2 DEF FunctionsIn

\* and what the names of its memory stand for in the layouts.
LEMMA MemorySame ==
    ASSUME NEW p, NEW q, NEW l, NEW t, NamesSame(p, q, t), NEW s, HasStore(p, t, s), HasStore(q, t, s),
           q.db[s] = p.db[s], q.db[l] = p.db[l]
    PROVE  MemoryIn(q, l, t) = MemoryIn(p, l, t)
  <1>1. NamesIn(q, t) = NamesIn(p, t)
    BY DEF NamesSame
  <1>2. \A name : MemoryAt(q, l, t, Get(q, t, name)) = MemoryAt(p, l, t, Get(p, t, name))
    BY DEF NamesSame, HasStore, MemoryAt
  <1>3. QED
    BY <1>1, <1>2 DEF MemoryIn

\* Both stay through a step that does not touch these blocks,
LEMMA FunctionsUntouched ==
    ASSUME NEW p, Sound(Cells, p), NEW q, NEW W, Touches(p, q, W), NEW t, FunctionsKept(p, t),
           t \notin W, p.db[t].store \notin W
    PROVE  FunctionsIn(q, t) = FunctionsIn(p, t)
  <1>1. PICK s : HasStore(p, t, s)
    BY DEF HasStore
  <1>2. /\ t \in Blocks /\ p.db[t].type = "TABLE" /\ Live(p, t)
        /\ s \in Blocks /\ Live(p, s) /\ s \notin W
    BY <1>1 DEF FunctionsKept, Live, HasStore
  <1>3. q.db[t] = p.db[t] /\ q.db[s] = p.db[s]
    BY <1>2 DEF Touches
  <1>4. NamesSame(p, q, t)
    BY <1>2, NamesUntouched DEF NamesSame
  <1>5. HasStore(q, t, s)
    BY <1>1, <1>3 DEF HasStore
  <1>6. QED
    BY <1>1, <1>3, <1>4, <1>5, FunctionsSame

LEMMA MemoryUntouched ==
    ASSUME NEW p, Sound(Cells, p), NEW q, NEW W, Touches(p, q, W), NEW l, NEW t, LayoutsKept(p, l, t),
           l \notin W, t \notin W, p.db[t].store \notin W
    PROVE  MemoryIn(q, l, t) = MemoryIn(p, l, t)
  <1>1. PICK s : HasStore(p, t, s)
    BY DEF HasStore
  <1>2. /\ t \in Blocks /\ p.db[t].type = "TABLE" /\ Live(p, t)
        /\ s \in Blocks /\ Live(p, s) /\ s \notin W
        /\ l \in Blocks /\ Live(p, l)
    BY <1>1 DEF LayoutsKept, Live, HasStore
  <1>3. q.db[t] = p.db[t] /\ q.db[s] = p.db[s] /\ q.db[l] = p.db[l]
    BY <1>2 DEF Touches
  <1>4. NamesSame(p, q, t)
    BY <1>2, NamesUntouched DEF NamesSame
  <1>5. HasStore(q, t, s)
    BY <1>1, <1>3 DEF HasStore
  <1>6. QED
    BY <1>1, <1>3, <1>4, <1>5, MemorySame

\* so that the maps of a program do, or of a draft.
MapsStay(p, q, r) ==
    /\ FunctionsIn(q, r.functions) = FunctionsIn(p, r.functions)
    /\ MemoryIn(q, r.memory_layout_ll, r.memory_layout_hl) = MemoryIn(p, r.memory_layout_ll, r.memory_layout_hl)
LEMMA MapsUntouched ==
    ASSUME NEW p, Sound(Cells, p), NEW q, NEW W, Touches(p, q, W), NEW r, Kept(p, r), Holds(p, r) \cap W = {}
    PROVE  MapsStay(p, q, r)
  <1>1. FunctionsIn(q, r.functions) = FunctionsIn(p, r.functions)
    <2>1. FunctionsKept(p, r.functions) /\ r.functions \notin W /\ p.db[r.functions].store \notin W
      BY DEF Kept, Holds
    <2>2. QED
      BY <2>1, FunctionsUntouched
  <1>2. MemoryIn(q, r.memory_layout_ll, r.memory_layout_hl) = MemoryIn(p, r.memory_layout_ll, r.memory_layout_hl)
    <2>1. /\ LayoutsKept(p, r.memory_layout_ll, r.memory_layout_hl)
          /\ r.memory_layout_ll \notin W /\ r.memory_layout_hl \notin W /\ p.db[r.memory_layout_hl].store \notin W
      BY DEF Kept, Holds
    <2>2. QED
      BY <2>1, MemoryUntouched
  <1>3. QED
    BY <1>1, <1>2 DEF MapsStay

\* A cull keeps them too: what they need has a code.
LEMMA NamesCoded ==
    ASSUME NEW p, Sound(Cells, p), NEW q, CodedSame(p, q), NEW t \in Blocks, p.db[t].type = "TABLE",
           p.db[t].persistence_code > 0
    PROVE  NamesSame(p, q, t)
  <1>1. q.db[t] = p.db[t]
    BY DEF CodedSame, Live
  <1>2. /\ DOMAIN p.db[t].content = 1 .. Len(p.db[t].content)
        /\ \A i \in 1 .. Len(p.db[t].content) :
             TextOf(q, p.db[t].content[i].key) = TextOf(p, p.db[t].content[i].key)
    <2>1. p \in PoolsOf(Cells) /\ p.db[t].persistence_code \in Nat
      BY BlockTypes DEF Sound
    <2>2. /\ DOMAIN p.db[t].content = 1 .. Len(p.db[t].content)
          /\ \A i \in 1 .. Len(p.db[t].content) :
               LET key == p.db[t].content[i].key
               IN  key \in Blocks /\ Live(p, key) /\ p.db[key].persistence_code >= p.db[t].persistence_code
      BY TableFields
    <2>3. ASSUME NEW i \in 1 .. Len(p.db[t].content)
          PROVE  q.db[p.db[t].content[i].key] = p.db[p.db[t].content[i].key]
      <3>1. PICK key : key = p.db[t].content[i].key
        OBVIOUS
      <3>2. key \in Blocks /\ Live(p, key) /\ p.db[key].persistence_code >= p.db[t].persistence_code
        BY <2>2, <3>1
      <3>3. p.db[key].persistence_code \in Nat
        BY <2>1, <3>2, BlockTypes
      <3>4. p.db[key].persistence_code > 0
        BY <2>1, <3>2, <3>3
      <3>5. q.db[key] = p.db[key]
        BY <3>2, <3>4 DEF CodedSame
      <3>6. QED
        BY <3>1, <3>5
    <2>4. QED
      BY <2>2, <2>3 DEF TextOf
  <1>3. NamesIn(q, t) = NamesIn(p, t)
    BY <1>1, <1>2 DEF NamesIn
  <1>4. ASSUME NEW text PROVE Get(q, t, text) = Get(p, t, text)
    <2>1. FieldsWith(q, t, text) = FieldsWith(p, t, text)
      BY <1>1, <1>2 DEF FieldsWith
    <2>2. QED
      BY <1>1, <2>1 DEF Get
  <1>5. QED
    BY <1>3, <1>4 DEF NamesSame
LEMMA MapsCoded ==
    ASSUME NEW p, Sound(Cells, p), NEW q, CodedSame(p, q), NEW r, Kept(p, r)
    PROVE  MapsStay(p, q, r)
  <1>1. PICK F, s, l, t, u : /\ F = r.functions /\ HasStore(p, F, s)
                             /\ l = r.memory_layout_ll /\ t = r.memory_layout_hl /\ HasStore(p, t, u)
    BY DEF HasStore
  <1>2. \A b \in {F, s, l, t, u} : b \in Blocks /\ Live(p, b) /\ p.db[b].persistence_code > 0
    BY <1>1, HoldsLive DEF Holds, HasStore
  <1>3. \A b \in {F, s, l, t, u} : q.db[b] = p.db[b]
    BY <1>2 DEF CodedSame
  <1>4. p.db[F].type = "TABLE" /\ p.db[t].type = "TABLE"
    BY <1>1 DEF Kept, FunctionsKept, LayoutsKept
  <1>5. NamesSame(p, q, F) /\ NamesSame(p, q, t)
    BY <1>2, <1>4, NamesCoded
  <1>6. HasStore(q, F, s) /\ HasStore(q, t, u)
    BY <1>1, <1>3 DEF HasStore
  <1>7. FunctionsIn(q, F) = FunctionsIn(p, F)
    BY <1>1, <1>3, <1>5, <1>6, FunctionsSame
  <1>8. MemoryIn(q, l, t) = MemoryIn(p, l, t)
    BY <1>1, <1>3, <1>5, <1>6, MemorySame
  <1>9. QED
    BY <1>1, <1>7, <1>8 DEF MapsStay

\* A map with a value for one name more, or with a new one for the name.
MapAdded(names, f, g, name, value) ==
    /\ f = [x \in names |-> f[x]]
    /\ g = [x \in names \cup {name} |-> IF x = name THEN value ELSE f[x]]
LEMMA MapAddedIsWith ==
    ASSUME NEW names, NEW f, NEW g, NEW name, NEW value, MapAdded(names, f, g, name, value)
    PROVE  g = Emitted!With(f, name, value)
  <1>1. DOMAIN f = names
    BY DEF MapAdded
  <1>2. QED
    BY <1>1 DEF MapAdded, Emitted!With

\* An object is the last of the container that it is added to.
Objects(p, b, S) == p.db[b].content \in Seq(S)
Extended(p, q, b, object, place) ==
    /\ q.db[b].content[place] = object
    /\ \A i \in 1 .. Len(p.db[b].content) : q.db[b].content[i] = p.db[b].content[i]
LEMMA AddedAt ==
    ASSUME NEW p, NEW q, NEW b, NEW S, Objects(p, b, S), NEW object, Added(p, q, b, object),
           NEW place, Past(p.db[b].content, place)
    PROVE  Extended(p, q, b, object, place)
  <1>1. PICK old, new : old = p.db[b].content /\ new = q.db[b].content
    OBVIOUS
  <1>2. old \in Seq(S \cup {object}) /\ object \in S \cup {object} /\ new = Append(old, object)
    BY <1>1 DEF Added, Objects
  <1>3. Len(old) \in Nat /\ Len(new) = Len(old) + 1 /\ new[Len(old) + 1] = object
        /\ \A i \in 1 .. Len(old) : new[i] = old[i]
    BY <1>2, AppendProperties, LenProperties
  <1>4. QED
    BY <1>1, <1>3 DEF Past, Extended

\* A put of a function: its name stands for the object added to the store.
LEMMA FunctionAdded ==
    ASSUME NEW p, Sound(Cells, p), NEW q, Sound(Cells, q), NEW W, Touches(p, q, W), NEW F, FunctionsKept(p, F),
           NEW s, HasStore(p, F, s), NEW object, Added(p, q, s, object),
           NEW place, Past(p.db[s].content, place), NEW name, FieldPut(p, q, F, name, place)
    PROVE  FunctionsIn(q, F) = Emitted!With(FunctionsIn(p, F), name, object.value)
  <1>1. /\ F \in Blocks /\ p.db[F].type = "TABLE" /\ s = p.db[F].store /\ q.db[F].store = s
        /\ p.db[s].content \in Seq(FunctionObjects)
        /\ \A i \in 1 .. Len(p.db[F].content) : p.db[F].content[i].value \in 1 .. Len(p.db[s].content)
    BY DEF FunctionsKept, HasStore, Touches, Live
  <1>2. /\ q.db[s].content[place] = object
        /\ \A i \in 1 .. Len(p.db[s].content) : q.db[s].content[i] = p.db[s].content[i]
    <2>1. Objects(p, s, FunctionObjects)
      BY <1>1 DEF Objects
    <2>2. Extended(p, q, s, object, place)
      BY <2>1, AddedAt
    <2>3. QED
      BY <2>2 DEF Extended
  <1>3. /\ NameAdded(NamesIn(p, F), NamesIn(q, F), name)
        /\ Get(q, F, name) = place
        /\ \A text \in NamesIn(p, F) : text # name => Get(q, F, text) = Get(p, F, text)
    BY <1>1, FieldsAfterPut
  <1>4. PICK f, g, names : f = FunctionsIn(p, F) /\ g = FunctionsIn(q, F) /\ names = NamesIn(p, F)
    OBVIOUS
  <1>5. /\ f = [x \in names |-> FunctionAt(p, F, Get(p, F, x))]
        /\ g = [x \in names \cup {name} |-> FunctionAt(q, F, Get(q, F, x))]
    BY <1>3, <1>4 DEF FunctionsIn, NameAdded
  <1>6. FunctionAt(q, F, Get(q, F, name)) = object.value
    BY <1>1, <1>2, <1>3 DEF FunctionAt
  <1>7. ASSUME NEW x \in names, x # name
        PROVE  FunctionAt(q, F, Get(q, F, x)) = FunctionAt(p, F, Get(p, F, x))
    <2>1. PICK i \in 1 .. Len(p.db[F].content) : Get(p, F, x) = p.db[F].content[i].value
      BY <1>1, <1>4, NameFound
    <2>2. PICK k \in 1 .. Len(p.db[s].content) : k = Get(p, F, x) /\ k = Get(q, F, x)
      BY <2>1, <1>1, <1>3, <1>4, <1>7
    <2>3. QED
      BY <2>2, <1>1, <1>2 DEF FunctionAt
  <1>8. MapAdded(names, f, g, name, object.value)
    <2>1. \A x \in names \cup {name} :
            FunctionAt(q, F, Get(q, F, x)) = IF x = name THEN object.value ELSE f[x]
      BY <1>5, <1>6, <1>7
    <2>2. g = [x \in names \cup {name} |-> IF x = name THEN object.value ELSE f[x]]
      BY <1>5, <2>1
    <2>3. f = [x \in names |-> f[x]]
      BY <1>5
    <2>4. QED
      BY <2>2, <2>3 DEF MapAdded
  <1>9. QED
    BY <1>4, <1>8, MapAddedIsWith

\* A declaration of memory: its name stands for the layout that is added.
LEMMA MemoryAdded ==
    ASSUME NEW p, Sound(Cells, p), NEW q, Sound(Cells, q), NEW W, Touches(p, q, W), NEW l, NEW t,
           LayoutsKept(p, l, t), NEW s, HasStore(p, t, s), NEW kind, NEW name, NEW low, NEW high, NEW place,
           DeclaredAs(p, q, l, t, s, kind, name, low, high, place)
    PROVE  MemoryIn(q, l, t) = Emitted!With(MemoryIn(p, l, t), name, Base[kind])
  <1>1. /\ t \in Blocks /\ p.db[t].type = "TABLE" /\ s = p.db[t].store /\ q.db[t].store = s
        /\ p.db[s].content \in Seq(HighLayouts) /\ p.db[l].content \in Seq(LowLayouts)
        /\ \A i \in 1 .. Len(p.db[t].content) : p.db[t].content[i].value \in 1 .. Len(p.db[s].content)
        /\ \A i \in 1 .. Len(p.db[s].content) : p.db[s].content[i].memblock \in 1 .. Len(p.db[l].content)
    BY DEF LayoutsKept, HasStore, Touches, Live
  <1>2. /\ low.base_address = Base[kind] /\ Past(p.db[l].content, high.memblock)
        /\ Added(p, q, l, low) /\ Added(p, q, s, high)
        /\ Past(p.db[s].content, place) /\ FieldPut(p, q, t, name, place)
    BY DEF DeclaredAs, Past
  <1>3. /\ q.db[s].content[place] = high
        /\ \A i \in 1 .. Len(p.db[s].content) : q.db[s].content[i] = p.db[s].content[i]
    <2>1. Objects(p, s, HighLayouts)
      BY <1>1 DEF Objects
    <2>2. Extended(p, q, s, high, place)
      BY <2>1, <1>2, AddedAt
    <2>3. QED
      BY <2>2 DEF Extended
  <1>4. /\ q.db[l].content[high.memblock] = low
        /\ \A i \in 1 .. Len(p.db[l].content) : q.db[l].content[i] = p.db[l].content[i]
    <2>1. Objects(p, l, LowLayouts)
      BY <1>1 DEF Objects
    <2>2. Extended(p, q, l, low, high.memblock)
      BY <2>1, <1>2, AddedAt
    <2>3. QED
      BY <2>2 DEF Extended
  <1>5. /\ NameAdded(NamesIn(p, t), NamesIn(q, t), name)
        /\ Get(q, t, name) = place
        /\ \A text \in NamesIn(p, t) : text # name => Get(q, t, text) = Get(p, t, text)
    <2>1. t \in Blocks /\ p.db[t].type = "TABLE"
      BY <1>1
    <2>2. FieldPut(p, q, t, name, place)
      BY <1>2
    <2>3. QED
      BY <2>1, <2>2, FieldsAfterPut
  <1>6. PICK f, g, names : f = MemoryIn(p, l, t) /\ g = MemoryIn(q, l, t) /\ names = NamesIn(p, t)
    OBVIOUS
  <1>7. /\ f = [x \in names |-> MemoryAt(p, l, t, Get(p, t, x))]
        /\ g = [x \in names \cup {name} |-> MemoryAt(q, l, t, Get(q, t, x))]
    BY <1>5, <1>6 DEF MemoryIn, NameAdded
  <1>8. MemoryAt(q, l, t, Get(q, t, name)) = Base[kind]
    BY <1>1, <1>2, <1>3, <1>4, <1>5 DEF MemoryAt
  <1>9. ASSUME NEW x \in names, x # name
        PROVE  MemoryAt(q, l, t, Get(q, t, x)) = MemoryAt(p, l, t, Get(p, t, x))
    <2>1. PICK i \in 1 .. Len(p.db[t].content) : Get(p, t, x) = p.db[t].content[i].value
      BY <1>1, <1>6, NameFound
    <2>2. PICK k \in 1 .. Len(p.db[s].content) : k = Get(p, t, x) /\ k = Get(q, t, x)
      BY <2>1, <1>1, <1>5, <1>6, <1>9
    <2>3. q.db[s].content[k] = p.db[s].content[k] /\ p.db[s].content[k].memblock \in 1 .. Len(p.db[l].content)
      BY <1>1, <1>3
    <2>4. QED
      BY <2>2, <2>3, <1>1, <1>4 DEF MemoryAt
  <1>10. MapAdded(names, f, g, name, Base[kind])
    <2>1. \A x \in names \cup {name} :
            MemoryAt(q, l, t, Get(q, t, x)) = IF x = name THEN Base[kind] ELSE f[x]
      BY <1>7, <1>8, <1>9
    <2>2. g = [x \in names \cup {name} |-> IF x = name THEN Base[kind] ELSE f[x]]
      BY <1>7, <2>1
    <2>3. f = [x \in names |-> f[x]]
      BY <1>7
    <2>4. QED
      BY <2>2, <2>3 DEF MapAdded
  <1>11. QED
    BY <1>6, <1>10, MapAddedIsWith

\* A sequence with one element more.
IsAppend(f, g, n, e) ==
    /\ f = [i \in 1 .. n |-> f[i]] /\ g = [i \in 1 .. n + 1 |-> g[i]]
    /\ \A i \in 1 .. n : g[i] = f[i]
    /\ g[n + 1] = e
LEMMA IsAppended ==
    ASSUME NEW f, NEW g, NEW n \in Nat, NEW e, IsAppend(f, g, n, e)
    PROVE  g = Append(f, e) /\ Len(f) = n
  <1>1. /\ f = [i \in 1 .. n |-> f[i]] /\ g = [i \in 1 .. n + 1 |-> g[i]]
        /\ \A i \in 1 .. n : g[i] = f[i]
        /\ g[n + 1] = e
    BY DEF IsAppend
  <1> DEFINE S == {f[i] : i \in 1 .. n} \cup {e}
  <1>2. f \in Seq(S) /\ Len(f) = n /\ e \in S
    <2>1. f \in [1 .. n -> S]
      <3>1. \A i \in 1 .. n : f[i] \in S
        OBVIOUS
      <3>2. QED
        BY <1>1, <3>1
    <2>2. QED
      BY <2>1
  <1> HIDE DEF S
  <1>3. PICK h : h = Append(f, e)
    OBVIOUS
  <1>4. h \in Seq(S) /\ Len(h) = n + 1 /\ h[n + 1] = e /\ \A i \in 1 .. n : h[i] = f[i]
    BY <1>2, <1>3, AppendProperties
  <1>5. h = [i \in 1 .. n + 1 |-> h[i]]
    BY <1>4
  <1>6. \A i \in 1 .. n + 1 : h[i] = g[i]
    <2>1. \A i \in 1 .. n + 1 : i \in 1 .. n \/ i = n + 1
      OBVIOUS
    <2>2. QED
      BY <2>1, <1>1, <1>4
  <1>7. g = h
    BY <1>1, <1>5, <1>6
  <1>8. QED
    BY <1>2, <1>3, <1>7

\* Where the lists of the commands of a draft begin.
LabelHeads(p, b) == {p.db[b].content[i].labels : i \in 1 .. Len(p.db[b].content)}
TokenHeads(p, b) == {p.db[b].content[i].tokens : i \in 1 .. Len(p.db[b].content)}
TextsSame(p, q, heads) == \A b \in heads : TextsIn(q, b) = TextsIn(p, b)

\* The commands of a draft stay,
LEMMA CodeUntouched ==
    ASSUME NEW p, NEW q, NEW b, q.db[b].content = p.db[b].content,
           TextsSame(p, q, LabelHeads(p, b)), TextsSame(p, q, TokenHeads(p, b))
    PROVE  CodeIn(q, b) = CodeIn(p, b) /\ LabelHeads(q, b) = LabelHeads(p, b) /\ TokenHeads(q, b) = TokenHeads(p, b)
  <1>1. LabelHeads(q, b) = LabelHeads(p, b) /\ TokenHeads(q, b) = TokenHeads(p, b)
    BY DEF LabelHeads, TokenHeads
  <1>2. \A i \in 1 .. Len(p.db[b].content) : CommandIn(q, q.db[b].content[i]) = CommandIn(p, p.db[b].content[i])
    BY DEF TextsSame, LabelHeads, TokenHeads, CommandIn
  <1>3. CodeIn(q, b) = CodeIn(p, b)
    BY <1>2 DEF CodeIn
  <1>4. QED
    BY <1>1, <1>3

\* or one is added.
LEMMA CodeAdded ==
    ASSUME NEW p, NEW q, NEW b, Objects(p, b, Commands), NEW object \in Commands, Added(p, q, b, object),
           TextsSame(p, q, LabelHeads(p, b)), TextsSame(p, q, TokenHeads(p, b))
    PROVE  /\ CodeIn(q, b) = Append(CodeIn(p, b), CommandIn(q, object))
           /\ LabelHeads(q, b) \subseteq LabelHeads(p, b) \cup {object.labels}
           /\ TokenHeads(q, b) \subseteq TokenHeads(p, b) \cup {object.tokens}
  <1>1. PICK old, new : old = p.db[b].content /\ new = q.db[b].content
    OBVIOUS
  <1>2. old \in Seq(Commands) /\ new = Append(old, object)
    BY <1>1 DEF Objects, Added
  <1>3. PICK n \in Nat : n = Len(old)
    BY <1>2, LenProperties
  <1>4. Len(new) = n + 1 /\ new[n + 1] = object /\ \A i \in 1 .. n : new[i] = old[i]
    BY <1>2, <1>3, AppendProperties
  <1>5. /\ CodeIn(p, b) = [i \in 1 .. n |-> CommandIn(p, old[i])]
        /\ CodeIn(q, b) = [i \in 1 .. n + 1 |-> CommandIn(q, new[i])]
    BY <1>1, <1>3, <1>4 DEF CodeIn
  <1>6. \A i \in 1 .. n : CommandIn(q, new[i]) = CommandIn(p, old[i])
    <2>1. \A i \in 1 .. n : old[i].labels \in LabelHeads(p, b) /\ old[i].tokens \in TokenHeads(p, b)
      BY <1>1, <1>3 DEF LabelHeads, TokenHeads
    <2>2. QED
      BY <2>1, <1>4 DEF CommandIn, TextsSame
  <1>7. PICK f, g, e : f = CodeIn(p, b) /\ g = CodeIn(q, b) /\ e = CommandIn(q, object)
    OBVIOUS
  <1>8. IsAppend(f, g, n, e)
    <2>1. \A i \in 1 .. n : i \in 1 .. n + 1
      OBVIOUS
    <2>2. \A i \in 1 .. n : f[i] = CommandIn(p, old[i]) /\ g[i] = CommandIn(q, new[i])
      BY <1>5, <1>7, <2>1
    <2>3. n + 1 \in 1 .. n + 1
      OBVIOUS
    <2>4. g[n + 1] = e
      BY <1>4, <1>5, <1>7, <2>3
    <2>5. f = [i \in 1 .. n |-> f[i]] /\ g = [i \in 1 .. n + 1 |-> g[i]]
      BY <1>5, <1>7
    <2>6. \A i \in 1 .. n : g[i] = f[i]
      BY <2>2, <1>6
    <2>7. QED
      BY <2>4, <2>5, <2>6 DEF IsAppend
  <1>9. g = Append(f, e)
    BY <1>8, IsAppended
  <1>10. \A i \in 1 .. n + 1 : i \in 1 .. n \/ i = n + 1
    OBVIOUS
  <1>11. LabelHeads(q, b) \subseteq LabelHeads(p, b) \cup {object.labels}
    BY <1>1, <1>3, <1>4, <1>10 DEF LabelHeads
  <1>12. TokenHeads(q, b) \subseteq TokenHeads(p, b) \cup {object.tokens}
    BY <1>1, <1>3, <1>4, <1>10 DEF TokenHeads
  <1>13. QED
    BY <1>7, <1>9, <1>11, <1>12

\* What a program consists of stays, whatever a draft does.
LEMMA ProgramReadSame ==
    ASSUME NEW p, NEW q, NEW r, MapsStay(p, q, r)
    PROVE  ProgramIn(q, r) = ProgramIn(p, r)
  BY DEF MapsStay, ProgramIn
LEMMA BuiltStays ==
    ASSUME ServiceSound, NEW W, OfDraftOrPassing(W), Touches(pool, pool', W)
    PROVE  BuiltIn(pool', programs) = BuiltIn(pool, programs)
  <1>1. ASSUME NEW n \in 1 .. Len(programs)
        PROVE  ProgramIn(pool', programs[n]) = ProgramIn(pool, programs[n])
    <2>1. Kept(pool, programs[n]) /\ Sound(Cells, pool) /\ (ctx.drafting => Holds(pool, ctx) \cap Holds(pool, programs[n]) = {})
      BY DEF ServiceSound
    <2>2. Holds(pool, programs[n]) \cap W = {}
      <3>1. \A x \in Holds(pool, programs[n]) : pool.db[x].persistence_code # 0
        BY <2>1, HoldsLive
      <3>2. QED
        BY <3>1, <2>1 DEF OfDraftOrPassing
    <2>3. MapsStay(pool, pool', programs[n])
      BY <2>1, <2>2, MapsUntouched
    <2>4. QED
      BY <2>3, ProgramReadSame
  <1>2. QED
    BY <1>1 DEF BuiltIn
LEMMA BuiltCoded ==
    ASSUME ServiceSound, CodedSame(pool, pool')
    PROVE  BuiltIn(pool', programs) = BuiltIn(pool, programs)
  <1>1. ASSUME NEW n \in 1 .. Len(programs)
        PROVE  ProgramIn(pool', programs[n]) = ProgramIn(pool, programs[n])
    <2>1. Kept(pool, programs[n]) /\ Sound(Cells, pool)
      BY DEF ServiceSound
    <2>2. MapsStay(pool, pool', programs[n])
      BY <2>1, MapsCoded
    <2>3. QED
      BY <2>2, ProgramReadSame
  <1>2. QED
    BY <1>1 DEF BuiltIn

\* The mapping to what the service promises reads the pool in these terms.
LEMMA TextsRead ==
    ASSUME Sound(Cells, pool), NEW b \in Blocks \cup {Null}
    PROVE  Texts(b) = TextsIn(pool, b)
  <1>1. PICK list : list = Chain(pool, b)
    OBVIOUS
  <1>2. list \in Seq(Blocks)
    BY <1>1, ChainIsSeq
  <1>3. DOMAIN list = 1 .. Len(list)
    BY <1>2
  <1>4. QED
    BY <1>1, <1>3 DEF Texts, TextsIn
LEMMA CodeRead ==
    ASSUME Sound(Cells, pool), DraftKept(pool, ctx)
    PROVE  Code = CodeIn(pool, ctx.script_commands) /\ Len(Code) = Index /\ Index \in Nat
  <1>1. PICK cmds : cmds = pool.db[ctx.script_commands].content
    OBVIOUS
  <1>2. cmds \in Seq(Commands)
    BY <1>1 DEF DraftKept
  <1>3. DOMAIN cmds = 1 .. Len(cmds) /\ Len(cmds) \in Nat
    BY <1>2, LenProperties
  <1>4. ASSUME NEW i \in 1 .. Len(cmds)
        PROVE  Texts(cmds[i].labels) = TextsIn(pool, cmds[i].labels) /\ Texts(cmds[i].tokens) = TextsIn(pool, cmds[i].tokens)
    <2>1. cmds[i] \in Commands
      BY <1>2, ElementOfSeq
    <2>2. cmds[i].labels \in Blocks \cup {Null} /\ cmds[i].tokens \in Blocks \cup {Null}
      BY <2>1 DEF Commands
    <2>3. QED
      BY <2>2, TextsRead
  <1>5. Code = [i \in 1 .. Len(cmds) |-> [labels |-> Texts(cmds[i].labels), tokens |-> Texts(cmds[i].tokens)]]
    BY <1>1, <1>3 DEF Code, Content, db
  <1>6. CodeIn(pool, ctx.script_commands)
          = [i \in 1 .. Len(cmds) |-> [labels |-> TextsIn(pool, cmds[i].labels), tokens |-> TextsIn(pool, cmds[i].tokens)]]
    BY <1>1 DEF CodeIn, CommandIn
  <1>7. Code = CodeIn(pool, ctx.script_commands)
    BY <1>4, <1>5, <1>6
  <1>8. Len(Code) = Len(cmds)
    BY <1>3, <1>5
  <1>9. QED
    BY <1>1, <1>3, <1>7, <1>8 DEF Index, Content, db
LEMMA FunctionsRead ==
    ASSUME Sound(Cells, pool), NEW q, FunctionsKept(pool, q.functions)
    PROVE  FunctionsOf(q) = FunctionsIn(pool, q.functions)
  <1>1. PICK F : F = q.functions
    OBVIOUS
  <1>2. F \in Blocks /\ pool.db[F].type = "TABLE"
    BY <1>1 DEF FunctionsKept
  <1>3. DOMAIN pool.db[F].content = 1 .. Len(pool.db[F].content)
    BY <1>2, TableFields
  <1>4. {TextOf(pool, f.key) : f \in Range(pool.db[F].content)} = NamesIn(pool, F)
    BY <1>3 DEF Range, NamesIn
  <1>5. QED
    BY <1>1, <1>4 DEF FunctionsOf, FunctionsIn, FunctionAt, Content, db
LEMMA MemoryRead ==
    ASSUME Sound(Cells, pool), NEW q, LayoutsKept(pool, q.memory_layout_ll, q.memory_layout_hl)
    PROVE  MemoryOf(q) = MemoryIn(pool, q.memory_layout_ll, q.memory_layout_hl)
  <1>1. PICK t : t = q.memory_layout_hl
    OBVIOUS
  <1>2. t \in Blocks /\ pool.db[t].type = "TABLE"
    BY <1>1 DEF LayoutsKept
  <1>3. DOMAIN pool.db[t].content = 1 .. Len(pool.db[t].content)
    BY <1>2, TableFields
  <1>4. {TextOf(pool, f.key) : f \in Range(pool.db[t].content)} = NamesIn(pool, t)
    BY <1>3 DEF Range, NamesIn
  <1>5. QED
    BY <1>1, <1>4 DEF MemoryOf, MemoryIn, MemoryAt, Content, db

DraftAt(p, c) == IF c.drafting THEN DraftIn(p, c) ELSE Emitted!NoDraft
LEMMA MappingRead ==
    ASSUME ServiceSound
    PROVE  Draft = DraftAt(pool, ctx) /\ Open = OpenIn(pool, cmd) /\ Built = BuiltIn(pool, programs)
  <1>1. Sound(Cells, pool) /\ ctx \in Drafts \cup {[drafting |-> FALSE]} /\ (ctx.drafting => DraftKept(pool, ctx))
    BY DEF ServiceSound
  <1>2. Draft = DraftAt(pool, ctx)
    <2>1. CASE ctx.drafting
      <3>1. /\ DraftKept(pool, ctx) /\ FunctionsKept(pool, ctx.functions)
            /\ LayoutsKept(pool, ctx.memory_layout_ll, ctx.memory_layout_hl)
            /\ ctx.active_labels \in Blocks \cup {Null}
        BY <1>1, <2>1 DEF DraftKept, Kept, Drafts
      <3>2. /\ Code = CodeIn(pool, ctx.script_commands) /\ Texts(ctx.active_labels) = TextsIn(pool, ctx.active_labels)
            /\ FunctionsOf(ctx) = FunctionsIn(pool, ctx.functions)
            /\ MemoryOf(ctx) = MemoryIn(pool, ctx.memory_layout_ll, ctx.memory_layout_hl)
        BY <1>1, <3>1, CodeRead, TextsRead, FunctionsRead, MemoryRead
      <3>3. QED
        BY <2>1, <3>2 DEF Draft, DraftAt, DraftIn
    <2>2. CASE ~ctx.drafting
      BY <2>2 DEF Draft, DraftAt, Emitted!NoDraft
    <2>3. QED
      BY <2>1, <2>2
  <1>3. Open = OpenIn(pool, cmd)
    <2>1. CASE cmd = Null
      BY <2>1 DEF Open, OpenIn
    <2>2. CASE cmd # Null
      <3>1. pool.db[cmd].token \in Blocks
        BY <2>2 DEF ServiceSound, CommandOpen
      <3>2. Texts(pool.db[cmd].token) = TextsIn(pool, pool.db[cmd].token)
        BY <1>1, <3>1, TextsRead
      <3>3. QED
        BY <2>2, <3>2 DEF Open, OpenIn, db
    <2>3. QED
      BY <2>1, <2>2
  <1>4. Built = BuiltIn(pool, programs)
    <2>1. ASSUME NEW n \in 1 .. Len(programs)
          PROVE  [code |-> programs[n].code, functions |-> FunctionsOf(programs[n]), memory |-> MemoryOf(programs[n])]
                   = ProgramIn(pool, programs[n])
      <3>1. PICK r : r = programs[n]
        OBVIOUS
      <3>2. FunctionsKept(pool, r.functions) /\ LayoutsKept(pool, r.memory_layout_ll, r.memory_layout_hl)
        BY <2>1, <3>1 DEF ServiceSound, Kept
      <3>3. /\ FunctionsOf(r) = FunctionsIn(pool, r.functions)
            /\ MemoryOf(r) = MemoryIn(pool, r.memory_layout_ll, r.memory_layout_hl)
        BY <1>1, <3>2, FunctionsRead, MemoryRead
      <3>4. QED
        BY <3>1, <3>3 DEF ProgramIn
    <2>2. DOMAIN programs = 1 .. Len(programs)
      <3>1. PICK S : programs \in Seq(S)
        BY DEF ServiceSound
      <3>2. QED
        BY <3>1
    <2>3. QED
      BY <2>1, <2>2 DEF Built, BuiltIn
  <1>5. QED
    BY <1>2, <1>3, <1>4

-----------------------------------------------------------------------------
\* The strengthening that the mapping needs: the labels that wait are on a list
\* that no command of the draft is on, and so are the tokens of the open one.
OpenToken(p, b) == IF b = Null THEN Null ELSE p.db[b].token
ListsKept(p, c, b, last) ==
    IF c.drafting
    THEN /\ ListsApart(p, LabelHeads(p, c.script_commands), c.active_labels, c.active_labels_last, "STRING")
         /\ ListsApart(p, TokenHeads(p, c.script_commands), OpenToken(p, b), last, "EXTERNAL")
    ELSE b = Null
EmittedSound == ServiceSound /\ ListsKept(pool, ctx, cmd, cmd_lasttoken)

\* What was emitted, after a step that adds nothing to it.
LEMMA DraftReadSame ==
    ASSUME NEW p, Sound(Cells, p), NEW q, NEW W, Touches(p, q, W), NEW c, DraftKept(p, c), Holds(p, c) \cap W = {},
           c.script_commands \notin W,
           TextsSame(p, q, LabelHeads(p, c.script_commands)), TextsSame(p, q, TokenHeads(p, c.script_commands)),
           TextsIn(q, c.active_labels) = TextsIn(p, c.active_labels)
    PROVE  /\ DraftIn(q, c) = DraftIn(p, c)
           /\ LabelHeads(q, c.script_commands) = LabelHeads(p, c.script_commands)
           /\ TokenHeads(q, c.script_commands) = TokenHeads(p, c.script_commands)
  <1>1. PICK b : b = c.script_commands
    OBVIOUS
  <1>2. q.db[b].content = p.db[b].content
    BY <1>1 DEF DraftKept, Passing, Touches, Live
  <1>3. /\ CodeIn(q, b) = CodeIn(p, b)
        /\ LabelHeads(q, b) = LabelHeads(p, b) /\ TokenHeads(q, b) = TokenHeads(p, b)
    BY <1>1, <1>2, CodeUntouched
  <1>4. MapsStay(p, q, c)
    <2>1. Kept(p, c)
      BY DEF DraftKept
    <2>2. QED
      BY <2>1, MapsUntouched
  <1>5. DraftIn(q, c) = DraftIn(p, c)
    BY <1>1, <1>3, <1>4 DEF DraftIn, MapsStay
  <1>6. QED
    BY <1>1, <1>3, <1>5

\* The open command.
LEMMA OpenRead ==
    ASSUME NEW p, Sound(Cells, p), NEW b
    PROVE  OpenIn(p, b) = TextsIn(p, OpenToken(p, b))
  <1>1. CASE b = Null
    BY <1>1, TextsOfNone DEF OpenIn, OpenToken
  <1>2. CASE b # Null
    BY <1>2 DEF OpenIn, OpenToken
  <1>3. QED
    BY <1>1, <1>2

\* A draft without anything.
LEMMA EmptyMap ==
    ASSUME NEW f, f = [x \in {} |-> f[x]]
    PROVE  f = <<>>
  OBVIOUS
LEMMA DraftReadEmpty ==
    ASSUME NEW p, Sound(Cells, p), NEW c, Begun(p, c)
    PROVE  /\ DraftIn(p, c) = Emitted!NoDraft
           /\ LabelHeads(p, c.script_commands) = {} /\ TokenHeads(p, c.script_commands) = {}
  <1>1. /\ p.db[c.functions].content = <<>> /\ p.db[c.memory_layout_hl].content = <<>>
        /\ p.db[c.script_commands].content = <<>> /\ c.active_labels = Null
    BY DEF Begun
  <1>2. Len(<<>>) = 0 /\ 1 .. 0 = {}
    OBVIOUS
  <1>3. NamesIn(p, c.functions) = {} /\ NamesIn(p, c.memory_layout_hl) = {}
    BY <1>1, <1>2 DEF NamesIn
  <1>4. FunctionsIn(p, c.functions) = <<>>
    <2>1. PICK f : f = FunctionsIn(p, c.functions)
      OBVIOUS
    <2>2. f = [x \in {} |-> f[x]]
      BY <2>1, <1>3 DEF FunctionsIn
    <2>3. QED
      BY <2>1, <2>2, EmptyMap
  <1>5. MemoryIn(p, c.memory_layout_ll, c.memory_layout_hl) = <<>>
    <2>1. PICK f : f = MemoryIn(p, c.memory_layout_ll, c.memory_layout_hl)
      OBVIOUS
    <2>2. f = [x \in {} |-> f[x]]
      BY <2>1, <1>3 DEF MemoryIn
    <2>3. QED
      BY <2>1, <2>2, EmptyMap
  <1>6. CodeIn(p, c.script_commands) = <<>>
    <2>1. PICK f : f = CodeIn(p, c.script_commands)
      OBVIOUS
    <2>2. f = [x \in {} |-> f[x]]
      BY <2>1, <1>1, <1>2 DEF CodeIn
    <2>3. QED
      BY <2>1, <2>2, EmptyMap
  <1>7. TextsIn(p, c.active_labels) = <<>>
    BY <1>1, TextsOfNone
  <1>8. LabelHeads(p, c.script_commands) = {} /\ TokenHeads(p, c.script_commands) = {}
    BY <1>1, <1>2 DEF LabelHeads, TokenHeads
  <1>9. QED
    BY <1>4, <1>5, <1>6, <1>7, <1>8 DEF DraftIn, Emitted!NoDraft

\* What each operation does to what was emitted: nothing, when it fails,
Unseen == /\ DraftAt(pool', ctx') = DraftAt(pool, ctx)
          /\ OpenIn(pool', cmd') = OpenIn(pool, cmd)
          /\ BuiltIn(pool', programs') = BuiltIn(pool, programs)
LEMMA EmittedFail ==
    ASSUME EmittedSound, UNCHANGED <<pool, ctx, cmd, cmd_lasttoken, programs>>
    PROVE  ListsKept(pool, ctx, cmd, cmd_lasttoken)' /\ Unseen
  BY DEF EmittedSound, Unseen

\* emit-new begins another draft and keeps the open command,
LEMMA EmittedNew ==
    ASSUME EmittedSound, New
    PROVE  /\ ListsKept(pool, ctx, cmd, cmd_lasttoken)'
           /\ \/ Unseen
              \/ /\ DraftAt(pool', ctx') = Emitted!NoDraft
                 /\ OpenIn(pool', cmd') = OpenIn(pool, cmd)
                 /\ BuiltIn(pool', programs') = BuiltIn(pool, programs)
  <1>1. ServiceSound /\ Sound(Cells, pool) /\ ListsKept(pool, ctx, cmd, cmd_lasttoken)
    BY DEF EmittedSound, ServiceSound
  <1>2. UNCHANGED <<cmd, cmd_lasttoken, programs>>
    BY <1>1, NewLeaves
  <1>3. CASE UNCHANGED <<pool, ctx>>
    BY <1>2, <1>3, EmittedFail
  <1>4. CASE /\ Sound(Cells, pool') /\ Touches(pool, pool', {}) /\ ctx'.drafting /\ Begun(pool', ctx')
    <2>1. /\ DraftIn(pool', ctx') = Emitted!NoDraft
          /\ LabelHeads(pool', ctx'.script_commands) = {} /\ TokenHeads(pool', ctx'.script_commands) = {}
          /\ ctx'.active_labels = Null
      BY <1>4, DraftReadEmpty DEF Begun
    <2>2. /\ ListsApart(pool', {}, OpenToken(pool', cmd), cmd_lasttoken, "EXTERNAL")
          /\ TextsIn(pool', OpenToken(pool', cmd)) = TextsIn(pool, OpenToken(pool, cmd))
      <3>1. CASE cmd = Null
        <4>1. OpenToken(pool', cmd) = Null /\ OpenToken(pool, cmd) = Null
          BY <3>1 DEF OpenToken
        <4>2. TextsIn(pool', Null) = <<>> /\ TextsIn(pool, Null) = <<>>
          BY <1>1, <1>4, TextsOfNone
        <4>3. QED
          BY <4>1, <4>2, NoLists
      <3>2. CASE cmd # Null
        <4>1. /\ ctx.drafting
              /\ ListsApart(pool, TokenHeads(pool, ctx.script_commands), OpenToken(pool, cmd), cmd_lasttoken, "EXTERNAL")
          BY <3>2, <1>1 DEF ListsKept
        <4>2. PICK heads, head : heads = TokenHeads(pool, ctx.script_commands) /\ head = OpenToken(pool, cmd)
          OBVIOUS
        <4>3. OpenToken(pool', cmd) = head
          BY <3>2, <4>2, <1>1, <1>4 DEF OpenToken, ServiceSound, CommandOpen, Passing, Touches, Live
        <4>4. ListsApart(pool', heads, head, cmd_lasttoken, "EXTERNAL") /\ TextsIn(pool', head) = TextsIn(pool, head)
          BY <4>1, <4>2, <1>1, <1>4, ListsStay
        <4>5. QED
          BY <4>2, <4>3, <4>4, ListsLeft
      <3>3. QED
        BY <3>1, <3>2
    <2>3. ListsApart(pool', {}, Null, ctx'.active_labels_last, "STRING")
      BY NoLists
    <2>4. ListsKept(pool', ctx', cmd', cmd_lasttoken')
      BY <2>1, <2>2, <2>3, <1>2, <1>4 DEF ListsKept
    <2>5. OpenIn(pool', cmd') = OpenIn(pool, cmd)
      <3>1. OpenIn(pool, cmd) = TextsIn(pool, OpenToken(pool, cmd))
        BY <1>1, OpenRead
      <3>2. OpenIn(pool', cmd) = TextsIn(pool', OpenToken(pool', cmd))
        BY <1>4, OpenRead
      <3>3. QED
        BY <3>1, <3>2, <2>2, <1>2
    <2>6. BuiltIn(pool', programs') = BuiltIn(pool, programs)
      <3>1. OfDraftOrPassing({})
        BY DEF OfDraftOrPassing
      <3>2. QED
        BY <3>1, <1>1, <1>2, <1>4, BuiltStays
    <2>7. QED
      BY <2>1, <2>4, <2>5, <2>6, <1>4 DEF DraftAt
  <1>5. QED
    BY <1>1, <1>3, <1>4, NewLeaves

\* The parts of the draft are where nothing but itself is touched.
LEMMA DraftApart ==
    ASSUME EmittedSound, ctx.drafting
    PROVE  /\ ServiceSound /\ Sound(Cells, pool) /\ DraftKept(pool, ctx)
           /\ ListsApart(pool, LabelHeads(pool, ctx.script_commands), ctx.active_labels, ctx.active_labels_last, "STRING")
           /\ ListsApart(pool, TokenHeads(pool, ctx.script_commands), OpenToken(pool, cmd), cmd_lasttoken, "EXTERNAL")
           /\ \A x \in Holds(pool, ctx) \cup {ctx.script_commands} :
                x \in Blocks /\ pool.db[x].type \in {"TABLE", "UNSPECIFIED"}
           /\ DraftAt(pool, ctx) = DraftIn(pool, ctx)
  <1>1. ServiceSound /\ Sound(Cells, pool) /\ DraftKept(pool, ctx)
    BY DEF EmittedSound, ServiceSound
  <1>2. \A x \in Holds(pool, ctx) \cup {ctx.script_commands} :
          x \in Blocks /\ pool.db[x].type \in {"TABLE", "UNSPECIFIED"}
    BY <1>1 DEF DraftKept, Kept, FunctionsKept, LayoutsKept, Holds, Passing
  <1>3. QED
    BY <1>1, <1>2 DEF EmittedSound, ListsKept, DraftAt

\* emit-cmd opens a command that has its token,
LEMMA EmittedCmd ==
    ASSUME EmittedSound, NEW token \in Instructions \cup Operands, Cmd(token), ~Fail
    PROVE  /\ ListsKept(pool, ctx, cmd, cmd_lasttoken)'
           /\ OpenIn(pool', cmd') = <<token>>
           /\ DraftAt(pool', ctx') = DraftAt(pool, ctx) /\ BuiltIn(pool', programs') = BuiltIn(pool, programs)
  <1>1. ctx.drafting
    BY DEF Cmd, Drafting
  <1>2. /\ ServiceSound /\ Sound(Cells, pool) /\ DraftKept(pool, ctx)
        /\ ListsApart(pool, LabelHeads(pool, ctx.script_commands), ctx.active_labels, ctx.active_labels_last, "STRING")
        /\ ListsApart(pool, TokenHeads(pool, ctx.script_commands), OpenToken(pool, cmd), cmd_lasttoken, "EXTERNAL")
        /\ DraftAt(pool, ctx) = DraftIn(pool, ctx)
    BY <1>1, DraftApart
  <1>3. /\ Sound(Cells, pool') /\ Touches(pool, pool', {})
        /\ CommandOpen(pool', cmd', cmd_lasttoken') /\ cmd' # Null
        /\ ~Live(pool, cmd_lasttoken') /\ pool'.db[cmd'].token = cmd_lasttoken'
        /\ pool'.db[cmd_lasttoken'].content = <<token>>
        /\ UNCHANGED <<ctx, programs>>
    BY <1>2, CmdLeaves
  <1>4. PICK q, b, heads, tokens, first, labels, last :
          /\ q = pool' /\ b = ctx.script_commands /\ heads = LabelHeads(pool, b) /\ tokens = TokenHeads(pool, b)
          /\ first = cmd_lasttoken' /\ labels = ctx.active_labels /\ last = ctx.active_labels_last
    OBVIOUS
  <1>5. /\ Sound(Cells, q) /\ Touches(pool, q, {})
        /\ first \in Blocks /\ first # Null /\ ~Live(pool, first)
        /\ q.db[first].type = "EXTERNAL" /\ q.db[first].next = Null /\ q.db[first].content = <<token>>
    <2>1. first \in Blocks /\ q.db[first].type = "EXTERNAL" /\ q.db[first].next = Null
      BY <1>3, <1>4 DEF CommandOpen, Passing
    <2>2. first # Null
      BY <2>1, CapacityAssumption DEF Blocks, Null
    <2>3. QED
      BY <2>1, <2>2, <1>3, <1>4
  <1>6. ListOpen(q, {first}, first, first, "EXTERNAL")
    BY <1>5 DEF ListOpen
  <1>7. ListsApart(q, tokens, first, first, "EXTERNAL") /\ TextsSame(pool, q, tokens)
    <2>1. ListsApart(pool, tokens, OpenToken(pool, cmd), cmd_lasttoken, "EXTERNAL")
      BY <1>2, <1>4
    <2>2. \A x \in {first} : ~Live(pool, x)
      BY <1>5
    <2>3. ListsApart(q, tokens, first, first, "EXTERNAL") /\ \A x \in tokens : TextsIn(q, x) = TextsIn(pool, x)
      BY <2>1, <2>2, <1>2, <1>5, <1>6, ListsBegin
    <2>4. QED
      BY <2>3 DEF TextsSame
  <1>8. /\ ListsApart(q, heads, labels, last, "STRING") /\ TextsSame(pool, q, heads)
        /\ TextsIn(q, labels) = TextsIn(pool, labels)
    <2>1. ListsApart(pool, heads, labels, last, "STRING")
      BY <1>2, <1>4
    <2>2. /\ ListsApart(q, heads, labels, last, "STRING")
          /\ \A x \in heads \cup {labels} : TextsIn(q, x) = TextsIn(pool, x)
      BY <2>1, <1>2, <1>5, ListsStay
    <2>3. QED
      BY <2>2 DEF TextsSame
  <1>9. DraftIn(q, ctx) = DraftIn(pool, ctx) /\ LabelHeads(q, b) = heads /\ TokenHeads(q, b) = tokens
    BY <1>2, <1>4, <1>5, <1>7, <1>8, DraftReadSame
  <1>10. OpenToken(q, cmd') = first
    BY <1>3, <1>4 DEF OpenToken
  <1>11. ListsKept(pool', ctx', cmd', cmd_lasttoken')
    BY <1>1, <1>3, <1>4, <1>7, <1>8, <1>9, <1>10 DEF ListsKept
  <1>12. OpenIn(q, cmd') = <<token>>
    <2>1. TextsIn(q, first) = <<token>>
      BY <1>5, TextsOfOne
    <2>2. QED
      BY <2>1, <1>5, <1>10, OpenRead
  <1>13. BuiltIn(q, programs) = BuiltIn(pool, programs)
    <2>1. OfDraftOrPassing({})
      BY DEF OfDraftOrPassing
    <2>2. QED
      BY <2>1, <1>2, <1>3, <1>4, BuiltStays
  <1>14. QED
    BY <1>1, <1>2, <1>3, <1>4, <1>9, <1>11, <1>12, <1>13 DEF DraftAt

\* one of emit-token-1 to -6 and the like adds tokens to it,
LEMMA LongerIsPrefixed ==
    ASSUME NEW S, NEW s \in Seq(S), NEW t \in Seq(S), t # <<>>, NEW u, u = s \o t
    PROVE  Emitted!IsStrictPrefix(s, u)
  <1>1. /\ u \in Seq(S) /\ Len(s) \in Nat /\ Len(t) \in Nat /\ Len(t) > 0 /\ Len(u) = Len(s) + Len(t)
        /\ \A i \in 1 .. Len(s) : u[i] = s[i]
    BY ConcatProperties, EmptySeq, LenProperties
  <1>2. SubSeq(u, 1, Len(s)) = SubSeq(s, 1, Len(s))
    BY <1>1
  <1>3. QED
    BY <1>1, <1>2 DEF Emitted!IsStrictPrefix, Emitted!IsPrefix

\* Texts are what the blocks hold.
LEMMA TextsTyped ==
    ASSUME NEW p, Sound(Cells, p), NEW b \in Blocks \cup {Null}
    PROVE  /\ TextsIn(p, b) \in Seq(Cells \cup {NoText})
           /\ b # Null => TextsIn(p, b) # <<>>
  <1>1. p \in PoolsOf(Cells)
    BY DEF Sound
  <1>2. ASSUME NEW x \in Blocks PROVE TextOf(p, x) \in Cells \cup {NoText}
    <2>1. CASE p.db[x].type \in {"STRING", "EXTERNAL"}
      <3>1. PICK content \in Seq(Cells) : content = p.db[x].content /\ content # <<>>
        BY <1>1, <2>1, BlockTypes DEF WellShaped
      <3>2. Head(content) \in Cells
        BY <3>1
      <3>3. QED
        BY <2>1, <3>1, <3>2 DEF TextOf
    <2>2. CASE p.db[x].type \notin {"STRING", "EXTERNAL"}
      BY <2>2 DEF TextOf
    <2>3. QED
      BY <2>1, <2>2
  <1>3. PICK list \in Seq(Blocks) : list = Chain(p, b)
    BY ChainIsSeq
  <1>4. PICK n \in Nat : n = Len(list)
    BY LenProperties
  <1>5. \A i \in 1 .. n : TextOf(p, list[i]) \in Cells \cup {NoText}
    <2>1. \A i \in 1 .. n : list[i] \in Blocks
      BY <1>3, <1>4, ElementOfSeq
    <2>2. QED
      BY <2>1, <1>2
  <1>6. TextsIn(p, b) = [i \in 1 .. n |-> TextOf(p, list[i])]
    BY <1>3, <1>4 DEF TextsIn
  <1>7. TextsIn(p, b) \in [1 .. n -> Cells \cup {NoText}]
    BY <1>5, <1>6
  <1>8. TextsIn(p, b) \in Seq(Cells \cup {NoText}) /\ Len(TextsIn(p, b)) = n
    BY <1>7
  <1>9. b # Null => n > 0
    <2> SUFFICES ASSUME b # Null PROVE n > 0
      OBVIOUS
    <2>1. PICK next \in Blocks \cup {Null} : next = p.db[b].next
      BY <1>1, BlockTypes
    <2>2. PICK rest \in Seq(Blocks) : rest = Chain(p, next)
      BY ChainIsSeq
    <2>3. list = <<b>> \o rest
      BY <1>3, <2>1, <2>2, ChainIsSeq
    <2>4. Len(<<b>> \o rest) = 1 + Len(rest) /\ Len(rest) \in Nat
      <3>1. <<b>> \in Seq(Blocks) /\ Len(<<b>>) = 1
        OBVIOUS
      <3>2. QED
        BY <3>1, ConcatProperties, LenProperties
    <2>5. QED
      BY <1>4, <2>3, <2>4
  <1>10. QED
    BY <1>8, <1>9

\* The blocks that a call of these appends.
LEMMA TokensLinked ==
    ASSUME NEW q, NEW n \in Nat, n > 0, NEW b, b \in [1 .. n -> Blocks],
           \A i \in 1 .. n : /\ q.db[b[i]].type = "EXTERNAL"
                             /\ q.db[b[i]].next = IF i = n THEN Null ELSE b[i + 1],
           NEW more, more = {b[i] : i \in 1 .. n}
    PROVE  ListOpen(q, more, b[1], b[n], "EXTERNAL") /\ b[1] \in Blocks /\ b[1] # Null
  <1>1. 1 \in 1 .. n /\ n \in 1 .. n
    OBVIOUS
  <1>2. \A x \in Blocks : x # Null
    BY CapacityAssumption DEF Blocks, Null
  <1>3. ASSUME NEW x \in more
        PROVE  /\ q.db[x].type = "EXTERNAL" /\ q.db[x].next \in more \cup {Null}
               /\ q.db[x].next = Null => x = b[n]
    <2>1. PICK i \in 1 .. n : x = b[i]
      OBVIOUS
    <2>2. CASE i = n
      BY <2>1, <2>2
    <2>3. CASE i # n
      <3>1. i + 1 \in 1 .. n /\ q.db[x].next = b[i + 1]
        BY <2>1, <2>3
      <3>2. b[i + 1] \in more /\ b[i + 1] \in Blocks
        BY <3>1
      <3>3. QED
        BY <2>1, <3>1, <3>2, <1>2
    <2>4. QED
      BY <2>2, <2>3
  <1>4. more \in SUBSET Blocks /\ b[1] \in more /\ b[n] \in more /\ b[1] \in Blocks
    BY <1>1
  <1>5. QED
    BY <1>2, <1>3, <1>4 DEF ListOpen
LEMMA EmittedAppend ==
    ASSUME EmittedSound, NEW n \in 1 .. MaxTokens, NEW tokens \in [1 .. n -> Operands],
           AppendTokens(tokens), ~Fail
    PROVE  /\ ListsKept(pool, ctx, cmd, cmd_lasttoken)'
           /\ OpenIn(pool, cmd) # <<>> /\ Emitted!IsStrictPrefix(OpenIn(pool, cmd), OpenIn(pool', cmd'))
           /\ DraftAt(pool', ctx') = DraftAt(pool, ctx) /\ BuiltIn(pool', programs') = BuiltIn(pool, programs)
  <1>1. ctx.drafting
    BY DEF AppendTokens, Drafting
  <1>2. /\ ServiceSound /\ Sound(Cells, pool) /\ DraftKept(pool, ctx)
        /\ ListsApart(pool, LabelHeads(pool, ctx.script_commands), ctx.active_labels, ctx.active_labels_last, "STRING")
        /\ ListsApart(pool, TokenHeads(pool, ctx.script_commands), OpenToken(pool, cmd), cmd_lasttoken, "EXTERNAL")
        /\ \A x \in Holds(pool, ctx) \cup {ctx.script_commands} : pool.db[x].type \in {"TABLE", "UNSPECIFIED"}
        /\ DraftAt(pool, ctx) = DraftIn(pool, ctx)
    BY <1>1, DraftApart
  <1>3. /\ Sound(Cells, pool') /\ Touches(pool, pool', {cmd_lasttoken})
        /\ pool'.db[cmd_lasttoken].next = Top(pool, 1)
        /\ \A i \in 1 .. n :
             /\ Top(pool, i) \in Blocks /\ ~Live(pool, Top(pool, i))
             /\ Passing(pool', Top(pool, i), "EXTERNAL")
             /\ pool'.db[Top(pool, i)].next = IF i = n THEN Null ELSE Top(pool, i + 1)
        /\ cmd_lasttoken' = Top(pool, n) /\ cmd # Null
        /\ UNCHANGED <<ctx, cmd, programs>>
    BY <1>2, AppendLeaves
  <1>4. CommandOpen(pool, cmd, cmd_lasttoken)
    BY <1>2, <1>3 DEF ServiceSound
  <1>5. PICK q, s, heads, tks, head, labels, last, end :
          /\ q = pool' /\ s = ctx.script_commands /\ heads = LabelHeads(pool, s) /\ tks = TokenHeads(pool, s)
          /\ head = OpenToken(pool, cmd) /\ end = cmd_lasttoken
          /\ labels = ctx.active_labels /\ last = ctx.active_labels_last
    OBVIOUS
  <1>6. PICK b : b = [i \in 1 .. n |-> Top(pool, i)]
    OBVIOUS
  <1>7. PICK more, first : more = {b[i] : i \in 1 .. n} /\ first = b[1]
    OBVIOUS
  <1>8. n \in Nat /\ n > 0 /\ 1 \in 1 .. n /\ n \in 1 .. n
    BY CountsAssumption
  <1>9. /\ b \in [1 .. n -> Blocks]
        /\ \A i \in 1 .. n : /\ q.db[b[i]].type = "EXTERNAL"
                             /\ q.db[b[i]].next = IF i = n THEN Null ELSE b[i + 1]
    <2>1. b \in [1 .. n -> Blocks]
      BY <1>3, <1>6
    <2>2. ASSUME NEW i \in 1 .. n
          PROVE  /\ q.db[b[i]].type = "EXTERNAL"
                 /\ q.db[b[i]].next = IF i = n THEN Null ELSE b[i + 1]
      <3>1. b[i] = Top(pool, i) /\ (i # n => b[i + 1] = Top(pool, i + 1))
        <4>1. i # n => i + 1 \in 1 .. n
          BY <1>8
        <4>2. QED
          BY <4>1, <1>6
      <3>2. Passing(q, Top(pool, i), "EXTERNAL") /\ q.db[Top(pool, i)].next = IF i = n THEN Null ELSE Top(pool, i + 1)
        BY <1>3, <1>5
      <3>3. QED
        BY <3>1, <3>2 DEF Passing
    <2>3. QED
      BY <2>1, <2>2
  <1>10. ListOpen(q, more, first, b[n], "EXTERNAL") /\ first \in Blocks /\ first # Null
    BY <1>7, <1>8, <1>9, TokensLinked
  <1>11. /\ \A x \in more : ~Live(pool, x)
         /\ b[n] = cmd_lasttoken' /\ first = Top(pool, 1)
    BY <1>3, <1>6, <1>7, <1>8
  <1>12. LinkedTo(pool, q, end, first)
    BY <1>3, <1>4, <1>5, <1>11 DEF LinkedTo, CommandOpen
  <1>13. Sound(Cells, pool) /\ Sound(Cells, q) /\ Touches(pool, q, {end})
    BY <1>2, <1>3, <1>5
  <1>14. head # Null /\ head \in Blocks /\ OpenToken(pool, cmd) = head /\ OpenToken(q, cmd) = head
    <2>1. OpenToken(pool, cmd) = pool.db[cmd].token /\ OpenToken(q, cmd) = q.db[cmd].token
      BY <1>3 DEF OpenToken
    <2>2. cmd \in Blocks /\ Live(pool, cmd) /\ pool.db[cmd].token \in Blocks
      BY <1>4 DEF CommandOpen, Passing, Live
    <2>3. q.db[cmd].token = pool.db[cmd].token
      BY <1>13, <2>2 DEF Touches
    <2>4. QED
      BY <1>5, <2>1, <2>2, <2>3, CapacityAssumption DEF Blocks, Null
  <1>15. /\ ListsApart(q, tks, head, b[n], "EXTERNAL") /\ TextsSame(pool, q, tks)
         /\ TextsJoined(pool, q, head, first)
    <2>1. ListsApart(pool, tks, head, end, "EXTERNAL")
      BY <1>2, <1>5
    <2>2. \A x \in {end} : pool.db[x].type = "EXTERNAL" => x = end
      OBVIOUS
    <2>3. PICK stop : stop = b[n]
      OBVIOUS
    <2>4. ListOpen(q, more, first, stop, "EXTERNAL") /\ first # Null /\ \A x \in more : ~Live(pool, x)
      BY <2>3, <1>10, <1>11
    <2>5. /\ ListsApart(q, tks, head, stop, "EXTERNAL") /\ \A x \in tks : TextsIn(q, x) = TextsIn(pool, x)
          /\ TextsJoined(pool, q, head, first)
      BY <2>1, <2>2, <2>4, <1>12, <1>13, <1>14, ListsGrow
    <2>6. QED
      BY <2>3, <2>5 DEF TextsSame
  <1>16. pool.db[end].type = "EXTERNAL" /\ end \in Blocks /\ pool.db[end].persistence_code = 0
    BY <1>4, <1>5 DEF CommandOpen, Passing
  <1>17. /\ ListsApart(q, heads, labels, last, "STRING") /\ TextsSame(pool, q, heads)
         /\ TextsIn(q, labels) = TextsIn(pool, labels)
    <2>1. ListsApart(pool, heads, labels, last, "STRING")
      BY <1>2, <1>5
    <2>2. PICK W : W = {end}
      OBVIOUS
    <2>3. Touches(pool, q, W) /\ \A x \in W : pool.db[x].type # "STRING"
      BY <2>2, <1>13, <1>16
    <2>4. /\ ListsApart(q, heads, labels, last, "STRING")
          /\ \A x \in heads \cup {labels} : TextsIn(q, x) = TextsIn(pool, x)
      BY <2>1, <2>3, <1>13, ListsStay
    <2>5. QED
      BY <2>4 DEF TextsSame
  <1>18. DraftIn(q, ctx) = DraftIn(pool, ctx) /\ LabelHeads(q, s) = heads /\ TokenHeads(q, s) = tks
    <2>1. Holds(pool, ctx) \cap {end} = {} /\ ctx.script_commands \notin {end}
      BY <1>2, <1>16
    <2>2. QED
      BY <2>1, <1>2, <1>5, <1>13, <1>15, <1>17, DraftReadSame
  <1>19. ListsKept(pool', ctx', cmd', cmd_lasttoken')
    BY <1>1, <1>3, <1>5, <1>11, <1>14, <1>15, <1>17, <1>18 DEF ListsKept
  <1>20. OpenIn(pool, cmd) # <<>> /\ Emitted!IsStrictPrefix(OpenIn(pool, cmd), OpenIn(q, cmd))
    <2>1. OpenIn(pool, cmd) = TextsIn(pool, head) /\ OpenIn(q, cmd) = TextsIn(q, head)
      BY <1>13, <1>14, OpenRead
    <2>2. PICK f, g, h : f = TextsIn(pool, head) /\ g = TextsIn(q, first) /\ h = TextsIn(q, head)
      OBVIOUS
    <2>3. /\ f \in Seq(Cells \cup {NoText}) /\ f # <<>>
          /\ g \in Seq(Cells \cup {NoText}) /\ g # <<>>
      BY <2>2, <1>10, <1>13, <1>14, TextsTyped
    <2>4. h = f \o g
      BY <2>2, <1>15 DEF TextsJoined
    <2>5. Emitted!IsStrictPrefix(f, h)
      BY <2>3, <2>4, LongerIsPrefixed
    <2>6. QED
      BY <2>1, <2>2, <2>3, <2>5
  <1>21. BuiltIn(q, programs) = BuiltIn(pool, programs)
    <2>1. OfDraftOrPassing({end})
      BY <1>16 DEF OfDraftOrPassing
    <2>2. QED
      BY <2>1, <1>2, <1>5, <1>13, BuiltStays
  <1>22. QED
    BY <1>1, <1>2, <1>3, <1>5, <1>18, <1>19, <1>20, <1>21 DEF DraftAt

\* A draft after its open command is closed, and after a label waits for the
\* next one.
LEMMA CodePut ==
    ASSUME NEW d, NEW code, NEW pending, NEW functions, NEW memory,
           d = [code |-> code, pending |-> pending, functions |-> functions, memory |-> memory], NEW x
    PROVE  [d EXCEPT !.code = x] = [code |-> x, pending |-> pending, functions |-> functions, memory |-> memory]
  OBVIOUS
LEMMA PendingPut ==
    ASSUME NEW d, NEW code, NEW pending, NEW functions, NEW memory,
           d = [code |-> code, pending |-> pending, functions |-> functions, memory |-> memory], NEW x
    PROVE  [d EXCEPT !.pending = x] = [code |-> code, pending |-> x, functions |-> functions, memory |-> memory]
  OBVIOUS
LEMMA FunctionsPut ==
    ASSUME NEW d, NEW code, NEW pending, NEW functions, NEW memory,
           d = [code |-> code, pending |-> pending, functions |-> functions, memory |-> memory], NEW x
    PROVE  [d EXCEPT !.functions = x] = [code |-> code, pending |-> pending, functions |-> x, memory |-> memory]
  OBVIOUS
DraftOf(code, pending, functions, memory) ==
    [code |-> code, pending |-> pending, functions |-> functions, memory |-> memory]
CommandPut(d, tokens) ==
    [d EXCEPT !.code = Append(@, [labels |-> d.pending, tokens |-> tokens]), !.pending = <<>>]
LabelPut(d, name) ==
    [d EXCEPT !.pending = Append(@, name), !.functions = Emitted!With(@, name, Len(d.code))]
LEMMA CommandClosed ==
    ASSUME NEW code, NEW pending, NEW functions, NEW memory, NEW open,
           NEW e, e = [labels |-> pending, tokens |-> open], NEW d,
           d = DraftOf(code, pending, functions, memory)
    PROVE  CommandPut(d, open)
             = DraftOf(Append(code, e), <<>>, functions, memory)
  <1>1. d.code = code /\ d.pending = pending
    BY DEF DraftOf
  <1>2. PICK f, x : f = [d EXCEPT !.code = x] /\ x = Append(code, e)
    OBVIOUS
  <1>3. f = [code |-> x, pending |-> pending, functions |-> functions, memory |-> memory]
    BY <1>2, CodePut DEF DraftOf
  <1>4. [f EXCEPT !.pending = <<>>] = [code |-> x, pending |-> <<>>, functions |-> functions, memory |-> memory]
    BY <1>3, PendingPut
  <1>5. [d EXCEPT !.code = x, !.pending = <<>>] = [f EXCEPT !.pending = <<>>]
    BY <1>2
  <1>6. QED
    BY <1>1, <1>2, <1>4, <1>5 DEF CommandPut, DraftOf
LEMMA LabelNamed ==
    ASSUME NEW code, NEW pending, NEW functions, NEW memory, NEW name, NEW at, at = Len(code), NEW d,
           d = DraftOf(code, pending, functions, memory)
    PROVE  LabelPut(d, name)
             = DraftOf(code, Append(pending, name), Emitted!With(functions, name, at), memory)
  <1>1. d.pending = pending /\ d.functions = functions /\ Len(d.code) = at
    BY DEF DraftOf
  <1>2. PICK f, x, y : f = [d EXCEPT !.pending = x] /\ x = Append(pending, name)
                       /\ y = Emitted!With(functions, name, at)
    OBVIOUS
  <1>3. f = [code |-> code, pending |-> x, functions |-> functions, memory |-> memory]
    BY <1>2, PendingPut DEF DraftOf
  <1>4. [f EXCEPT !.functions = y] = [code |-> code, pending |-> x, functions |-> y, memory |-> memory]
    BY <1>3, FunctionsPut
  <1>5. [d EXCEPT !.pending = x, !.functions = y] = [f EXCEPT !.functions = y]
    BY <1>2
  <1>6. QED
    BY <1>1, <1>2, <1>4, <1>5 DEF LabelPut, DraftOf

\* emit-cmd-end makes the open command the last of the program, with the labels
\* that waited for it,
LEMMA EmittedEnd ==
    ASSUME EmittedSound, EndCmd, ~Fail
    PROVE  /\ ListsKept(pool, ctx, cmd, cmd_lasttoken)'
           /\ OpenIn(pool, cmd) # <<>> /\ OpenIn(pool', cmd') = <<>>
           /\ DraftAt(pool', ctx') = CommandPut(DraftAt(pool, ctx), OpenIn(pool, cmd))
           /\ BuiltIn(pool', programs') = BuiltIn(pool, programs)
  <1>1. ctx.drafting
    BY DEF EndCmd, Drafting
  <1>2. /\ ServiceSound /\ Sound(Cells, pool) /\ DraftKept(pool, ctx)
        /\ ListsApart(pool, LabelHeads(pool, ctx.script_commands), ctx.active_labels, ctx.active_labels_last, "STRING")
        /\ ListsApart(pool, TokenHeads(pool, ctx.script_commands), OpenToken(pool, cmd), cmd_lasttoken, "EXTERNAL")
        /\ DraftAt(pool, ctx) = DraftIn(pool, ctx)
    BY <1>1, DraftApart
  <1>3. /\ cmd # Null /\ Sound(Cells, pool') /\ Touches(pool, pool', {ctx.script_commands})
        /\ \E object \in Commands :
             /\ object.tokens = pool.db[cmd].token /\ object.labels = ctx.active_labels
             /\ pool'.db[ctx.script_commands].content = Append(pool.db[ctx.script_commands].content, object)
        /\ SameDraft(ctx, ctx') /\ ctx'.active_labels = Null
        /\ cmd' = Null /\ UNCHANGED programs
    BY <1>2, EndLeaves
  <1>4. PICK q, b, W, heads, tks, head, labels, last, end :
          /\ q = pool' /\ b = ctx.script_commands /\ W = {b}
          /\ heads = LabelHeads(pool, b) /\ tks = TokenHeads(pool, b)
          /\ head = OpenToken(pool, cmd) /\ end = cmd_lasttoken
          /\ labels = ctx.active_labels /\ last = ctx.active_labels_last
    OBVIOUS
  <1>5. PICK object \in Commands :
          /\ object.tokens = head /\ object.labels = labels /\ Added(pool, q, b, object)
    BY <1>3, <1>4 DEF Added, OpenToken
  <1>6. /\ Sound(Cells, pool) /\ Sound(Cells, q) /\ Touches(pool, q, W) /\ b \in Blocks
        /\ pool.db[b].type = "UNSPECIFIED" /\ pool.db[b].persistence_code = 0 /\ Objects(pool, b, Commands)
    BY <1>2, <1>3, <1>4 DEF DraftKept, Passing, Objects
  <1>7. /\ ListsApart(q, heads, labels, last, "STRING") /\ TextsSame(pool, q, heads)
        /\ TextsIn(q, labels) = TextsIn(pool, labels)
    <2>1. ListsApart(pool, heads, labels, last, "STRING") /\ \A x \in W : pool.db[x].type # "STRING"
      BY <1>2, <1>4, <1>6
    <2>2. /\ ListsApart(q, heads, labels, last, "STRING")
          /\ \A x \in heads \cup {labels} : TextsIn(q, x) = TextsIn(pool, x)
      BY <2>1, <1>6, ListsStay
    <2>3. QED
      BY <2>2 DEF TextsSame
  <1>8. /\ ListsApart(q, tks, head, end, "EXTERNAL") /\ TextsSame(pool, q, tks)
        /\ TextsIn(q, head) = TextsIn(pool, head)
    <2>1. ListsApart(pool, tks, head, end, "EXTERNAL") /\ \A x \in W : pool.db[x].type # "EXTERNAL"
      BY <1>2, <1>4, <1>6
    <2>2. /\ ListsApart(q, tks, head, end, "EXTERNAL")
          /\ \A x \in tks \cup {head} : TextsIn(q, x) = TextsIn(pool, x)
      BY <2>1, <1>6, ListsStay
    <2>3. QED
      BY <2>2 DEF TextsSame
  <1>9. /\ CodeIn(q, b) = Append(CodeIn(pool, b), CommandIn(q, object))
        /\ LabelHeads(q, b) \subseteq heads \cup {labels} /\ TokenHeads(q, b) \subseteq tks \cup {head}
    BY <1>4, <1>5, <1>6, <1>7, <1>8, CodeAdded
  <1>10. ctx'.drafting /\ ctx'.script_commands = b /\ ctx'.functions = ctx.functions
         /\ ctx'.memory_layout_ll = ctx.memory_layout_ll /\ ctx'.memory_layout_hl = ctx.memory_layout_hl
    BY <1>3, <1>4 DEF SameDraft, Drafts
  <1>11. OpenToken(q, cmd') = Null
    BY <1>3 DEF OpenToken
  <1>12. ListsKept(pool', ctx', cmd', cmd_lasttoken')
    <2>1. ListsApart(q, LabelHeads(q, b), Null, ctx'.active_labels_last, "STRING")
      BY <1>7, <1>9, ListsTaken
    <2>2. ListsApart(q, TokenHeads(q, b), Null, cmd_lasttoken', "EXTERNAL")
      BY <1>8, <1>9, ListsTaken
    <2>3. QED
      BY <2>1, <2>2, <1>3, <1>4, <1>10, <1>11 DEF ListsKept
  <1>13. OpenIn(pool, cmd) = TextsIn(pool, head) /\ OpenIn(q, cmd') = <<>>
    BY <1>3, <1>4, <1>6, OpenRead DEF OpenIn
  <1>14. OpenIn(pool, cmd) # <<>>
    <2>1. head \in Blocks /\ head # Null
      BY <1>2, <1>3, <1>4, CapacityAssumption DEF ServiceSound, CommandOpen, OpenToken, Blocks, Null
    <2>2. QED
      BY <2>1, <1>6, <1>13, TextsTyped
  <1>15. MapsStay(pool, q, ctx)
    <2>1. Kept(pool, ctx)
      BY <1>2 DEF DraftKept
    <2>2. Holds(pool, ctx) \cap W = {}
      BY <2>1, <1>4, <1>6, HoldsLive
    <2>3. QED
      BY <2>1, <2>2, <1>6, MapsUntouched
  <1>16. CommandIn(q, object) = [labels |-> TextsIn(pool, labels), tokens |-> OpenIn(pool, cmd)]
    BY <1>5, <1>7, <1>8, <1>13 DEF CommandIn
  <1>17. TextsIn(q, ctx'.active_labels) = <<>>
    BY <1>3, <1>6, TextsOfNone
  <1>18. DraftIn(q, ctx') = CommandPut(DraftIn(pool, ctx), OpenIn(pool, cmd))
    <2>1. PICK code, pending, functions, memory, open, e, d :
            /\ code = CodeIn(pool, b) /\ pending = TextsIn(pool, labels)
            /\ functions = FunctionsIn(pool, ctx.functions)
            /\ memory = MemoryIn(pool, ctx.memory_layout_ll, ctx.memory_layout_hl)
            /\ open = OpenIn(pool, cmd) /\ e = CommandIn(q, object) /\ d = DraftIn(pool, ctx)
      OBVIOUS
    <2>2. d = DraftOf(code, pending, functions, memory)
      BY <2>1, <1>4 DEF DraftIn, DraftOf
    <2>3. e = [labels |-> pending, tokens |-> open]
      BY <2>1, <1>16
    <2>4. /\ FunctionsIn(q, ctx'.functions) = functions
          /\ MemoryIn(q, ctx'.memory_layout_ll, ctx'.memory_layout_hl) = memory
      BY <2>1, <1>10, <1>15 DEF MapsStay
    <2>5. CodeIn(q, ctx'.script_commands) = Append(code, e)
      BY <2>1, <1>9, <1>10
    <2>6. DraftIn(q, ctx') = DraftOf(Append(code, e), <<>>, functions, memory)
      BY <2>4, <2>5, <1>17 DEF DraftIn, DraftOf
    <2>7. CommandPut(d, open) = DraftOf(Append(code, e), <<>>, functions, memory)
      BY <2>2, <2>3, CommandClosed
    <2>8. QED
      BY <2>1, <2>6, <2>7
  <1>19. BuiltIn(q, programs) = BuiltIn(pool, programs)
    <2>1. OfDraftOrPassing(W)
      BY <1>4, <1>6 DEF OfDraftOrPassing
    <2>2. QED
      BY <2>1, <1>2, <1>4, <1>6, BuiltStays
  <1>20. QED
    BY <1>1, <1>2, <1>3, <1>4, <1>10, <1>12, <1>13, <1>14, <1>18, <1>19 DEF DraftAt

\* emit-mem and the like give a name memory,
LEMMA EmittedMem ==
    ASSUME EmittedSound, NEW kind \in Kinds, NEW name \in Names, Mem(kind, name), ~Fail
    PROVE  /\ ListsKept(pool, ctx, cmd, cmd_lasttoken)'
           /\ DraftAt(pool', ctx') = [DraftAt(pool, ctx) EXCEPT !.memory = Emitted!With(@, name, Base[kind])]
           /\ OpenIn(pool', cmd') = OpenIn(pool, cmd) /\ BuiltIn(pool', programs') = BuiltIn(pool, programs)
  <1>1. ctx.drafting
    BY DEF Mem, Drafting
  <1>2. /\ ServiceSound /\ Sound(Cells, pool) /\ DraftKept(pool, ctx)
        /\ ListsApart(pool, LabelHeads(pool, ctx.script_commands), ctx.active_labels, ctx.active_labels_last, "STRING")
        /\ ListsApart(pool, TokenHeads(pool, ctx.script_commands), OpenToken(pool, cmd), cmd_lasttoken, "EXTERNAL")
        /\ DraftAt(pool, ctx) = DraftIn(pool, ctx)
    BY <1>1, DraftApart
  <1>3. PICK l, t, m, s : /\ l = ctx.memory_layout_ll /\ t = ctx.memory_layout_hl /\ m = ctx.memblock_table
                          /\ s = pool.db[t].store
    OBVIOUS
  <1>4. /\ Sound(Cells, pool') /\ Touches(pool, pool', {l, t, s, m})
        /\ \E low, high, place : DeclaredAs(pool, pool', l, t, s, kind, name, low, high, place)
        /\ UNCHANGED <<ctx, cmd, cmd_lasttoken, programs>>
    BY <1>2, <1>3, MemLeaves
  <1>5. PICK q, b, W, heads, tks, head, labels, last, end :
          /\ q = pool' /\ b = ctx.script_commands /\ W = {l, t, s, m}
          /\ heads = LabelHeads(pool, b) /\ tks = TokenHeads(pool, b)
          /\ head = OpenToken(pool, cmd) /\ end = cmd_lasttoken
          /\ labels = ctx.active_labels /\ last = ctx.active_labels_last
    OBVIOUS
  <1>6. /\ LayoutsKept(pool, l, t) /\ HasStore(pool, t, s) /\ FunctionsKept(pool, ctx.functions)
        /\ Passing(pool, m, "TABLE") /\ Passing(pool, b, "UNSPECIFIED")
    BY <1>2, <1>3, <1>5 DEF DraftKept, Kept, HasStore
  <1>7. /\ Sound(Cells, pool) /\ Sound(Cells, q) /\ Touches(pool, q, W)
        /\ \A x \in W : pool.db[x].type \in {"TABLE", "UNSPECIFIED"}
        /\ b \notin W /\ ctx.functions \notin W /\ pool.db[ctx.functions].store \notin W
    <2>1. Sound(Cells, pool) /\ Sound(Cells, q) /\ Touches(pool, q, W)
      BY <1>2, <1>4, <1>5
    <2>2. /\ pool.db[t].type = "TABLE" /\ pool.db[t].persistence_code > 0
          /\ pool.db[s].type = "UNSPECIFIED" /\ pool.db[s].persistence_code > 0
          /\ pool.db[l].type = "UNSPECIFIED" /\ pool.db[l].persistence_code > 0
          /\ pool.db[m].type = "TABLE" /\ pool.db[m].persistence_code = 0
          /\ pool.db[b].type = "UNSPECIFIED" /\ pool.db[b].persistence_code = 0
      BY <1>6 DEF LayoutsKept, HasStore, Passing
    <2>3. /\ pool.db[ctx.functions].type = "TABLE" /\ pool.db[ctx.functions].persistence_code > 0
          /\ pool.db[pool.db[ctx.functions].store].type = "UNSPECIFIED"
          /\ ctx.functions # t /\ pool.db[ctx.functions].store \notin {l, s}
      BY <1>2, <1>3, <1>6 DEF FunctionsKept, DraftKept, Kept
    <2>4. b \notin W
      BY <2>2, <1>5
    <2>5. ctx.functions \notin W /\ pool.db[ctx.functions].store \notin W
      BY <2>2, <2>3, <1>5
    <2>6. \A x \in W : pool.db[x].type \in {"TABLE", "UNSPECIFIED"}
      BY <2>2, <1>5
    <2>7. QED
      BY <2>1, <2>4, <2>5, <2>6
  <1>8. /\ ListsApart(q, heads, labels, last, "STRING") /\ TextsSame(pool, q, heads)
        /\ TextsIn(q, labels) = TextsIn(pool, labels)
    <2>1. ListsApart(pool, heads, labels, last, "STRING") /\ \A x \in W : pool.db[x].type # "STRING"
      BY <1>2, <1>5, <1>7
    <2>2. /\ ListsApart(q, heads, labels, last, "STRING")
          /\ \A x \in heads \cup {labels} : TextsIn(q, x) = TextsIn(pool, x)
      BY <2>1, <1>7, ListsStay
    <2>3. QED
      BY <2>2 DEF TextsSame
  <1>9. /\ ListsApart(q, tks, head, end, "EXTERNAL") /\ TextsSame(pool, q, tks)
        /\ TextsIn(q, head) = TextsIn(pool, head)
    <2>1. ListsApart(pool, tks, head, end, "EXTERNAL") /\ \A x \in W : pool.db[x].type # "EXTERNAL"
      BY <1>2, <1>5, <1>7
    <2>2. /\ ListsApart(q, tks, head, end, "EXTERNAL")
          /\ \A x \in tks \cup {head} : TextsIn(q, x) = TextsIn(pool, x)
      BY <2>1, <1>7, ListsStay
    <2>3. QED
      BY <2>2 DEF TextsSame
  <1>10. CodeIn(q, b) = CodeIn(pool, b) /\ LabelHeads(q, b) = heads /\ TokenHeads(q, b) = tks
    <2>1. q.db[b].content = pool.db[b].content
      BY <1>6, <1>7 DEF Touches, Passing, Live
    <2>2. QED
      BY <2>1, <1>5, <1>8, <1>9, CodeUntouched
  <1>11. FunctionsIn(q, ctx.functions) = FunctionsIn(pool, ctx.functions)
    BY <1>6, <1>7, FunctionsUntouched
  <1>12. MemoryIn(q, l, t) = Emitted!With(MemoryIn(pool, l, t), name, Base[kind])
    <2>1. PICK low, high, place : DeclaredAs(pool, q, l, t, s, kind, name, low, high, place)
      BY <1>4, <1>5
    <2>2. QED
      BY <2>1, <1>6, <1>7, MemoryAdded
  <1>13. DraftIn(q, ctx) = [DraftIn(pool, ctx) EXCEPT !.memory = Emitted!With(@, name, Base[kind])]
    BY <1>3, <1>5, <1>8, <1>10, <1>11, <1>12 DEF DraftIn
  <1>14. OpenToken(q, cmd) = head
    <2>1. CASE cmd = Null
      BY <2>1, <1>5 DEF OpenToken
    <2>2. CASE cmd # Null
      <3>1. cmd \in Blocks /\ Live(pool, cmd)
        BY <2>2, <1>2 DEF ServiceSound, CommandOpen, Passing, Live
      <3>2. QED
        BY <2>2, <3>1, <1>5, <1>7 DEF OpenToken, Touches
    <2>3. QED
      BY <2>1, <2>2
  <1>15. OpenIn(q, cmd) = OpenIn(pool, cmd)
    <2>1. OpenIn(q, cmd) = TextsIn(q, head) /\ OpenIn(pool, cmd) = TextsIn(pool, head)
      BY <1>5, <1>7, <1>14, OpenRead
    <2>2. QED
      BY <2>1, <1>9
  <1>16. ListsKept(pool', ctx', cmd', cmd_lasttoken')
    BY <1>1, <1>4, <1>5, <1>8, <1>9, <1>10, <1>14 DEF ListsKept
  <1>17. BuiltIn(q, programs) = BuiltIn(pool, programs)
    <2>1. OfDraftOrPassing(W)
      BY <1>1, <1>3, <1>5, <1>6 DEF OfDraftOrPassing, Holds, Passing
    <2>2. QED
      BY <2>1, <1>2, <1>5, <1>7, BuiltStays
  <1>18. QED
    BY <1>1, <1>2, <1>4, <1>5, <1>13, <1>15, <1>16, <1>17 DEF DraftAt

\* emit-label makes a label wait, and its name stand for the next command,
AppendedTexts(p, q, b, c, text) == TextsIn(q, c) = Append(TextsIn(p, b), text)
LEMMA TextAppended ==
    ASSUME NEW p, Sound(Cells, p), NEW q, Sound(Cells, q), NEW head \in Blocks, NEW b \in Blocks,
           TextsJoined(p, q, head, b), NEW name \in Names, TextsIn(q, b) = <<name>>
    PROVE  AppendedTexts(p, q, head, head, name)
  <1>1. PICK f, h : f = TextsIn(p, head) /\ h = TextsIn(q, head)
    OBVIOUS
  <1>2. f \in Seq(Cells \cup {NoText})
    BY <1>1, TextsTyped
  <1>3. name \in Cells \cup {NoText}
    BY DEF Cells, Text
  <1>4. h = f \o <<name>>
    BY <1>1 DEF TextsJoined
  <1>5. Append(f, name) = f \o <<name>>
    BY <1>2, <1>3, AppendIsConcat
  <1>6. QED
    BY <1>1, <1>4, <1>5 DEF AppendedTexts
LEMMA TextBegun ==
    ASSUME NEW p, Sound(Cells, p), NEW q, NEW b, NEW name, TextsIn(q, b) = <<name>>
    PROVE  AppendedTexts(p, q, Null, b, name)
  <1>1. TextsIn(p, Null) = <<>>
    BY TextsOfNone
  <1>2. Append(<<>>, name) = <<name>>
    OBVIOUS
  <1>3. QED
    BY <1>1, <1>2 DEF AppendedTexts
LEMMA EmittedLabel ==
    ASSUME EmittedSound, NEW name \in Names, Label(name), ~Fail
    PROVE  /\ ListsKept(pool, ctx, cmd, cmd_lasttoken)'
           /\ DraftAt(pool', ctx') = LabelPut(DraftAt(pool, ctx), name)
           /\ OpenIn(pool', cmd') = OpenIn(pool, cmd) /\ BuiltIn(pool', programs') = BuiltIn(pool, programs)
  <1>1. PICK F, s : F = ctx.functions /\ HasStore(pool, F, s)
    BY DEF HasStore
  <1>2. ServiceSound
    BY DEF EmittedSound
  <1>3. /\ ctx.drafting /\ Sound(Cells, pool') /\ Touches(pool, pool', LabelTouched(F, s))
        /\ UNCHANGED <<cmd, cmd_lasttoken, programs>>
    BY <1>1, <1>2, LabelLeaves
  <1>4. /\ Sound(Cells, pool) /\ DraftKept(pool, ctx)
        /\ ListsApart(pool, LabelHeads(pool, ctx.script_commands), ctx.active_labels, ctx.active_labels_last, "STRING")
        /\ ListsApart(pool, TokenHeads(pool, ctx.script_commands), OpenToken(pool, cmd), cmd_lasttoken, "EXTERNAL")
        /\ DraftAt(pool, ctx) = DraftIn(pool, ctx)
    BY <1>3, DraftApart
  <1>5. PICK b : SymbolAt(pool, pool', b, name) /\ LabelWaits(b)
    BY <1>1, <1>2, LabelLeaves
  <1>6. PICK object, place : /\ ObjectFor(name, object) /\ Added(pool, pool', s, object)
                             /\ Past(pool.db[s].content, place) /\ FieldPut(pool, pool', F, name, place)
    BY <1>1, <1>2, LabelLeaves
  <1>7. PICK q, c, W, l, t, heads, tks, head, labels, last, end :
          /\ q = pool' /\ c = ctx.script_commands /\ W = LabelTouched(F, s)
          /\ l = ctx.memory_layout_ll /\ t = ctx.memory_layout_hl
          /\ heads = LabelHeads(pool, c) /\ tks = TokenHeads(pool, c)
          /\ head = OpenToken(pool, cmd) /\ end = cmd_lasttoken
          /\ labels = ctx.active_labels /\ last = ctx.active_labels_last
    OBVIOUS
  <1>8. /\ Kept(pool, ctx) /\ Passing(pool, ctx.label_table, "TABLE") /\ Passing(pool, ctx.labelindex_table, "TABLE")
        /\ Passing(pool, c, "UNSPECIFIED") /\ ctx \in Drafts
        /\ labels # Null => Passing(pool, last, "STRING") /\ pool.db[last].next = Null
    BY <1>4, <1>7 DEF DraftKept
  <1>9. /\ pool.db[F].type = "TABLE" /\ pool.db[F].persistence_code # 0 /\ s = pool.db[F].store
        /\ pool.db[s].type = "UNSPECIFIED" /\ pool.db[s].persistence_code # 0
        /\ pool.db[ctx.label_table].type = "TABLE" /\ pool.db[ctx.label_table].persistence_code = 0
        /\ pool.db[ctx.labelindex_table].type = "TABLE" /\ pool.db[ctx.labelindex_table].persistence_code = 0
        /\ pool.db[c].type = "UNSPECIFIED" /\ pool.db[c].persistence_code = 0
        /\ labels # Null => pool.db[last].type = "STRING" /\ pool.db[last].persistence_code = 0
    BY <1>1, <1>8 DEF Kept, FunctionsKept, HasStore, Passing
  <1>10. /\ Sound(Cells, pool) /\ Sound(Cells, q) /\ Touches(pool, q, W)
         /\ \A x \in W : pool.db[x].type # "EXTERNAL" /\ (pool.db[x].type = "STRING" => labels # Null /\ x = last)
         /\ c \notin W /\ OfDraftOrPassing(W)
    <2>1. \A x \in W : pool.db[x].type # "EXTERNAL" /\ (pool.db[x].type = "STRING" => labels # Null /\ x = last)
      BY <1>7, <1>9 DEF LabelTouched
    <2>2. c \notin W
      BY <1>7, <1>9 DEF LabelTouched
    <2>3. F \in Holds(pool, ctx) /\ s \in Holds(pool, ctx)
      BY <1>1, <1>9 DEF Holds
    <2>4. OfDraftOrPassing(W)
      BY <2>3, <1>3, <1>7, <1>9 DEF OfDraftOrPassing, LabelTouched
    <2>5. QED
      BY <2>1, <2>2, <2>4, <1>3, <1>4, <1>7
  <1>11. /\ b \in Blocks /\ ~Live(pool, b) /\ b # Null /\ ListOpen(q, {b}, b, b, "STRING")
         /\ TextsIn(q, b) = <<name>>
    <2>1. /\ b \in Blocks /\ ~Live(pool, b) /\ b # Null
          /\ q.db[b].type = "STRING" /\ q.db[b].next = Null /\ q.db[b].content = <<name>>
      BY <1>5, <1>7 DEF SymbolAt, Passing
    <2>2. ListOpen(q, {b}, b, b, "STRING")
      BY <2>1 DEF ListOpen
    <2>3. TextsIn(q, b) = <<name>>
      BY <2>1, <1>10, TextsOfOne
    <2>4. QED
      BY <2>1, <2>2, <2>3
  <1>12. /\ SameDraft(ctx, ctx') /\ ctx'.active_labels_last = b
         /\ labels = Null => ctx'.active_labels = b
         /\ labels # Null => ctx'.active_labels = labels /\ q.db[last].next = b
    BY <1>5, <1>7 DEF LabelWaits
  <1>13. /\ ctx'.drafting /\ ctx'.script_commands = c /\ ctx'.functions = F
         /\ ctx'.memory_layout_ll = l /\ ctx'.memory_layout_hl = t
    BY <1>1, <1>7, <1>12 DEF SameDraft, Drafts
  <1>14. /\ ListsApart(q, heads, ctx'.active_labels, b, "STRING") /\ TextsSame(pool, q, heads)
         /\ AppendedTexts(pool, q, labels, ctx'.active_labels, name)
    <2>1. ListsApart(pool, heads, labels, last, "STRING") /\ \A x \in {b} : ~Live(pool, x)
      BY <1>4, <1>7, <1>11
    <2>2. CASE labels = Null
      <3>1. \A x \in W : pool.db[x].type # "STRING"
        BY <2>2, <1>10
      <3>2. ListsApart(q, heads, b, b, "STRING") /\ \A x \in heads : TextsIn(q, x) = TextsIn(pool, x)
        BY <2>1, <3>1, <1>10, <1>11, ListsBegin
      <3>3. AppendedTexts(pool, q, labels, b, name)
        BY <2>2, <1>10, <1>11, TextBegun
      <3>4. QED
        BY <2>2, <3>2, <3>3, <1>12 DEF TextsSame
    <2>3. CASE labels # Null
      <3>1. LinkedTo(pool, q, last, b) /\ labels \in Blocks
        BY <2>3, <1>7, <1>8, <1>12 DEF LinkedTo, Drafts
      <3>2. /\ ListsApart(q, heads, labels, b, "STRING") /\ \A x \in heads : TextsIn(q, x) = TextsIn(pool, x)
            /\ TextsJoined(pool, q, labels, b)
        BY <2>1, <2>3, <3>1, <1>10, <1>11, ListsGrow
      <3>3. AppendedTexts(pool, q, labels, labels, name)
        BY <3>1, <3>2, <1>10, <1>11, TextAppended
      <3>4. QED
        BY <2>3, <3>2, <3>3, <1>12 DEF TextsSame
    <2>4. QED
      BY <2>2, <2>3
  <1>15. /\ ListsApart(q, tks, head, end, "EXTERNAL") /\ TextsSame(pool, q, tks)
         /\ TextsIn(q, head) = TextsIn(pool, head)
    <2>1. ListsApart(pool, tks, head, end, "EXTERNAL") /\ \A x \in W : pool.db[x].type # "EXTERNAL"
      BY <1>4, <1>7, <1>10
    <2>2. /\ ListsApart(q, tks, head, end, "EXTERNAL")
          /\ \A x \in tks \cup {head} : TextsIn(q, x) = TextsIn(pool, x)
      BY <2>1, <1>10, ListsStay
    <2>3. QED
      BY <2>2 DEF TextsSame
  <1>16. CodeIn(q, c) = CodeIn(pool, c) /\ LabelHeads(q, c) = heads /\ TokenHeads(q, c) = tks
    <2>1. q.db[c].content = pool.db[c].content
      BY <1>8, <1>10 DEF Touches, Passing, Live
    <2>2. QED
      BY <2>1, <1>7, <1>14, <1>15, CodeUntouched
  <1>17. FunctionsIn(q, F) = Emitted!With(FunctionsIn(pool, F), name, Len(CodeIn(pool, c)))
    <2>1. object.value = Len(CodeIn(pool, c))
      <3>1. Code = CodeIn(pool, c) /\ Len(Code) = Index
        BY <1>4, <1>7, CodeRead
      <3>2. object.value = Index
        BY <1>6 DEF ObjectFor
      <3>3. QED
        BY <3>1, <3>2
    <2>2. FunctionsKept(pool, F) /\ Added(pool, q, s, object) /\ FieldPut(pool, q, F, name, place)
      BY <1>1, <1>6, <1>7, <1>8 DEF Kept
    <2>3. FunctionsIn(q, F) = Emitted!With(FunctionsIn(pool, F), name, object.value)
      BY <2>2, <1>1, <1>6, <1>10, FunctionAdded
    <2>4. QED
      BY <2>1, <2>3
  <1>18. MemoryIn(q, l, t) = MemoryIn(pool, l, t)
    <2>1. LayoutsKept(pool, l, t) /\ F # t /\ s # l /\ s # pool.db[t].store
      BY <1>1, <1>7, <1>8, <1>9 DEF Kept
    <2>2. /\ pool.db[t].type = "TABLE" /\ pool.db[t].persistence_code # 0
          /\ pool.db[l].type = "UNSPECIFIED" /\ pool.db[l].persistence_code # 0
          /\ pool.db[pool.db[t].store].type = "UNSPECIFIED" /\ pool.db[pool.db[t].store].persistence_code # 0
      BY <2>1, LayoutBlocks
    <2>3. l \notin W /\ t \notin W /\ pool.db[t].store \notin W
      BY <2>1, <2>2, <1>7, <1>9 DEF LabelTouched
    <2>4. QED
      BY <2>1, <2>3, <1>10, MemoryUntouched
  <1>19. DraftIn(q, ctx') = LabelPut(DraftIn(pool, ctx), name)
    <2>1. PICK code, pending, functions, memory, at, d :
            /\ code = CodeIn(pool, c) /\ pending = TextsIn(pool, labels)
            /\ functions = FunctionsIn(pool, F) /\ memory = MemoryIn(pool, l, t)
            /\ at = Len(code) /\ d = DraftIn(pool, ctx)
      OBVIOUS
    <2>2. d = DraftOf(code, pending, functions, memory)
      BY <2>1, <1>1, <1>7 DEF DraftIn, DraftOf
    <2>3. TextsIn(q, ctx'.active_labels) = Append(pending, name)
      BY <2>1, <1>14 DEF AppendedTexts
    <2>4. FunctionsIn(q, ctx'.functions) = Emitted!With(functions, name, at)
      BY <2>1, <1>13, <1>17
    <2>5. /\ CodeIn(q, ctx'.script_commands) = code
          /\ MemoryIn(q, ctx'.memory_layout_ll, ctx'.memory_layout_hl) = memory
      BY <2>1, <1>13, <1>16, <1>18
    <2>6. DraftIn(q, ctx') = DraftOf(code, Append(pending, name), Emitted!With(functions, name, at), memory)
      BY <2>3, <2>4, <2>5 DEF DraftIn, DraftOf
    <2>7. LabelPut(d, name) = DraftOf(code, Append(pending, name), Emitted!With(functions, name, at), memory)
      BY <2>1, <2>2, LabelNamed
    <2>8. QED
      BY <2>1, <2>6, <2>7
  <1>20. OpenToken(q, cmd) = head
    <2>1. CASE cmd = Null
      BY <2>1, <1>7 DEF OpenToken
    <2>2. CASE cmd # Null
      <3>1. cmd \in Blocks /\ Live(pool, cmd) /\ pool.db[cmd].type = "STRING"
        BY <2>2, <1>2 DEF ServiceSound, CommandOpen, Passing, Live
      <3>2. q.db[cmd].token = pool.db[cmd].token
        <4>1. CASE cmd \in W
          BY <4>1, <3>1, <1>5, <1>7, <1>10 DEF LabelWaits
        <4>2. CASE cmd \notin W
          BY <4>2, <3>1, <1>10 DEF Touches
        <4>3. QED
          BY <4>1, <4>2
      <3>3. QED
        BY <2>2, <3>2, <1>7 DEF OpenToken
    <2>3. QED
      BY <2>1, <2>2
  <1>21. OpenIn(q, cmd) = OpenIn(pool, cmd)
    <2>1. OpenIn(q, cmd) = TextsIn(q, head) /\ OpenIn(pool, cmd) = TextsIn(pool, head)
      BY <1>7, <1>10, <1>20, OpenRead
    <2>2. QED
      BY <2>1, <1>15
  <1>22. ListsKept(pool', ctx', cmd', cmd_lasttoken')
    BY <1>3, <1>7, <1>12, <1>13, <1>14, <1>15, <1>16, <1>20 DEF ListsKept
  <1>23. BuiltIn(q, programs) = BuiltIn(pool, programs)
    BY <1>2, <1>7, <1>10, BuiltStays
  <1>24. QED
    BY <1>3, <1>4, <1>7, <1>13, <1>19, <1>21, <1>22, <1>23 DEF DraftAt

\* and emit-build makes a program of what was emitted, and leaves no draft.
LEMMA EmittedBuild ==
    ASSUME EmittedSound, Build, ~Fail, NEW d, d = DraftAt(pool, ctx)
    PROVE  /\ ListsKept(pool, ctx, cmd, cmd_lasttoken)'
           /\ DraftAt(pool', ctx') = Emitted!NoDraft /\ OpenIn(pool', cmd') = OpenIn(pool, cmd)
           /\ BuiltIn(pool', programs')
                = Append(BuiltIn(pool, programs), [code |-> d.code, functions |-> d.functions, memory |-> d.memory])
  <1>1. ServiceSound
    BY DEF EmittedSound
  <1>2. /\ DraftKept(pool, ctx) /\ ctx.drafting /\ Sound(Cells, pool) /\ CodedSame(pool, pool')
        /\ ctx' = [drafting |-> FALSE] /\ cmd = Null /\ cmd' = Null
    BY <1>1, BuildLeaves DEF ServiceSound
  <1>3. PICK q : OfDraft(q, ctx) /\ programs' = Append(programs, q) /\ q.code = Code
    BY <1>1, BuildLeaves
  <1>4. /\ ListsKept(pool', ctx', cmd', cmd_lasttoken') /\ DraftAt(pool', ctx') = Emitted!NoDraft
        /\ OpenIn(pool', cmd') = OpenIn(pool, cmd)
    BY <1>2 DEF ListsKept, DraftAt, OpenIn
  <1>5. PICK S : programs \in Seq(S)
    BY <1>1 DEF ServiceSound
  <1>6. PICK n \in Nat : n = Len(programs)
    BY <1>5, LenProperties
  <1>7. PICK more : more = programs'
    OBVIOUS
  <1>8. Len(more) = n + 1 /\ more[n + 1] = q /\ \A i \in 1 .. n : more[i] = programs[i]
    <2>1. programs \in Seq(S \cup {q}) /\ q \in S \cup {q}
      BY <1>5
    <2>2. QED
      BY <2>1, <1>3, <1>6, <1>7, AppendProperties
  <1>9. \A i \in 1 .. n : ProgramIn(pool', programs[i]) = ProgramIn(pool, programs[i])
    <2>1. ASSUME NEW i \in 1 .. n
          PROVE  ProgramIn(pool', programs[i]) = ProgramIn(pool, programs[i])
      <3>1. Kept(pool, programs[i])
        BY <1>1, <1>6 DEF ServiceSound
      <3>2. MapsStay(pool, pool', programs[i])
        BY <3>1, <1>2, MapsCoded
      <3>3. QED
        BY <3>2, ProgramReadSame
    <2>2. QED
      BY <2>1
  <1>10. PICK e : e = [code |-> d.code, functions |-> d.functions, memory |-> d.memory]
    OBVIOUS
  <1>11. ProgramIn(pool', q) = e
    <2>1. MapsStay(pool, pool', ctx)
      BY <1>2, MapsCoded DEF DraftKept
    <2>2. q.code = CodeIn(pool, ctx.script_commands)
      BY <1>2, <1>3, CodeRead
    <2>3. /\ d.code = CodeIn(pool, ctx.script_commands) /\ d.functions = FunctionsIn(pool, ctx.functions)
          /\ d.memory = MemoryIn(pool, ctx.memory_layout_ll, ctx.memory_layout_hl)
      BY <1>2 DEF DraftAt, DraftIn
    <2>4. /\ FunctionsIn(pool', q.functions) = d.functions
          /\ MemoryIn(pool', q.memory_layout_ll, q.memory_layout_hl) = d.memory
      BY <2>1, <2>3, <1>3 DEF OfDraft, MapsStay
    <2>5. QED
      BY <2>2, <2>3, <2>4, <1>10 DEF ProgramIn
  <1>12. PICK f, g : f = BuiltIn(pool, programs) /\ g = BuiltIn(pool', more)
    OBVIOUS
  <1>13. IsAppend(f, g, n, e)
    <2>1. /\ f = [i \in 1 .. n |-> ProgramIn(pool, programs[i])]
          /\ g = [i \in 1 .. n + 1 |-> ProgramIn(pool', more[i])]
      BY <1>6, <1>8, <1>12 DEF BuiltIn
    <2>2. \A i \in 1 .. n : i \in 1 .. n + 1
      OBVIOUS
    <2>3. \A i \in 1 .. n : f[i] = ProgramIn(pool, programs[i]) /\ g[i] = ProgramIn(pool', more[i])
      BY <2>1, <2>2
    <2>4. \A i \in 1 .. n : g[i] = f[i]
      BY <2>3, <1>8, <1>9
    <2>5. n + 1 \in 1 .. n + 1
      OBVIOUS
    <2>6. g[n + 1] = e
      BY <2>1, <2>5, <1>8, <1>11
    <2>7. f = [i \in 1 .. n |-> f[i]] /\ g = [i \in 1 .. n + 1 |-> g[i]]
      BY <2>1
    <2>8. QED
      BY <2>4, <2>6, <2>7 DEF IsAppend
  <1>14. g = Append(f, e)
    BY <1>13, IsAppended
  <1>15. QED
    BY <1>4, <1>7, <1>10, <1>12, <1>14

\* Every call keeps the lists apart.
LEMMA EmittedStep ==
    ASSUME EmittedSound, [Next]_vars
    PROVE  EmittedSound'
  <1>1. ServiceSound' /\ EmittedSound
    BY SoundStep DEF EmittedSound
  <1>2. SUFFICES ListsKept(pool, ctx, cmd, cmd_lasttoken)'
    BY <1>1 DEF EmittedSound
  <1>3. CASE UNCHANGED <<pool, ctx, cmd, cmd_lasttoken, programs>>
    BY <1>3, EmittedFail
  <1>4. CASE Next /\ ~Fail
    <2>1. CASE New
      BY <2>1, EmittedNew
    <2>2. CASE EndCmd
      BY <2>2, <1>4, EmittedEnd
    <2>3. CASE OperandInvalid \/ Rejected
      BY <2>3, <1>4 DEF OperandInvalid, Rejected
    <2>4. CASE Build
      BY <2>4, <1>4, EmittedBuild
    <2>5. CASE \E name \in Names : Label(name)
      BY <2>5, <1>4, EmittedLabel
    <2>6. CASE \E name \in Names : \E kind \in Kinds : Mem(kind, name)
      BY <2>6, <1>4, EmittedMem
    <2>7. CASE \E token \in Instructions \cup Operands : Cmd(token)
      BY <2>7, <1>4, EmittedCmd
    <2>8. CASE \E n \in 1 .. MaxTokens : \E tokens \in [1 .. n -> Operands] : AppendTokens(tokens)
      BY <2>8, <1>4, EmittedAppend
    <2>9. QED
      BY <1>4, <2>1, <2>2, <2>3, <2>4, <2>5, <2>6, <2>7, <2>8 DEF Next
  <1>5. QED
    BY <1>3, <1>4 DEF Fail, vars

\* The mapping, before and after a call.
Mapped == Draft = DraftAt(pool, ctx) /\ Open = OpenIn(pool, cmd) /\ Built = BuiltIn(pool, programs)
LEMMA SoundIsMapped == EmittedSound => Mapped
  BY MappingRead DEF EmittedSound, Mapped

\* Every call does to what was emitted what the service promises, or nothing.
LEMMA EmittedNext ==
    ASSUME EmittedSound, Mapped, Mapped', [Next]_vars
    PROVE  [Emitted!Next]_<<Draft, Open, Built>>
  <1>1. /\ Draft = DraftAt(pool, ctx) /\ Open = OpenIn(pool, cmd) /\ Built = BuiltIn(pool, programs)
        /\ Draft' = DraftAt(pool', ctx') /\ Open' = OpenIn(pool', cmd') /\ Built' = BuiltIn(pool', programs')
    BY DEF Mapped
  <1>2. ASSUME Unseen PROVE UNCHANGED <<Draft, Open, Built>>
    BY <1>1, <1>2 DEF Unseen
  <1>3. CASE UNCHANGED <<pool, ctx, cmd, cmd_lasttoken, programs>>
    BY <1>2, <1>3, EmittedFail
  <1>4. CASE Next /\ ~Fail
    <2>1. CASE New
      <3>1. CASE Unseen
        BY <1>2, <3>1
      <3>2. CASE /\ DraftAt(pool', ctx') = Emitted!NoDraft
                 /\ OpenIn(pool', cmd') = OpenIn(pool, cmd)
                 /\ BuiltIn(pool', programs') = BuiltIn(pool, programs)
        BY <3>2, <1>1 DEF Emitted!New, Emitted!Next
      <3>3. QED
        BY <2>1, <3>1, <3>2, EmittedNew
    <2>2. CASE EndCmd
      <3>1. /\ OpenIn(pool, cmd) # <<>> /\ OpenIn(pool', cmd') = <<>>
            /\ DraftAt(pool', ctx') = CommandPut(DraftAt(pool, ctx), OpenIn(pool, cmd))
            /\ BuiltIn(pool', programs') = BuiltIn(pool, programs)
        BY <2>2, <1>4, EmittedEnd
      <3>2. /\ Open # <<>> /\ Open' = <<>> /\ Built' = Built /\ Draft' = CommandPut(Draft, Open)
        BY <3>1, <1>1
      <3>3. Emitted!End
        BY <3>2 DEF Emitted!End, Emitted!NoCommand, CommandPut
      <3>4. QED
        BY <3>3 DEF Emitted!Next
    <2>3. CASE OperandInvalid \/ Rejected
      BY <2>3, <1>4 DEF OperandInvalid, Rejected
    <2>4. CASE Build
      <3>1. PICK d : d = DraftAt(pool, ctx)
        OBVIOUS
      <3>2. /\ DraftAt(pool', ctx') = Emitted!NoDraft /\ OpenIn(pool', cmd') = OpenIn(pool, cmd)
            /\ BuiltIn(pool', programs')
                 = Append(BuiltIn(pool, programs), [code |-> d.code, functions |-> d.functions, memory |-> d.memory])
        BY <2>4, <3>1, <1>4, EmittedBuild
      <3>3. /\ Draft' = Emitted!NoDraft /\ Open' = Open
            /\ Built' = Append(Built, [code |-> Draft.code, functions |-> Draft.functions, memory |-> Draft.memory])
        BY <3>1, <3>2, <1>1
      <3>4. Emitted!Build
        BY <3>3 DEF Emitted!Build
      <3>5. QED
        BY <3>4 DEF Emitted!Next
    <2>5. CASE \E name \in Names : Label(name)
      <3>1. PICK name \in Names : Label(name)
        BY <2>5
      <3>2. /\ DraftAt(pool', ctx') = LabelPut(DraftAt(pool, ctx), name)
            /\ OpenIn(pool', cmd') = OpenIn(pool, cmd) /\ BuiltIn(pool', programs') = BuiltIn(pool, programs)
        BY <3>1, <1>4, EmittedLabel
      <3>3. Draft' = LabelPut(Draft, name) /\ Open' = Open /\ Built' = Built
        BY <3>2, <1>1
      <3>4. Emitted!Label(name)
        BY <3>3 DEF Emitted!Label, LabelPut
      <3>5. QED
        BY <3>4 DEF Emitted!Next
    <2>6. CASE \E name \in Names : \E kind \in Kinds : Mem(kind, name)
      <3>1. PICK name \in Names, kind \in Kinds : Mem(kind, name)
        BY <2>6
      <3>2. /\ DraftAt(pool', ctx') = [DraftAt(pool, ctx) EXCEPT !.memory = Emitted!With(@, name, Base[kind])]
            /\ OpenIn(pool', cmd') = OpenIn(pool, cmd) /\ BuiltIn(pool', programs') = BuiltIn(pool, programs)
        BY <3>1, <1>4, EmittedMem
      <3>3. PICK base : base = Base[kind]
        OBVIOUS
      <3>4. Emitted!Memory(name, base)
        BY <3>2, <3>3, <1>1 DEF Emitted!Memory
      <3>5. base \in Range(Base)
        BY <3>3, KindsAssumption DEF Base, Range
      <3>6. QED
        BY <3>4, <3>5 DEF Emitted!Next
    <2>7. CASE \E token \in Instructions \cup Operands : Cmd(token)
      <3>1. PICK token \in Instructions \cup Operands : Cmd(token)
        BY <2>7
      <3>2. /\ OpenIn(pool', cmd') = <<token>> /\ DraftAt(pool', ctx') = DraftAt(pool, ctx)
            /\ BuiltIn(pool', programs') = BuiltIn(pool, programs)
        BY <3>1, <1>4, EmittedCmd
      <3>3. Emitted!Begin(token)
        BY <3>2, <1>1 DEF Emitted!Begin
      <3>4. QED
        BY <3>3 DEF Emitted!Next
    <2>8. CASE \E n \in 1 .. MaxTokens : \E tokens \in [1 .. n -> Operands] : AppendTokens(tokens)
      <3>1. /\ OpenIn(pool, cmd) # <<>> /\ Emitted!IsStrictPrefix(OpenIn(pool, cmd), OpenIn(pool', cmd'))
            /\ DraftAt(pool', ctx') = DraftAt(pool, ctx) /\ BuiltIn(pool', programs') = BuiltIn(pool, programs)
        BY <2>8, <1>4, EmittedAppend
      <3>2. Emitted!Extend
        BY <3>1, <1>1 DEF Emitted!Extend, Emitted!NoCommand
      <3>3. QED
        BY <3>2 DEF Emitted!Next
    <2>9. QED
      BY <1>4, <2>1, <2>2, <2>3, <2>4, <2>5, <2>6, <2>7, <2>8 DEF Next
  <1>5. QED
    BY <1>3, <1>4 DEF Fail, vars

\* The service implements EmittedPrograms: whatever blocks the lists and tables
\* of earlier drafts lie in, a program that is built consists of exactly what was
\* emitted since emit-new, and stays so through later drafts and culls.
THEOREM ServiceImplementsEmitted == Spec => ImplementsEmitted
  <1>1. Init => EmittedSound /\ Emitted!Init
    <2> SUFFICES ASSUME Init PROVE EmittedSound /\ Emitted!Init
      OBVIOUS
    <2>1. ctx = [drafting |-> FALSE] /\ cmd = Null /\ programs = <<>>
      BY DEF Init
    <2>2. EmittedSound
      BY <2>1, SoundInit DEF EmittedSound, ListsKept
    <2>3. Draft = Emitted!NoDraft /\ Open = <<>>
      BY <2>1 DEF Draft, Open, Emitted!NoDraft
    <2>4. Built = <<>>
      <3>1. DOMAIN programs = {}
        BY <2>1
      <3>2. PICK f : f = Built
        OBVIOUS
      <3>3. f = [n \in {} |-> f[n]]
        BY <3>1, <3>2 DEF Built
      <3>4. QED
        BY <3>2, <3>3, EmptyMap
    <2>5. QED
      BY <2>2, <2>3, <2>4 DEF Emitted!Init, Emitted!NoCommand
  <1>2. EmittedSound /\ [Next]_vars => EmittedSound'
    BY EmittedStep
  <1>3. EmittedSound /\ Mapped /\ Mapped' /\ [Next]_vars => [Emitted!Next]_<<Draft, Open, Built>>
    BY EmittedNext
  <1>4. QED
    BY <1>1, <1>2, <1>3, SoundIsMapped, PTL DEF Spec, ImplementsEmitted, Emitted!Spec
=============================================================================
