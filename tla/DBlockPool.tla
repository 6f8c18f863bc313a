----------------------------- MODULE DBlockPool -----------------------------
(* The pool of dblocks (libtactyk/tactyk_dblock.c): a fixed array of blocks,   *)
(* a stack of those that are free, and persistence codes, which decide what a  *)
(* cull gives back.  A pool is a value; the operators return the pool that the *)
(* function of the same name leaves.  Whoever takes blocks checks Room first:  *)
(* with an empty stack tactyk_dblock__alloc ends the program.                  *)
EXTENDS Naturals, Sequences, FiniteSets

CONSTANT DBLOCKS_CAPACITY     \* 2^20 in the code
ASSUME CapacityAssumption == DBLOCKS_CAPACITY \in Nat \ {0}

Blocks == 1 .. DBLOCKS_CAPACITY
Null == 0
NoText == "(no text)"

(* Content is <<text>> in a string, the fields [key, value] of a table, and    *)
(* the objects of a container.  Buffers and their sizes are left out.          *)
Disposed == [type |-> "NONE", persistence_code |-> 0, self_managed |-> FALSE, content |-> <<>>,
             next |-> Null, child |-> Null, token |-> Null, store |-> Null]
String(t) == [Disposed EXCEPT !.type = "STRING", !.self_managed = TRUE, !.content = <<t>>]
External(t) == [Disposed EXCEPT !.type = "EXTERNAL", !.content = <<t>>]
Container == [Disposed EXCEPT !.type = "UNSPECIFIED", !.self_managed = TRUE]
Table(b) == [Disposed EXCEPT !.type = "TABLE", !.self_managed = TRUE, !.store = b]

FullPool == [db |-> [b \in Blocks |-> Disposed], stack |-> [i \in Blocks |-> i]]

Room(p, n) == Len(p.stack) >= n

(* The i-th block that the next allocations return. *)
Top(p, i) == p.stack[Len(p.stack) + 1 - i]

Take(p, new) ==
  [db |-> [b \in Blocks |-> IF \E i \in DOMAIN new : b = Top(p, i)
                            THEN new[CHOOSE i \in DOMAIN new : b = Top(p, i)]
                            ELSE p.db[b]],
   stack |-> SubSeq(p.stack, 1, Len(p.stack) - Len(new))]

Link(p, b, c) == [p EXCEPT !.db[b].next = c]

TextOf(p, b) == IF p.db[b].type \in {"STRING", "EXTERNAL"} THEN Head(p.db[b].content) ELSE NoText

(* A list of blocks, following next. *)
Chain(p, b) ==
  LET from[x \in Blocks \cup {Null}] == IF x = Null THEN <<>> ELSE <<x>> \o from[p.db[x].next]
  IN  from[b]

Linked(p, b) == {p.db[b].child, p.db[b].next, p.db[b].token, p.db[b].store} \ {Null}
Keys(p, b) == IF p.db[b].type = "TABLE" THEN {f.key : f \in {p.db[b].content[i] : i \in DOMAIN p.db[b].content}}
                                        ELSE {}

(* Where set_persistence_code gets to from b: it stops at blocks that have the *)
(* code already, follows the links and the keys of tables, and no values.      *)
Raised(p, b, code) ==
  LET Lower(S) == {x \in S : p.db[x].persistence_code < code}
      closure[S \in SUBSET Blocks] ==
        LET T == S \cup Lower(UNION {Linked(p, x) \cup Keys(p, x) : x \in S})
        IN  IF T = S THEN S ELSE closure[T]
  IN  closure[Lower({b})]

SetPersistenceCode(p, b, code) ==
  LET raised == Raised(p, b, code)
  IN  [p EXCEPT !.db = [x \in Blocks |-> IF x \in raised THEN [p.db[x] EXCEPT !.persistence_code = code]
                                                         ELSE p.db[x]]]

(* The blocks that a cull disposes: the free ones have code 0 as well. *)
CulledFreeToo(p, code) == {b \in Blocks : p.db[b].persistence_code = code}   \* Mutant: no test for NONE
Culled(p, code) == {b \in Blocks : p.db[b].persistence_code = code /\ p.db[b].type # "NONE"}

Freed(p, culled) ==
  LET pushed[n \in 0 .. DBLOCKS_CAPACITY] ==
        IF n = 0 THEN p.stack ELSE IF n \in culled THEN Append(pushed[n - 1], n) ELSE pushed[n - 1]
  IN  pushed[DBLOCKS_CAPACITY]
Cull(p, code) ==
  LET culled == Culled(p, code)
  IN  [db |-> [b \in Blocks |-> IF b \in culled THEN Disposed ELSE p.db[b]], stack |-> Freed(p, culled)]

NewObject(p, container, object) == [p EXCEPT !.db[container].content = Append(@, object)]

FieldsWith(p, table, text) ==
  {i \in DOMAIN p.db[table].content : TextOf(p, p.db[table].content[i].key) = text}
Has(p, table, text) == FieldsWith(p, table, text) # {}
Get(p, table, text) == p.db[table].content[CHOOSE i \in FieldsWith(p, table, text) : TRUE].value

(* A key of its own for the table: the key given, if nobody manages its buffer,*)
(* or else a copy, which has the links of the key but not its code.            *)
KeyTaken(p, key) == IF p.db[key].self_managed THEN Top(p, 1) ELSE key
WithTransientKey(p, table, key) ==                               \* Mutant: the copy keeps its code 0
  IF p.db[key].self_managed THEN Take(p, <<[p.db[key] EXCEPT !.persistence_code = 0]>>) ELSE p
WithKey(p, table, key) ==
  LET copied == IF p.db[key].self_managed THEN Take(p, <<[p.db[key] EXCEPT !.persistence_code = 0]>>) ELSE p
  IN  SetPersistenceCode(copied, KeyTaken(p, key), p.db[table].persistence_code)

(* tactyk_dblock__put of a value that is no dblock, with a dblock for a key. *)
Put(p, table, key, value) ==
  LET text == TextOf(p, key)
      found == FieldsWith(p, table, text)
  IN  IF found = {}
      THEN [WithKey(p, table, key) EXCEPT !.db[table].content =
              Append(@, [key |-> KeyTaken(p, key), value |-> value])]
      ELSE [p EXCEPT !.db[table].content[CHOOSE i \in found : TRUE].value = value]

(* ... and of one that is: it gets the code of the table. *)
PutBlock(p, table, key, value) ==
  Put(SetPersistenceCode(p, value, p.db[table].persistence_code), table, key, value)

(* The stack holds the free blocks, each once. *)
StackExact(p) ==
  /\ Cardinality({p.stack[i] : i \in DOMAIN p.stack}) = Len(p.stack)
  /\ {p.stack[i] : i \in DOMAIN p.stack} = {b \in Blocks : p.db[b].type = "NONE"}

(* What a block with a persistence code refers to survives every cull that it  *)
(* survives itself.                                                            *)
LinksSurvive(p) ==
  \A b \in Blocks : p.db[b].persistence_code > 0 =>
    \A c \in Linked(p, b) \cup Keys(p, b) :
      p.db[c].type # "NONE" /\ p.db[c].persistence_code >= p.db[b].persistence_code
=============================================================================
