--------------------------- MODULE EmittedPrograms ---------------------------
(* What the emitter service promises a script (doc/tactyk-emit.txt): it works  *)
(* on one program at a time, a program consists of what was emitted since      *)
(* emit-new, in that order, and a built program stays as it was built.  Names, *)
(* tokens and labels are values here: no block, no table, no persistence code. *)
EXTENDS Naturals, Sequences, SequencesExt

CONSTANTS Vocabulary,       \* names and tokens
          Bases              \* where the memory of a block comes from

VARIABLES draft,             \* the program that is being emitted
          open,              \* the tokens of the open command
          built              \* the programs built so far

NoCommand == <<>>
NoDraft == [code |-> <<>>, pending |-> <<>>, functions |-> <<>>, memory |-> <<>>]

(* A partial function that also has, or now has, value v at x. *)
With(f, x, v) == [y \in DOMAIN f \cup {x} |-> IF y = x THEN v ELSE f[y]]

Init == draft = NoDraft /\ open = NoCommand /\ built = <<>>

New == draft' = NoDraft /\ UNCHANGED <<open, built>>

(* A label stands before the next command. *)
Label(name) == /\ draft' = [draft EXCEPT !.pending = Append(@, name),
                                         !.functions = With(@, name, Len(draft.code))]
               /\ UNCHANGED <<open, built>>

Memory(name, base) == draft' = [draft EXCEPT !.memory = With(@, name, base)] /\ UNCHANGED <<open, built>>

Begin(token) == open' = <<token>> /\ UNCHANGED <<draft, built>>
Extend == open # NoCommand /\ IsStrictPrefix(open, open') /\ UNCHANGED <<draft, built>>
End == /\ open # NoCommand
       /\ draft' = [draft EXCEPT !.code = Append(@, [labels |-> draft.pending, tokens |-> open]),
                                 !.pending = <<>>]
       /\ open' = NoCommand
       /\ UNCHANGED built

Build == /\ built' = Append(built, [code |-> draft.code, functions |-> draft.functions, memory |-> draft.memory])
         /\ draft' = NoDraft
         /\ UNCHANGED open

Next == \/ New \/ Extend \/ End \/ Build
        \/ \E x \in Vocabulary : Label(x) \/ Begin(x) \/ \E base \in Bases : Memory(x, base)

Spec == Init /\ [][Next]_<<draft, open, built>>
=============================================================================
