---------------------------- MODULE MCTvmContext ----------------------------
(* TLC instances of TvmContext: two programs, each with one function.       *)
EXTENDS TvmCallRefinement

CONSTANTS Main, Lib

MCProgram    == {Main, Lib}
MCLength     == [p \in MCProgram |-> 2]
UnevenLength == [p \in MCProgram |-> IF p = Main THEN 2 ELSE 3]
MCEntryPoint == [p \in MCProgram |-> {0}]

\* When the host winds the context up, no step reads window, a frame above rLWCSI
\* or an entry above stack_position before writing it (a locked entry is written
\* once more by tvmjump): states that differ only there have the same future.
Live == <<status, program, instruction_index, rLWCSI, rMCSI, floors,
          [f \in 0 .. rLWCSI - 1 |-> lwcall_stack[f]],
          stack_lock, stack_position,
          [k \in 0 .. stack_position |->
             IF k = stack_position /\ stack_lock = 1
             THEN [entry[k] EXCEPT !.ret = 0, !.lwPos = 0, !.mcPos = 0]
             ELSE entry[k]]>>
=============================================================================
