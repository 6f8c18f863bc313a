-------------------------- MODULE TvmCallRefinement --------------------------
(***************************************************************************)
(* The context implements NestedCalls as long as the host only calls a     *)
(* wound-up context: the activations are read off the tvm stack, the       *)
(* floors and the two index registers.                                     *)
(***************************************************************************)
EXTENDS TvmContext, Sequences

Phase == CASE status = "RUN"     -> "running"
           [] status = "SUSPEND" -> "suspended"
           [] OTHER              -> "idle"

Returns(low, high) == [i \in 1 .. high - low |-> lwcall_stack[low + i - 1].ret]

CallerActivation(k) ==
    [program |-> entry[k].src,
     returns |-> Returns(entry[k].lwFloor, entry[k].lwPos),
     depth   |-> entry[k].mcPos - entry[k].mcFloor,
     resume  |-> entry[k].ret]

CurrentActivation ==
    [program |-> program,
     returns |-> Returns(lwcall_floor, rLWCSI),
     depth   |-> rMCSI - mctx_floor,
     resume  |-> 0]

Activations ==
    IF Phase = "idle" THEN <<>>
    ELSE [k \in 1 .. Calls + 1 |-> IF k <= Calls THEN CallerActivation(k - 1)
                                   ELSE CurrentActivation]

Nested == INSTANCE NestedCalls WITH
            MaxDepth <- 2 * McSize - 1,
            phase    <- Phase,
            acts     <- Activations,
            pc       <- IF Phase = "idle" THEN 0 ELSE instruction_index

\* Scripts only ever change the topmost activation, and a tvmreturn gives the
\* caller back its lwcall frames, its microcontext position and its place "regardless
\* of what the callee does" (tests/tvmcall-const-const-mctx-interact:3).
ImplementsNestedCalls == Nested!Spec
=============================================================================
