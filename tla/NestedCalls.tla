----------------------------- MODULE NestedCalls -----------------------------
(***************************************************************************)
(* What calls between tactyk programs promise.  A running script is a      *)
(* stack of activations, one per program entered.  Each has its own return *)
(* indices and its own part of the microcontext stack; only the topmost    *)
(* activation changes, and a tvm return hands the caller back exactly the  *)
(* activation it left.                                                     *)
(***************************************************************************)
EXTENDS Naturals, Sequences

CONSTANTS
    Program, Length, EntryPoint,
    MaxDepth      \* the deepest microcontext an activation may select

VARIABLES
    phase,   \* "idle", "running" or "suspended"
    acts,    \* the activations, outermost first
    pc       \* command of the topmost activation

vars == <<phase, acts, pc>>

Fresh(p) == [program |-> p, returns |-> <<>>, depth |-> 0, resume |-> 0]

Current  == acts[Len(acts)]
Index    == 0 .. Length[Current.program] - 1
Below(a) == SubSeq(a, 1, Len(a) - 1)

Init == phase = "idle" /\ acts = <<>> /\ pc = 0

\* The host enters a function of p, replacing whatever was suspended.
Enter(p, f) ==
    /\ phase # "running"
    /\ phase' = "running" /\ acts' = <<Fresh(p)>> /\ pc' = f

Resume ==
    /\ phase = "suspended" /\ pc \in Index
    /\ phase' = "running" /\ UNCHANGED <<acts, pc>>

Stop    == phase = "running" /\ phase' = "idle" /\ acts' = <<>> /\ pc' = 0
Suspend == phase = "running" /\ phase' = "suspended" /\ pc' = pc + 1 /\ UNCHANGED acts

Replace(a) == acts' = Append(Below(acts), a)

Goto == pc' \in Index /\ UNCHANGED acts

MoveWindow ==
    /\ pc' = pc + 1
    /\ \E d \in 0 .. MaxDepth : Replace([Current EXCEPT !.depth = d])

LightCall ==
    /\ pc' \in Index
    /\ Replace([Current EXCEPT !.returns = Append(@, pc + 1)])

LightReturn ==
    /\ Current.returns # <<>>
    /\ pc' = Current.returns[Len(Current.returns)]
    /\ Replace([Current EXCEPT !.returns = Below(@)])

Call(p, f) ==
    /\ acts' = Below(acts) \o <<[Current EXCEPT !.resume = pc + 1], Fresh(p)>>
    /\ pc' = f

Return ==
    /\ Len(acts) > 1
    /\ pc' = acts[Len(acts) - 1].resume
    /\ acts' = [Below(acts) EXCEPT ![Len(acts) - 1].resume = 0]

Work ==
    /\ phase = "running" /\ phase' = "running"
    /\ \/ Goto \/ MoveWindow \/ LightCall \/ LightReturn \/ Return
       \/ \E p \in Program : \E f \in EntryPoint[p] : Call(p, f)

Next ==
    \/ \E p \in Program : \E f \in EntryPoint[p] : Enter(p, f)
    \/ Resume \/ Work \/ Stop \/ Suspend

Spec == Init /\ [][Next]_vars
=============================================================================
