----------------------------- MODULE TvmContext -----------------------------
(***************************************************************************)
(* One tactyk execution context: the state a script sees through rLWCSI,   *)
(* rMCSI, the stack floors and the tvm call stack, the instructions that   *)
(* change it (lwcall, lwreturn, mctxpush, mctxpop, mctxjump, tvmpush,      *)
(* tvmjump, tvmreturn, ccall/tcall, exit, break) and the host entry points *)
(* (tactyk_asmvm__call, tactyk_asmvm__resume) that enter it again and      *)
(* again.  A script is any sequence of these instructions; the data        *)
(* registers and the stash contents are abstracted away.                   *)
(***************************************************************************)
EXTENDS Integers

CONSTANTS
    Program,      \* programs linked to the VM (tactyk_asmvm__add_program)
    Length,       \* Length[p]: the number of commands of p
    EntryPoint,   \* EntryPoint[p]: command indices at which functions of p start
    EndsInCall,   \* programs whose last command is an lwcall or a tvmjump
    LwHalf,       \* half the range of the 16-bit lwcall index (32768)
    McHalf,       \* half the range of the 16-bit microcontext index (32768)
    VMStackSize,  \* entries of the tvm call stack (1024)
    HostWindsUp,  \* TRUE: the host only calls into a wound-up context
    None          \* a reference that was never written

ASSUME ConstantsAssumption ==
    /\ None \notin Program
    /\ Length \in [Program -> Nat \ {0}]
    /\ EntryPoint \in [Program -> SUBSET Nat]
    /\ \A p \in Program : \A i \in EntryPoint[p] : i < Length[p]
    /\ EndsInCall \subseteq Program
    /\ LwHalf \in Nat \ {0}
    /\ McHalf \in Nat \ {0}
    /\ VMStackSize \in Nat \ {0}
    /\ HostWindsUp \in BOOLEAN

VARIABLES
    status,             \* context.status
    program,            \* owner of program_map, instruction_count and memblocks
    instruction_index,  \* running: current command; else context.instruction_index
    rLWCSI, rMCSI,      \* stack index registers
    window,             \* microcontext entry the gs segment addresses
    lwcall_floor,       \* context.lwcall_stack_floor
    mctx_floor,         \* context.mctx_stack_floor
    lwcall_stack,       \* pushed return indices, with the program that pushed them
    stack_lock, stack_position, entry   \* the tvm call stack

regs    == <<rLWCSI, rMCSI, window>>
floors  == <<lwcall_floor, mctx_floor>>
vmstack == <<stack_lock, stack_position, entry>>
vars    == <<status, program, instruction_index, regs, floors, lwcall_stack, vmstack>>

-----------------------------------------------------------------------------
(* Widths and ranges.                                                       *)

LwMax  == 2 * LwHalf - 1      \* lwcall_stack_max
McSize == 2 * McHalf          \* microcontext_stack_size

\* The low word of an index register, and that word as the signed number
\* which the jg of errorle compares.
LowWord(x, half)    == IF x < 2 * half THEN x ELSE x - 2 * half
SignedWord(x, half) == LET w == LowWord(x, half)
                       IN  IF w < half THEN w ELSE w - 2 * half

Errors == {"ROGUE_BRANCH", "STACK_OVERFLOW", "STACK_UNDERFLOW",
           "INVALID_TVMJUMP", "INVALID_TVMJUMP_STATE"}

Running == status = "RUN"

\* A command that runs on jumps to the symbol of the next one: the last command
\* of a program is a terminal one.
HasNext == instruction_index + 1 < Length[program]

\* lwcall and tvmjump are terminal and take the return index as a number, so that
\* they may come last.
MayCall == HasNext \/ program \in EndsInCall

NullEntry ==
    [src |-> None, ret |-> 0, lwFloor |-> 0, mcFloor |-> 0,
     lwPos |-> 0, mcPos |-> 0, dst |-> None, fn |-> 0]

\* The error macro: status is set, the registers are stored, control returns
\* to the host.  What the failing instruction already stored stays stored.
Raise(e) == status' = e /\ UNCHANGED <<program, instruction_index>>

Advance == HasNext /\ instruction_index' = instruction_index + 1

\* A return jumps through the program's table without a bound.  The table has as
\* many entries as the program has commands; what follows it is no code address.
Dispatch(p, i) ==
    /\ instruction_index' = i
    /\ status' = IF i < Length[p] THEN status ELSE "CRASH"

-----------------------------------------------------------------------------
(* Initial state: tactyk_asmvm__new_context.                                *)

Init ==
    /\ status = "NEW"
    /\ program = None
    /\ instruction_index = 0
    /\ rLWCSI = 0 /\ rMCSI = 0 /\ window = 0
    /\ lwcall_floor = 0 /\ mctx_floor = 0
    /\ lwcall_stack = [k \in 0 .. LwMax - 1 |-> [owner |-> None, ret |-> 0]]
    /\ stack_lock = 0
    /\ stack_position = -1
    /\ entry = [k \in 0 .. VMStackSize - 1 |-> NullEntry]

-----------------------------------------------------------------------------
(* Ordinary control flow.                                                   *)

\* Any command without an effect on the modelled state, also a static branch.
Step ==
    /\ Running
    /\ Advance
    /\ UNCHANGED <<status, program, regs, floors, lwcall_stack, vmstack>>

\* goto, with a computed target checked against instruction_count.
Goto(t) ==
    /\ Running
    /\ IF t \in 0 .. Length[program] - 1
       THEN instruction_index' = t /\ UNCHANGED <<status, program>>
       ELSE Raise("ROGUE_BRANCH")
    /\ UNCHANGED <<regs, floors, lwcall_stack, vmstack>>

\* exit stores its own index, break the index of the next command.
Exit ==
    /\ Running
    /\ status' = "HALT"
    /\ UNCHANGED <<program, instruction_index, regs, floors, lwcall_stack, vmstack>>

Break ==
    /\ Running
    /\ status' = "SUSPEND"
    /\ instruction_index' = instruction_index + 1
    /\ UNCHANGED <<program, regs, floors, lwcall_stack, vmstack>>

\* ccall and tcall: store_context, the host function, load_context.  The gs
\* base is rebuilt from microcontext_stack_offset, which stays 0.
HostFunction ==
    /\ Running
    /\ Advance
    /\ window' = 0
    /\ UNCHANGED <<status, program, rLWCSI, rMCSI, floors, lwcall_stack, vmstack>>

-----------------------------------------------------------------------------
(* The lightweight call stack.                                              *)

\* Mutant: the limit is compared one too late.
LwFullTooLate == rLWCSI > LwMax

LwFull == rLWCSI >= LwMax

\* The index a call returns to.
ReturnIndex == instruction_index + 1

\* The frame is pushed before a computed target is checked.
LwCall(t) ==
    /\ Running
    /\ MayCall
    /\ IF LwFull
       THEN /\ Raise("STACK_OVERFLOW")
            /\ UNCHANGED <<rLWCSI, lwcall_stack>>
       ELSE /\ lwcall_stack' = [lwcall_stack EXCEPT ![rLWCSI] =
                                  [owner |-> program, ret |-> ReturnIndex]]
            /\ rLWCSI' = rLWCSI + 1
            /\ IF t \in 0 .. Length[program] - 1
               THEN instruction_index' = t /\ UNCHANGED <<status, program>>
               ELSE Raise("ROGUE_BRANCH")
    /\ UNCHANGED <<rMCSI, window, floors, vmstack>>

\* The comparison of the popped index with instruction_count is commented out.
LwReturn ==
    /\ Running
    /\ IF SignedWord(rLWCSI, LwHalf) <= SignedWord(lwcall_floor, LwHalf)
       THEN Raise("STACK_UNDERFLOW") /\ UNCHANGED rLWCSI
       ELSE /\ rLWCSI' = rLWCSI - 1
            /\ Dispatch(program, lwcall_stack[rLWCSI - 1].ret)
            /\ UNCHANGED program
    /\ UNCHANGED <<rMCSI, window, floors, lwcall_stack, vmstack>>

-----------------------------------------------------------------------------
(* The microcontext stack.                                                  *)

MctxPush ==
    /\ Running
    /\ IF rMCSI >= McSize - 1
       THEN Raise("STACK_OVERFLOW") /\ UNCHANGED <<rMCSI, window>>
       ELSE /\ rMCSI' = rMCSI + 1
            /\ window' = rMCSI + 1
            /\ Advance
            /\ UNCHANGED <<status, program>>
    /\ UNCHANGED <<rLWCSI, floors, lwcall_stack, vmstack>>

\* dec rMCSI_16 borrows from no other bit of the register.
DecrementWord(x) ==
    IF LowWord(x, McHalf) = 0 THEN x + McSize - 1 ELSE x - 1

\* Mutant: the floor itself may be popped.
BelowFloor == SignedWord(rMCSI, McHalf) < SignedWord(mctx_floor, McHalf)

AtFloor == SignedWord(rMCSI, McHalf) <= SignedWord(mctx_floor, McHalf)

MctxPop ==
    /\ Running
    /\ IF AtFloor
       THEN Raise("STACK_UNDERFLOW") /\ UNCHANGED <<rMCSI, window>>
       ELSE /\ rMCSI' = DecrementWord(rMCSI)
            /\ window' = LowWord(rMCSI', McHalf)
            /\ Advance
            /\ UNCHANGED <<status, program>>
    /\ UNCHANGED <<rLWCSI, floors, lwcall_stack, vmstack>>

\* The operand counts from the floor; the bound is tested with errorgt.
MctxJump(n) ==
    LET target == n + mctx_floor IN
    /\ Running
    /\ CASE target < mctx_floor -> Raise("STACK_UNDERFLOW") /\ UNCHANGED <<rMCSI, window>>
         [] target >= mctx_floor /\ target > McSize ->
                Raise("STACK_OVERFLOW") /\ UNCHANGED <<rMCSI, window>>
         [] OTHER -> /\ rMCSI' = target
                     /\ window' = target
                     /\ Advance
                     /\ UNCHANGED <<status, program>>
    /\ UNCHANGED <<rLWCSI, floors, lwcall_stack, vmstack>>

-----------------------------------------------------------------------------
(* Calls between programs.                                                  *)

\* The program and function indices program_list and function_count allow.
Handle == UNION {{[dst |-> p, fn |-> f] : f \in EntryPoint[p]} : p \in Program}

\* tvmpush in the order of its stores: lock, bounds test, position, source
\* half of the entry, handle tests, target half.  h stands for the program and
\* function operands; None for any pair the two range tests refuse.
TvmPush(h) ==
    /\ Running
    /\ IF stack_lock # 0
       THEN Raise("INVALID_TVMJUMP_STATE") /\ UNCHANGED vmstack
       ELSE /\ stack_lock' = 1
            /\ IF stack_position + 1 >= VMStackSize
               THEN Raise("STACK_OVERFLOW") /\ UNCHANGED <<stack_position, entry>>
               ELSE /\ stack_position' = stack_position + 1
                    /\ LET source == [entry[stack_position + 1] EXCEPT
                                        !.src = program,
                                        !.lwFloor = lwcall_floor,
                                        !.mcFloor = mctx_floor]
                       IN  IF h \in Handle
                           THEN /\ entry' = [entry EXCEPT ![stack_position + 1] =
                                               [source EXCEPT !.dst = h.dst, !.fn = h.fn]]
                                /\ Advance
                                /\ UNCHANGED <<status, program>>
                           ELSE /\ entry' = [entry EXCEPT ![stack_position + 1] = source]
                                /\ Raise("INVALID_TVMJUMP")
    /\ UNCHANGED <<regs, floors, lwcall_stack>>

\* tvmjump writes both floors before it looks at the lock.  Jumping through
\* an entry whose target was never stored reads a null jump table.
TvmJump ==
    /\ Running
    /\ MayCall
    /\ lwcall_floor' = rLWCSI
    /\ mctx_floor' = rMCSI
    /\ IF stack_lock # 1
       THEN Raise("INVALID_TVMJUMP_STATE") /\ UNCHANGED vmstack
       ELSE /\ stack_lock' = 0
            /\ entry' = [entry EXCEPT ![stack_position] =
                           [@ EXCEPT !.ret = ReturnIndex,
                                     !.lwPos = rLWCSI,
                                     !.mcPos = rMCSI]]
            /\ IF entry[stack_position].dst = None
               THEN Raise("CRASH")
               ELSE /\ program' = entry[stack_position].dst
                    /\ instruction_index' = entry[stack_position].fn
                    /\ UNCHANGED status
            /\ UNCHANGED stack_position
    /\ UNCHANGED <<regs, lwcall_stack>>

\* Mutants: an index register keeps the value the callee left.
KeptLw(top) == rLWCSI
KeptMc(top) == rMCSI

RestoredLw(top) == top.lwPos
RestoredMc(top) == top.mcPos

\* tvmreturn restores floors, index registers and program; not the gs base.
TvmReturn ==
    /\ Running
    /\ IF stack_lock # 0 \/ stack_position < 0
       THEN /\ Raise(IF stack_lock # 0 THEN "INVALID_TVMJUMP_STATE" ELSE "STACK_UNDERFLOW")
            /\ UNCHANGED <<rLWCSI, rMCSI, floors, stack_position>>
       ELSE LET top == entry[stack_position] IN
            /\ stack_position' = stack_position - 1
            /\ lwcall_floor' = top.lwFloor
            /\ mctx_floor' = top.mcFloor
            /\ rLWCSI' = RestoredLw(top)
            /\ rMCSI' = RestoredMc(top)
            /\ program' = top.src
            /\ Dispatch(top.src, top.ret)
    /\ UNCHANGED <<window, lwcall_stack, stack_lock, entry>>

-----------------------------------------------------------------------------
(* The host.                                                                *)

WoundUp ==
    /\ stack_position = -1 /\ stack_lock = 0
    /\ rLWCSI = 0 /\ lwcall_floor = 0
    /\ rMCSI = 0 /\ mctx_floor = 0

\* tactyk_asmvm__call / invoke: prepare_invoke and run.  Neither touches the
\* index registers, the floors or the tvm stack.
HostCall(p, f) ==
    /\ ~Running /\ status # "CRASH"
    /\ HostWindsUp => WoundUp
    /\ status' = "RUN"
    /\ program' = p
    /\ instruction_index' = f
    /\ window' = 0
    /\ UNCHANGED <<rLWCSI, rMCSI, floors, lwcall_stack, vmstack>>

\* Mutant: one command past the end is let through.
ResumableTooFar == instruction_index <= Length[program]

Resumable == instruction_index < Length[program]

\* tactyk_asmvm__resume: only from SUSPEND and inside the program.
HostResume ==
    /\ status = "SUSPEND"
    /\ Resumable
    /\ status' = "RUN"
    /\ window' = 0
    /\ UNCHANGED <<program, instruction_index, rLWCSI, rMCSI, floors, lwcall_stack, vmstack>>

-----------------------------------------------------------------------------

Script ==
    \/ Step
    \/ Running /\ \E t \in -1 .. Length[program] : Goto(t) \/ LwCall(t)
    \/ LwReturn
    \/ MctxPush
    \/ MctxPop
    \/ \E n \in -1 .. McSize + 1 : MctxJump(n)
    \/ \E h \in Handle \cup {None} : TvmPush(h)
    \/ TvmJump
    \/ TvmReturn
    \/ HostFunction
    \/ Exit
    \/ Break

Host ==
    \/ \E h \in Handle : HostCall(h.dst, h.fn)
    \/ HostResume

\* The script runs until it exits, breaks, or fails; then it is the host's turn.
Next == Script \/ Host

Spec == Init /\ [][Next]_vars

-----------------------------------------------------------------------------
(* Properties.                                                              *)

\* The entries a tvmjump went through: the caller of activation k+1 is entry k.
Calls == IF stack_lock = 0 THEN stack_position + 1 ELSE stack_position

Entry == [src : Program \cup {None}, ret : Nat, lwFloor : Nat, mcFloor : Nat,
          lwPos : Nat, mcPos : Nat, dst : Program \cup {None}, fn : Nat]

\* The shape of the context: indices stay inside their stacks, except that the
\* microcontext index may run one past, and its high half once dec has wrapped.
TypeOK ==
    /\ status \in {"NEW", "RUN", "SUSPEND", "HALT", "CRASH"} \cup Errors
    /\ program \in Program \cup {None}
    /\ status # "NEW" => program \in Program
    /\ instruction_index \in Nat
    /\ rLWCSI \in 0 .. LwMax /\ lwcall_floor \in 0 .. LwMax
    /\ rMCSI \in 0 .. 2 * McSize - 1 /\ mctx_floor \in 0 .. 2 * McSize - 1
    /\ window \in 0 .. 2 * McSize - 1
    /\ lwcall_stack \in [0 .. LwMax - 1 -> [owner : Program \cup {None}, ret : Nat]]
    /\ stack_lock \in {0, 1}
    /\ stack_position \in -1 .. VMStackSize - 1
    /\ entry \in [0 .. VMStackSize - 1 -> Entry]
    /\ \A k \in 0 .. stack_position : entry[k].src \in Program

\* The floor of the activation above entry k: the next entry's, or the current.
FloorAbove(k) ==
    IF k < stack_position
    THEN [lw |-> entry[k + 1].lwFloor, mc |-> entry[k + 1].mcFloor]
    ELSE [lw |-> lwcall_floor, mc |-> mctx_floor]

\* The frames of the suspended callers and of the running program lie one above
\* the other on both stacks, whatever the scripts did and whenever the host
\* called: no activation reaches below the positions its caller stopped at
\* (lwreturn, mctxpop, mctxjump, tvmjump and tvmreturn against the floors).
FrameInv ==
    /\ stack_lock = 1 => stack_position >= 0
    /\ lwcall_floor <= rLWCSI /\ mctx_floor <= rMCSI
    /\ \A k \in 0 .. Calls - 1 :
          /\ entry[k].lwFloor <= entry[k].lwPos /\ entry[k].lwPos <= FloorAbove(k).lw
          /\ entry[k].mcFloor <= entry[k].mcPos /\ entry[k].mcPos <= FloorAbove(k).mc
    /\ stack_lock = 1 => /\ entry[stack_position].lwFloor <= lwcall_floor
                         /\ entry[stack_position].mcFloor <= mctx_floor

\* An index a call of p may have left: a command of p or, when p ends in a call,
\* the one after its last.
ReturnIndexOf(p, i) == i < Length[p] \/ (p \in EndsInCall /\ i = Length[p])

PushedBy(p, low, high) ==
    \A i \in low .. high - 1 :
        lwcall_stack[i].owner = p /\ ReturnIndexOf(p, lwcall_stack[i].ret)

\* Every return index above the floor of an activation was pushed by the program
\* of that activation and follows one of its commands, and so does the index a
\* tvmreturn will use.  lwreturn and tvmreturn, which test neither, therefore return
\* to a command of their own program unless a call was its last.  True when the
\* host only calls a wound-up context.
ReturnsOwned ==
    /\ PushedBy(program, lwcall_floor, rLWCSI)
    /\ \A k \in 0 .. Calls - 1 :
          /\ PushedBy(entry[k].src, entry[k].lwFloor, entry[k].lwPos)
          /\ ReturnIndexOf(entry[k].src, entry[k].ret)
    /\ stack_lock = 1 /\ status \in {"RUN", "SUSPEND"} =>
          entry[stack_position].src = program /\ entry[stack_position].lwFloor = lwcall_floor

\* The command about to be dispatched is one of the running program's, and control
\* is lost in one way only: by returning to a call that was the last command of its
\* program.  No other return, call, jump, error or resumption leaves program_map,
\* and no tvmjump goes through an entry without a target.
InsideProgram ==
    /\ Running => instruction_index < Length[program]
    /\ status = "CRASH" => program \in EndsInCall /\ instruction_index = Length[program]

=============================================================================
