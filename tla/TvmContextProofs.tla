-------------------------- MODULE TvmContextProofs --------------------------
(***************************************************************************)
(* Theorems about the call stacks of a context.                            *)
(*                                                                         *)
(* First part: TypeOK and FrameInv hold of every context, for any programs, *)
(* stack sizes and host.  They are proved together: the position an entry  *)
(* saved is in range because it lies below the floors above it, and the    *)
(* floors stay below the registers because the saved positions are in range. *)
(***************************************************************************)
EXTENDS TvmContext, TvmCallRefinement, SequenceTheorems, TLAPS

Inv == TypeOK /\ FrameInv

\* Both 16-bit comparisons agree with the plain one as far as the floors need it:
\* an index that passes the test is not the floor, and taking one off it keeps it
\* at or above the floor.
LEMMA LwPopStaysAbove ==
    ASSUME NEW r \in 0 .. LwMax, NEW f \in 0 .. LwMax, f <= r,
           ~(SignedWord(r, LwHalf) <= SignedWord(f, LwHalf))
    PROVE  r - 1 \in 0 .. LwMax /\ f <= r - 1
<1>1. LwHalf \in Nat \ {0}
  BY ConstantsAssumption
<1>2. r # f
  BY <1>1 DEF SignedWord, LowWord, LwMax
<1> QED
  BY <1>1, <1>2 DEF LwMax

\* The same for the microcontext index, whose decrement may wrap its low word.
LEMMA McPopStaysAbove ==
    ASSUME NEW r \in 0 .. 2 * McSize - 1, NEW f \in 0 .. 2 * McSize - 1, f <= r,
           ~(SignedWord(r, McHalf) <= SignedWord(f, McHalf))
    PROVE  /\ DecrementWord(r) \in 0 .. 2 * McSize - 1
           /\ f <= DecrementWord(r)
           /\ LowWord(DecrementWord(r), McHalf) \in 0 .. 2 * McSize - 1
<1>1. McHalf \in Nat \ {0}
  BY ConstantsAssumption
<1>2. r # f
  BY <1>1 DEF SignedWord, LowWord, McSize
<1>3. CASE LowWord(r, McHalf) = 0
  <2>1. r = 0 \/ r = McSize
    BY <1>1, <1>3 DEF LowWord, McSize
  <2>2. r = McSize
    BY <1>1, <1>2, <2>1 DEF McSize
  <2> QED
    BY <1>1, <1>3, <2>2 DEF DecrementWord, LowWord, McSize
<1>4. CASE LowWord(r, McHalf) # 0
  BY <1>1, <1>2, <1>4 DEF DecrementWord, LowWord, McSize
<1> QED
  BY <1>3, <1>4

LEMMA InitInv == Init => Inv
<1> SUFFICES ASSUME Init PROVE Inv
  OBVIOUS
<1>1. LwHalf \in Nat \ {0} /\ McHalf \in Nat \ {0} /\ VMStackSize \in Nat \ {0}
  BY ConstantsAssumption
<1>2. TypeOK
  BY <1>1 DEF Init, TypeOK, Errors, Entry, NullEntry, LwMax, McSize
<1>3. FrameInv
  BY <1>1 DEF Init, FrameInv, Calls
<1> QED
  BY <1>2, <1>3 DEF Inv

-----------------------------------------------------------------------------
(* The steps that leave the tvm stack and the floors alone.                 *)

\* Moving the index registers without going below a floor keeps the frames.
LEMMA FramesKept ==
    ASSUME FrameInv, UNCHANGED <<floors, vmstack>>,
           lwcall_floor <= rLWCSI', mctx_floor <= rMCSI'
    PROVE  FrameInv'
BY DEF FrameInv, FloorAbove, Calls, floors, vmstack

LEMMA PlainStep ==
    ASSUME Inv, Step \/ Exit \/ Break \/ HostFunction \/ HostResume
                \/ \E t \in -1 .. Length[program] : Running /\ Goto(t)
    PROVE  Inv'
<1>1. UNCHANGED <<floors, vmstack, rLWCSI, rMCSI, lwcall_stack>>
  BY DEF Step, Exit, Break, HostFunction, HostResume, Resumable, Goto, regs
<1>2. /\ window' \in {window, 0}
      /\ status' \in {status, "RUN", "HALT", "SUSPEND", "ROGUE_BRANCH"}
      /\ status' = "NEW" => status = "NEW"
      /\ program' = program
      /\ status # "NEW"
  BY DEF Step, Exit, Break, HostFunction, HostResume, Resumable, Goto, regs, Raise, Running
<1>3. instruction_index' \in Nat
  <2> USE DEF TypeOK, Inv
  <2>1. CASE Step \/ Exit \/ Break \/ HostFunction \/ HostResume
    BY <2>1 DEF Step, Exit, Break, HostFunction, HostResume, Resumable, Advance
  <2>2. ASSUME NEW t \in -1 .. Length[program], Running, Goto(t)
        PROVE  instruction_index' \in Nat
    <3>1. Length[program] \in Nat
      BY <2>2, ConstantsAssumption DEF Running
    <3> QED
      BY <2>2, <3>1 DEF Goto, Raise
  <2> QED
    BY <2>1, <2>2
<1>4. TypeOK'
  <2>1. window' \in 0 .. 2 * McSize - 1
    BY <1>2, ConstantsAssumption DEF Inv, TypeOK, McSize
  <2>2. status' \in {"NEW", "RUN", "SUSPEND", "HALT", "CRASH"} \cup Errors
    BY <1>2 DEF Inv, TypeOK, Errors
  <2>3. program' \in Program
    BY <1>2 DEF Inv, TypeOK
  <2> QED
    BY <1>1, <1>3, <2>1, <2>2, <2>3 DEF Inv, TypeOK, floors, vmstack
<1>5. FrameInv'
  BY <1>1, FramesKept DEF Inv, FrameInv
<1> QED
  BY <1>4, <1>5 DEF Inv

LEMMA HostCallStep ==
    ASSUME Inv, NEW p \in Program, NEW f \in EntryPoint[p], HostCall(p, f)
    PROVE  Inv'
<1>1. f \in Nat
  BY ConstantsAssumption
<1>2. TypeOK'
  BY <1>1, ConstantsAssumption DEF Inv, TypeOK, HostCall, floors, vmstack, McSize
<1>3. FrameInv'
  BY FramesKept DEF Inv, FrameInv, HostCall
<1> QED
  BY <1>2, <1>3 DEF Inv

LEMMA LwCallStep ==
    ASSUME Inv, NEW t \in -1 .. Length[program], LwCall(t)
    PROVE  Inv'
<1>1. /\ program \in Program
      /\ Length[program] \in Nat
      /\ LwHalf \in Nat
  BY ConstantsAssumption DEF Inv, TypeOK, LwCall, LwFull, ReturnIndex, Running
<1>2. CASE rLWCSI >= LwMax
  <2>1. UNCHANGED <<program, instruction_index, regs, lwcall_stack, floors, vmstack>>
        /\ status' = "STACK_OVERFLOW"
    BY <1>2 DEF LwCall, LwFull, ReturnIndex, Raise, regs
  <2>2. TypeOK'
    BY <1>1, <2>1 DEF Inv, TypeOK, regs, floors, vmstack, Errors
  <2>3. FrameInv'
    BY <2>1, FramesKept DEF Inv, FrameInv, regs
  <2> QED
    BY <2>2, <2>3 DEF Inv
<1>3. CASE ~(rLWCSI >= LwMax)
  <2>1. /\ UNCHANGED <<rMCSI, window, floors, vmstack, program>>
        /\ rLWCSI' = rLWCSI + 1
        /\ lwcall_stack' = [lwcall_stack EXCEPT ![rLWCSI] =
                              [owner |-> program, ret |-> instruction_index + 1]]
        /\ status' \in {"RUN", "ROGUE_BRANCH"}
        /\ instruction_index' \in {instruction_index, t}
        /\ instruction_index' \in Nat
    BY <1>1, <1>3 DEF LwCall, LwFull, ReturnIndex, Raise, Running, Inv, TypeOK
  <2>2. rLWCSI' \in 0 .. LwMax /\ rLWCSI \in 0 .. LwMax - 1
    BY <1>1, <1>3, <2>1 DEF Inv, TypeOK, LwMax
  <2>3. lwcall_stack' \in [0 .. LwMax - 1 -> [owner : Program \cup {None}, ret : Nat]]
    BY <1>1, <2>1, <2>2 DEF Inv, TypeOK
  <2>4. TypeOK'
    BY <1>1, <2>1, <2>2, <2>3 DEF Inv, TypeOK, floors, vmstack, Errors
  <2>5. FrameInv'
    <3>1. lwcall_floor <= rLWCSI' /\ mctx_floor <= rMCSI'
      BY <1>1, <2>1 DEF Inv, TypeOK, FrameInv, LwMax
    <3> QED
      BY <2>1, <3>1, FramesKept DEF Inv
  <2> QED
    BY <2>4, <2>5 DEF Inv
<1> QED
  BY <1>2, <1>3

LEMMA LwReturnStep == ASSUME Inv, LwReturn PROVE Inv'
<1>1. /\ program \in Program
      /\ LwHalf \in Nat
  BY ConstantsAssumption DEF Inv, TypeOK, LwReturn, Running
<1>2. CASE SignedWord(rLWCSI, LwHalf) <= SignedWord(lwcall_floor, LwHalf)
  <2>1. UNCHANGED <<program, instruction_index, regs, lwcall_stack, floors, vmstack>>
        /\ status' = "STACK_UNDERFLOW"
    BY <1>2 DEF LwReturn, Raise, regs
  <2>2. TypeOK'
    BY <1>1, <2>1 DEF Inv, TypeOK, regs, floors, vmstack, Errors
  <2>3. FrameInv'
    BY <2>1, FramesKept DEF Inv, FrameInv, regs
  <2> QED
    BY <2>2, <2>3 DEF Inv
<1>3. CASE ~(SignedWord(rLWCSI, LwHalf) <= SignedWord(lwcall_floor, LwHalf))
  <2>1. /\ UNCHANGED <<program, rMCSI, window, floors, lwcall_stack, vmstack>>
        /\ status' \in {"RUN", "CRASH"}
        /\ rLWCSI' = rLWCSI - 1
        /\ instruction_index' = lwcall_stack[rLWCSI - 1].ret
    BY <1>3 DEF LwReturn, Dispatch, Running
  <2>2. rLWCSI - 1 \in 0 .. LwMax /\ lwcall_floor <= rLWCSI - 1
    BY <1>3, LwPopStaysAbove DEF Inv, TypeOK, FrameInv
  <2>3. rLWCSI - 1 \in 0 .. LwMax - 1
    BY <1>1, <2>2 DEF Inv, TypeOK, LwMax
  <2>4. TypeOK'
    BY <1>1, <2>1, <2>2, <2>3 DEF Inv, TypeOK, floors, vmstack
  <2>5. FrameInv'
    BY <2>1, <2>2, FramesKept DEF Inv, FrameInv
  <2> QED
    BY <2>4, <2>5 DEF Inv
<1> QED
  BY <1>2, <1>3

\* A step that moves the microcontext index to m, in range and not below the
\* floor, and the window to w.
LEMMA McMove ==
    ASSUME Inv, status # "NEW",
           NEW m \in 0 .. 2 * McSize - 1, NEW w \in 0 .. 2 * McSize - 1, mctx_floor <= m,
           rMCSI' = m, window' = w,
           UNCHANGED <<program, rLWCSI, floors, lwcall_stack, vmstack>>,
           status' \in {status} \cup Errors, instruction_index' \in Nat
    PROVE  Inv'
<1>1. TypeOK'
  BY DEF Inv, TypeOK, floors, vmstack
<1>2. FrameInv'
  BY FramesKept DEF Inv, FrameInv
<1> QED
  BY <1>1, <1>2 DEF Inv

LEMMA MctxStep ==
    ASSUME Inv, MctxPush \/ MctxPop \/ \E n \in -1 .. McSize + 1 : MctxJump(n)
    PROVE  Inv'
<1>1. /\ McHalf \in Nat \ {0}
      /\ status # "NEW"
      /\ UNCHANGED <<program, rLWCSI, floors, lwcall_stack, vmstack>>
      /\ rMCSI \in 0 .. 2 * McSize - 1 /\ mctx_floor \in 0 .. 2 * McSize - 1
      /\ window \in 0 .. 2 * McSize - 1
      /\ mctx_floor <= rMCSI
      /\ instruction_index \in Nat
  BY ConstantsAssumption DEF Inv, TypeOK, FrameInv, MctxPush, MctxPop, AtFloor, MctxJump, Running, Raise
<1>2. CASE UNCHANGED <<rMCSI, window, instruction_index>> /\ status' \in Errors
  BY <1>1, <1>2, McMove
<1>3. CASE MctxPush /\ ~(rMCSI >= McSize - 1)
  <2>1. rMCSI + 1 \in 0 .. 2 * McSize - 1 /\ mctx_floor <= rMCSI + 1
    BY <1>1, <1>3 DEF McSize
  <2> QED
    BY <1>1, <1>3, <2>1, McMove DEF MctxPush, Advance
<1>4. CASE MctxPop /\ ~(SignedWord(rMCSI, McHalf) <= SignedWord(mctx_floor, McHalf))
  <2>1. /\ rMCSI' = DecrementWord(rMCSI)
        /\ window' = LowWord(DecrementWord(rMCSI), McHalf)
        /\ status' = status
        /\ instruction_index' \in Nat
    BY <1>1, <1>4 DEF MctxPop, AtFloor, Advance
  <2> QED
    BY <1>1, <1>4, <2>1, McPopStaysAbove, McMove
<1>5. ASSUME NEW n \in -1 .. McSize + 1, MctxJump(n),
             n + mctx_floor >= mctx_floor, n + mctx_floor <= McSize
      PROVE  Inv'
  <2>1. /\ rMCSI' = n + mctx_floor /\ window' = n + mctx_floor
        /\ status' = status
        /\ instruction_index' \in Nat
    BY <1>1, <1>5 DEF MctxJump, Advance, McSize
  <2>2. n + mctx_floor \in 0 .. 2 * McSize - 1
    BY <1>1, <1>5 DEF McSize
  <2> QED
    BY <1>1, <1>5, <2>1, <2>2, McMove
<1>6. ASSUME NEW n \in -1 .. McSize + 1, MctxJump(n),
             ~(n + mctx_floor >= mctx_floor /\ n + mctx_floor <= McSize)
      PROVE  UNCHANGED <<rMCSI, window, instruction_index>> /\ status' \in Errors
  <2>1. CASE n + mctx_floor < mctx_floor
    BY <1>6, <2>1 DEF MctxJump, Raise, Errors
  <2>2. CASE ~(n + mctx_floor < mctx_floor) /\ n + mctx_floor > McSize
    BY <1>1, <1>6, <2>2 DEF MctxJump, Raise, Errors, McSize
  <2> QED
    BY <1>1, <1>6, <2>1, <2>2 DEF McSize
<1>7. CASE MctxPush /\ rMCSI >= McSize - 1
  BY <1>2, <1>7 DEF MctxPush, Raise, Errors
<1>8. CASE MctxPop /\ SignedWord(rMCSI, McHalf) <= SignedWord(mctx_floor, McHalf)
  BY <1>2, <1>8 DEF MctxPop, AtFloor, Raise, Errors
<1> QED
  BY <1>2, <1>3, <1>4, <1>5, <1>6, <1>7, <1>8

-----------------------------------------------------------------------------
(* The three instructions of a call between programs.                       *)

\* The ranges the three steps compute with.
LEMMA Ranges ==
    ASSUME Inv
    PROVE  /\ VMStackSize \in Nat \ {0} /\ LwMax \in Nat /\ McSize \in Nat
           /\ rLWCSI \in 0 .. LwMax /\ rMCSI \in 0 .. 2 * McSize - 1
           /\ lwcall_floor \in 0 .. LwMax /\ mctx_floor \in 0 .. 2 * McSize - 1
           /\ stack_position \in -1 .. VMStackSize - 1
           /\ lwcall_floor <= rLWCSI /\ mctx_floor <= rMCSI
<1>1. VMStackSize \in Nat \ {0} /\ LwMax \in Nat /\ McSize \in Nat
  BY ConstantsAssumption DEF LwMax, McSize
<1> QED
  BY <1>1 DEF Inv, TypeOK, FrameInv

LEMMA TvmPushStep ==
    ASSUME Inv, NEW h \in Handle \cup {None}, TvmPush(h)
    PROVE  Inv'
<1> USE DEF Inv
<1>1. /\ program \in Program /\ status = "RUN"
      /\ UNCHANGED <<program, regs, floors, lwcall_stack>>
      /\ status' # "NEW"
      /\ VMStackSize \in Nat \ {0}
      /\ stack_position \in -1 .. VMStackSize - 1
      /\ lwcall_floor \in Nat /\ mctx_floor \in Nat
  <2>1. status = "RUN" /\ UNCHANGED <<regs, floors, lwcall_stack>>
    BY DEF TvmPush, Running
  <2>2. program' = program /\ status' # "NEW"
    BY <2>1 DEF TvmPush, Raise, Advance
  <2> QED
    BY <2>1, <2>2, Ranges DEF TypeOK
<1>2. CASE stack_lock # 0
  <2>1. UNCHANGED <<vmstack, instruction_index>> /\ status' = "INVALID_TVMJUMP_STATE"
    BY <1>2 DEF TvmPush, Raise
  <2>2. TypeOK'
    BY <1>1, <2>1 DEF TypeOK, regs, floors, vmstack, Errors
  <2>3. FrameInv'
    BY <1>1, <2>1, FramesKept DEF FrameInv, regs
  <2> QED
    BY <2>2, <2>3
<1>3. CASE stack_lock = 0 /\ stack_position + 1 >= VMStackSize
  <2>1. /\ UNCHANGED <<stack_position, entry, instruction_index>>
        /\ status' = "STACK_OVERFLOW" /\ stack_lock' = 1
    BY <1>3 DEF TvmPush, Raise
  <2>2. stack_position \in 0 .. VMStackSize - 1
    BY <1>1, <1>3
  <2>3. TypeOK'
    BY <1>1, <2>1 DEF TypeOK, regs, floors, Errors
  <2>4. /\ entry[stack_position].lwFloor <= lwcall_floor
        /\ entry[stack_position].mcFloor <= mctx_floor
    <3>1. stack_position \in 0 .. Calls - 1
      BY <1>3, <2>2 DEF Calls
    <3>2. entry[stack_position] \in Entry
      BY <2>2 DEF TypeOK
    <3> QED
      BY <1>1, <3>1, <3>2 DEF FrameInv, FloorAbove, Entry
  <2>5. FrameInv'
    <3>1. \A k \in 0 .. Calls' - 1 : k \in 0 .. Calls - 1 /\ FloorAbove(k)' = FloorAbove(k)
      BY <1>1, <1>3, <2>1, <2>2 DEF Calls, FloorAbove, floors
    <3> QED
      BY <1>1, <2>1, <2>2, <2>4, <3>1 DEF FrameInv, regs, floors
  <2> QED
    BY <2>3, <2>5
<1>4. CASE stack_lock = 0 /\ ~(stack_position + 1 >= VMStackSize)
  <2> DEFINE top == stack_position + 1
  <2>1. /\ top \in 0 .. VMStackSize - 1
        /\ entry[top] \in Entry
    BY <1>1, <1>4 DEF TypeOK
  <2>2. /\ stack_lock' = 1
        /\ stack_position' = top
        /\ instruction_index' \in Nat
        /\ status' \in {"RUN", "INVALID_TVMJUMP"}
        /\ \E e \in Entry :
              /\ entry' = [entry EXCEPT ![top] = e]
              /\ e.src = program /\ e.lwFloor = lwcall_floor /\ e.mcFloor = mctx_floor
    <3> DEFINE source == [entry[top] EXCEPT !.src = program,
                                            !.lwFloor = lwcall_floor,
                                            !.mcFloor = mctx_floor]
               target == [source EXCEPT !.dst = h.dst, !.fn = h.fn]
    <3>1. /\ source \in Entry
          /\ source.src = program /\ source.lwFloor = lwcall_floor
          /\ source.mcFloor = mctx_floor
      BY <1>1, <2>1 DEF Entry
    <3>2. CASE h \in Handle
      <4>1. h.dst \in Program /\ h.fn \in Nat
        BY <3>2, ConstantsAssumption DEF Handle
      <4>2. /\ target \in Entry
            /\ target.src = program /\ target.lwFloor = lwcall_floor
            /\ target.mcFloor = mctx_floor
        BY <3>1, <4>1 DEF Entry
      <4>3. entry' = [entry EXCEPT ![top] = target] /\ stack_lock' = 1
            /\ stack_position' = top /\ instruction_index' \in Nat /\ status' = "RUN"
        BY <1>1, <1>4, <3>2 DEF TvmPush, Advance, TypeOK
      <4> HIDE DEF target
      <4> QED
        BY <4>2, <4>3
    <3>3. CASE h \notin Handle
      <4>1. entry' = [entry EXCEPT ![top] = source] /\ stack_lock' = 1
            /\ stack_position' = top /\ instruction_index' \in Nat
            /\ status' = "INVALID_TVMJUMP"
        BY <1>1, <1>4, <3>3 DEF TvmPush, Raise, TypeOK
      <4> HIDE DEF source
      <4> QED
        BY <3>1, <4>1
    <3> QED
      BY <3>2, <3>3
  <2> HIDE DEF top
  <2>3. PICK e \in Entry :
              /\ entry' = [entry EXCEPT ![top] = e]
              /\ e.src = program /\ e.lwFloor = lwcall_floor /\ e.mcFloor = mctx_floor
    BY <2>2
  <2>4. TypeOK'
    <3>1. entry' \in [0 .. VMStackSize - 1 -> Entry]
      BY <2>3 DEF TypeOK
    <3>2. \A k \in 0 .. stack_position' : entry'[k].src \in Program
      BY <1>1, <2>1, <2>2, <2>3 DEF TypeOK, top
    <3> QED
      BY <1>1, <2>1, <2>2, <3>1, <3>2 DEF TypeOK, regs, floors, Errors
  <2>5. FrameInv'
    <3>1. Calls' = Calls /\ Calls = top
      BY <1>1, <1>4, <2>2 DEF Calls, top
    <3>2. entry'[top].lwFloor = lwcall_floor /\ entry'[top].mcFloor = mctx_floor
      BY <2>1, <2>3 DEF TypeOK
    <3>3. \A k \in 0 .. top - 1 : entry'[k] = entry[k]
      BY <1>1, <2>1, <2>3 DEF TypeOK
    <3>4. \A k \in 0 .. top - 1 : FloorAbove(k)' = FloorAbove(k)
      <4> TAKE k \in 0 .. top - 1
      <4>1. CASE k < stack_position
        BY <1>1, <2>2, <3>3, <4>1 DEF FloorAbove, top
      <4>2. CASE k = stack_position
        BY <1>1, <2>2, <3>2, <4>2 DEF FloorAbove, top
      <4> QED
        BY <1>1, <4>1, <4>2 DEF top
    <3> QED
      BY <1>1, <2>1, <2>2, <3>1, <3>2, <3>3, <3>4 DEF FrameInv, regs, floors
  <2> QED
    BY <2>4, <2>5
<1> QED
  BY <1>1, <1>2, <1>3, <1>4 DEF TypeOK

LEMMA TvmJumpStep == ASSUME Inv, TvmJump PROVE Inv'
<1> USE DEF Inv
<1>1. /\ program \in Program /\ status = "RUN" /\ status' # "NEW"
      /\ UNCHANGED <<rLWCSI, rMCSI, window, lwcall_stack, stack_position>>
      /\ lwcall_floor' = rLWCSI /\ mctx_floor' = rMCSI
  BY DEF TypeOK, TvmJump, ReturnIndex, Running, Raise, regs, vmstack
<1> USE Ranges
<1>2. CASE stack_lock # 1
  <2>1. UNCHANGED <<vmstack, instruction_index, program>>
        /\ status' = "INVALID_TVMJUMP_STATE"
    BY <1>2 DEF TvmJump, ReturnIndex, Raise
  <2>2. TypeOK'
    BY <1>1, <2>1 DEF TypeOK, vmstack, Errors
  <2>3. \A k \in 0 .. Calls - 1 : k \in 0 .. VMStackSize - 1
    BY <1>1 DEF Calls
  <2>4. \A k \in 0 .. Calls - 1 : /\ entry[k].lwPos <= FloorAbove(k)'.lw
                                   /\ entry[k].mcPos <= FloorAbove(k)'.mc
    <3> TAKE k \in 0 .. Calls - 1
    <3>1. entry[k].lwPos \in Nat /\ entry[k].mcPos \in Nat
      BY <2>3 DEF TypeOK, Entry
    <3> QED
      BY <1>1, <2>1, <3>1 DEF FrameInv, FloorAbove, vmstack
  <2>5. FrameInv'
    BY <1>1, <1>2, <2>1, <2>4 DEF FrameInv, Calls, vmstack, TypeOK
  <2> QED
    BY <2>2, <2>5
<1>3. CASE stack_lock = 1
  <2> DEFINE top == stack_position
             e   == [entry[top] EXCEPT !.ret = instruction_index + 1,
                                       !.lwPos = rLWCSI, !.mcPos = rMCSI]
  <2>1. top \in 0 .. VMStackSize - 1 /\ entry[top] \in Entry
    <3>1. stack_position \in -1 .. VMStackSize - 1 /\ stack_position >= 0
      BY <1>3 DEF TypeOK, FrameInv
    <3>2. entry \in [0 .. VMStackSize - 1 -> Entry]
      BY DEF TypeOK
    <3> QED
      BY ONLY <3>1, <3>2, Ranges
  <2>2. /\ e \in Entry /\ e.src = entry[top].src /\ e.lwPos = rLWCSI /\ e.mcPos = rMCSI
        /\ e.lwFloor = entry[top].lwFloor /\ e.mcFloor = entry[top].mcFloor
        /\ e.lwFloor <= e.lwPos /\ e.mcFloor <= e.mcPos
    <3>1. rLWCSI \in Nat /\ rMCSI \in Nat /\ instruction_index + 1 \in Nat
      BY DEF TypeOK
    <3>2. /\ e \in Entry /\ e.src = entry[top].src /\ e.lwPos = rLWCSI /\ e.mcPos = rMCSI
          /\ e.lwFloor = entry[top].lwFloor /\ e.mcFloor = entry[top].mcFloor
      BY <2>1, <3>1 DEF Entry
    <3>3. entry[top].lwFloor <= rLWCSI /\ entry[top].mcFloor <= rMCSI
      <4>1. /\ entry[top].lwFloor <= lwcall_floor /\ entry[top].mcFloor <= mctx_floor
            /\ entry[top].lwFloor \in Nat /\ entry[top].mcFloor \in Nat
        BY <1>3, <2>1 DEF FrameInv, Entry
      <4> QED
        BY <4>1
    <3> QED
      BY <3>2, <3>3
  <2>3. stack_lock' = 0 /\ entry' = [entry EXCEPT ![top] = e]
    BY <1>3 DEF TvmJump, ReturnIndex
  <2>4. program' \in Program /\ instruction_index' \in Nat /\ status' \in {"RUN", "CRASH"}
    BY <1>1, <1>3, <2>1 DEF TvmJump, ReturnIndex, TypeOK, Entry, Raise
  <2> HIDE DEF e
  <2>5. TypeOK'
    <3>1. \A k \in 0 .. stack_position' : entry'[k].src \in Program
      BY <1>1, <2>1, <2>2, <2>3 DEF TypeOK
    <3> QED
      BY <1>1, <2>1, <2>2, <2>3, <2>4, <3>1 DEF TypeOK
  <2>6. FrameInv'
    <3>1. Calls = top /\ Calls' = top + 1
      BY <1>1, <1>3, <2>3 DEF Calls
    <3>2. entry'[top] = e /\ \A k \in 0 .. top - 1 : entry'[k] = entry[k]
      BY <2>1, <2>3 DEF TypeOK
    <3>3. \A k \in 0 .. top - 1 : FloorAbove(k)' = FloorAbove(k)
      <4> TAKE k \in 0 .. top - 1
      <4>1. CASE k + 1 < top
        BY <1>1, <3>2, <4>1 DEF FloorAbove
      <4>2. CASE k + 1 = top
        BY <1>1, <2>1, <2>2, <3>2, <4>2 DEF FloorAbove
      <4> QED
        BY <1>1, <4>1, <4>2
    <3>4. FloorAbove(top)' = [lw |-> rLWCSI, mc |-> rMCSI]
      BY <1>1 DEF FloorAbove
    <3>5. \A k \in 0 .. Calls' - 1 :
             /\ entry'[k].lwFloor <= entry'[k].lwPos /\ entry'[k].lwPos <= FloorAbove(k)'.lw
             /\ entry'[k].mcFloor <= entry'[k].mcPos /\ entry'[k].mcPos <= FloorAbove(k)'.mc
      <4> TAKE k \in 0 .. Calls' - 1
      <4>1. CASE k = top
        BY <1>1, <2>2, <3>2, <3>4, <4>1
      <4>2. CASE k \in 0 .. top - 1
        BY <3>1, <3>2, <3>3, <4>2 DEF FrameInv
      <4> QED
        BY <1>1, <3>1, <4>1, <4>2
    <3> QED
      BY <1>1, <2>3, <3>5 DEF FrameInv
  <2> QED
    BY <2>5, <2>6
<1> QED
  BY <1>2, <1>3

LEMMA TvmReturnStep == ASSUME Inv, TvmReturn PROVE Inv'
<1> USE DEF Inv
<1>1. /\ program \in Program /\ status = "RUN" /\ status' # "NEW"
      /\ UNCHANGED <<window, lwcall_stack, stack_lock, entry>>
      /\ VMStackSize \in Nat \ {0} /\ LwMax \in Nat /\ McSize \in Nat
      /\ lwcall_floor \in 0 .. LwMax /\ mctx_floor \in 0 .. 2 * McSize - 1
      /\ stack_position \in -1 .. VMStackSize - 1
  BY Ranges DEF TypeOK, TvmReturn, RestoredLw, RestoredMc, Dispatch, Running, Raise
<1>2. CASE stack_lock # 0 \/ stack_position < 0
  <2>1. UNCHANGED <<vmstack, regs, floors, instruction_index, program>> /\ status' \in Errors
    BY <1>1, <1>2 DEF TvmReturn, RestoredLw, RestoredMc, Raise, Errors, regs, vmstack
  <2>2. TypeOK'
    BY <1>1, <2>1 DEF TypeOK, regs, floors, vmstack
  <2>3. FrameInv'
    BY <2>1, FramesKept DEF FrameInv, regs
  <2> QED
    BY <2>2, <2>3
<1>3. CASE ~(stack_lock # 0 \/ stack_position < 0)
  <2> DEFINE top == entry[stack_position]
  <2>1. /\ stack_position \in 0 .. VMStackSize - 1
        /\ top \in Entry /\ top.src \in Program
    BY <1>1, <1>3 DEF TypeOK
  <2>2. /\ stack_position' = stack_position - 1 /\ status' \in {"RUN", "CRASH"}
        /\ lwcall_floor' = top.lwFloor /\ mctx_floor' = top.mcFloor
        /\ rLWCSI' = top.lwPos /\ rMCSI' = top.mcPos
        /\ program' = top.src /\ instruction_index' = top.ret
    BY <1>1, <1>3 DEF TvmReturn, RestoredLw, RestoredMc, Dispatch
  <2>3. /\ top.lwFloor <= top.lwPos /\ top.lwPos <= lwcall_floor
        /\ top.mcFloor <= top.mcPos /\ top.mcPos <= mctx_floor
    <3>1. stack_position \in 0 .. Calls - 1
      BY <1>3, <2>1 DEF Calls
    <3> QED
      BY <2>1, <3>1 DEF FrameInv, FloorAbove
  <2> HIDE DEF top
  <2>4. /\ top.lwFloor \in 0 .. LwMax /\ top.lwPos \in 0 .. LwMax
        /\ top.mcFloor \in 0 .. 2 * McSize - 1 /\ top.mcPos \in 0 .. 2 * McSize - 1
        /\ top.ret \in Nat
    BY <1>1, <2>1, <2>3 DEF Entry
  <2>5. TypeOK'
    <3>1. \A k \in 0 .. stack_position' : entry'[k].src \in Program
      BY <1>1, <2>2 DEF TypeOK
    <3> QED
      BY <1>1, <2>1, <2>2, <2>4, <3>1 DEF TypeOK
  <2>6. FrameInv'
    <3>1. Calls' = stack_position /\ Calls = stack_position + 1
      BY <1>1, <1>3, <2>1, <2>2 DEF Calls
    <3>2. \A k \in 0 .. stack_position - 1 : FloorAbove(k)' = FloorAbove(k)
      BY <1>1, <2>1, <2>2 DEF FloorAbove, top
    <3> QED
      BY <1>1, <1>3, <2>1, <2>2, <2>3, <3>1, <3>2 DEF FrameInv
  <2> QED
    BY <2>5, <2>6
<1> QED
  BY <1>2, <1>3

-----------------------------------------------------------------------------

LEMMA NextInv == ASSUME Inv, [Next]_vars PROVE Inv'
<1>1. CASE UNCHANGED vars
  <2>1. TypeOK'
    BY <1>1 DEF Inv, TypeOK, vars, regs, floors, vmstack
  <2>2. FrameInv'
    BY <1>1, FramesKept DEF Inv, FrameInv, vars, regs
  <2> QED
    BY <2>1, <2>2 DEF Inv
<1>2. CASE Script
  <2>1. CASE Step \/ Exit \/ Break \/ HostFunction
    BY <2>1, PlainStep
  <2>2. CASE Running /\ \E t \in -1 .. Length[program] : Goto(t) \/ LwCall(t)
    BY <2>2, PlainStep, LwCallStep
  <2>3. CASE LwReturn
    BY <2>3, LwReturnStep
  <2>4. CASE MctxPush \/ MctxPop \/ \E n \in -1 .. McSize + 1 : MctxJump(n)
    BY <2>4, MctxStep
  <2>5. CASE \E h \in Handle \cup {None} : TvmPush(h)
    BY <2>5, TvmPushStep
  <2>6. CASE TvmJump
    BY <2>6, TvmJumpStep
  <2>7. CASE TvmReturn
    BY <2>7, TvmReturnStep
  <2> QED
    BY <1>2, <2>1, <2>2, <2>3, <2>4, <2>5, <2>6, <2>7 DEF Script
<1>3. CASE Host
  <2>1. CASE \E h \in Handle : HostCall(h.dst, h.fn)
    <3>1. PICK h \in Handle : HostCall(h.dst, h.fn)
      BY <2>1
    <3>2. h.dst \in Program /\ h.fn \in EntryPoint[h.dst]
      BY DEF Handle
    <3> QED
      BY <3>1, <3>2, HostCallStep
  <2>2. CASE HostResume
    BY <2>2, PlainStep
  <2> QED
    BY <1>3, <2>1, <2>2 DEF Host
<1> QED
  BY <1>1, <1>2, <1>3 DEF Next

\* Every context keeps its registers, floors and stacks in range, whatever the
\* scripts do and however the host calls into them.
THEOREM TypeCorrect == Spec => []TypeOK
<1>1. Inv => TypeOK
  BY DEF Inv
<1> QED
  BY InitInv, NextInv, <1>1, PTL DEF Spec

\* No activation reaches below what its caller left on either stack: the floors
\* separate the frames through calls, failures and repeated host calls.
THEOREM FramesSeparate == Spec => []FrameInv
<1>1. Inv => FrameInv
  BY DEF Inv
<1> QED
  BY InitInv, NextInv, <1>1, PTL DEF Spec

-----------------------------------------------------------------------------
(***************************************************************************)
(* For any programs and stack sizes: when the host only calls a wound-up    *)
(* context, every index a return will use was left by a call of the program  *)
(* it returns to, and control is lost only by the return to a call that was *)
(* the last command of its program.                                         *)
(***************************************************************************)

\* No frame of a suspended caller lies above a floor set later.  FrameInv says so
\* of neighbours only.
FramesOrdered ==
    \A k \in 0 .. Calls - 1 :
        /\ entry[k].lwPos <= lwcall_floor
        /\ \A j \in 0 .. k - 1 : entry[j].lwPos <= entry[k].lwFloor

\* An entry that was pushed and not jumped through yet starts a function.
TargetStarts ==
    stack_lock = 1 /\ status \in {"RUN", "SUSPEND"} =>
        /\ entry[stack_position].dst \in Program
        /\ entry[stack_position].fn < Length[entry[stack_position].dst]

OwnInv == ReturnsOwned /\ InsideProgram /\ FramesOrdered /\ TargetStarts

-----------------------------------------------------------------------------
(* Steps within one activation.                                             *)

LEMMA CallIndices == ASSUME Inv PROVE \A k \in 0 .. Calls - 1 : k \in 0 .. VMStackSize - 1
BY Ranges DEF Inv, TypeOK, Calls

\* A step that leaves both stacks of return indices alone.
LEMMA Quiet ==
    ASSUME OwnInv, UNCHANGED <<program, rLWCSI, floors, lwcall_stack, vmstack>>,
           status' \in {"RUN", "SUSPEND"} => status \in {"RUN", "SUSPEND"},
           status' = "RUN" => instruction_index' < Length[program],
           status' = "CRASH" => status = "CRASH" /\ instruction_index' = instruction_index
    PROVE  OwnInv'
<1>1. UNCHANGED <<lwcall_floor, stack_lock, stack_position, entry>>
  BY DEF floors, vmstack
<1>2. Calls' = Calls
  BY <1>1 DEF Calls
<1>3. ReturnsOwned'
  BY <1>1, <1>2 DEF OwnInv, ReturnsOwned, PushedBy
<1>4. InsideProgram'
  BY DEF OwnInv, InsideProgram, Running
<1>5. FramesOrdered' /\ TargetStarts'
  BY <1>1, <1>2 DEF OwnInv, FramesOrdered, TargetStarts
<1> QED
  BY <1>3, <1>4, <1>5 DEF OwnInv

LEMMA QuietSteps ==
    ASSUME Inv, OwnInv,
           \/ Step \/ Exit \/ Break \/ HostFunction \/ HostResume
           \/ \E t \in -1 .. Length[program] : Running /\ Goto(t)
           \/ MctxPush \/ MctxPop \/ \E n \in -1 .. McSize + 1 : MctxJump(n)
    PROVE  OwnInv'
<1>1. CASE Step \/ Exit \/ Break \/ HostFunction
  BY <1>1, Quiet DEF Step, Exit, Break, HostFunction, Advance, HasNext, Running, regs
<1>2. CASE HostResume
  BY <1>2, Quiet DEF HostResume, Resumable
<1>3. ASSUME NEW t \in -1 .. Length[program], Running, Goto(t) PROVE OwnInv'
  <2>1. Length[program] \in Nat
    BY <1>3, ConstantsAssumption DEF Running, Inv, TypeOK
  <2>2. CASE t \in 0 .. Length[program] - 1
    BY <1>3, <2>1, <2>2, Quiet DEF Goto, regs, Running
  <2>3. CASE t \notin 0 .. Length[program] - 1
    BY <1>3, <2>3, Quiet DEF Goto, regs, Raise
  <2> QED
    BY <2>2, <2>3
<1>4. CASE MctxPush
  BY <1>4, Quiet DEF MctxPush, Raise, Advance, HasNext, Running
<1>5. CASE MctxPop
  BY <1>5, Quiet DEF MctxPop, Raise, Advance, HasNext, Running
<1>6. ASSUME NEW n \in -1 .. McSize + 1, MctxJump(n) PROVE OwnInv'
  BY <1>6, Quiet DEF MctxJump, Raise, Advance, HasNext, Running
<1> QED
  BY <1>1, <1>2, <1>3, <1>4, <1>5, <1>6

\* What lwcall pushes and tvmjump stores.
LEMMA ReturnIndexLeft ==
    ASSUME Inv, OwnInv, Running, MayCall
    PROVE  ReturnIndexOf(program, instruction_index + 1)
<1>1. /\ instruction_index \in Nat /\ Length[program] \in Nat
      /\ instruction_index < Length[program]
  BY ConstantsAssumption DEF Running, Inv, TypeOK, OwnInv, InsideProgram
<1> QED
  BY <1>1 DEF MayCall, HasNext, ReturnIndexOf

LEMMA LwCallOwned ==
    ASSUME Inv, OwnInv, NEW t \in -1 .. Length[program], LwCall(t)
    PROVE  OwnInv'
<1>1. /\ status = "RUN" /\ program \in Program /\ Length[program] \in Nat
      /\ instruction_index \in Nat /\ ReturnIndexOf(program, instruction_index + 1)
      /\ UNCHANGED <<floors, vmstack>> /\ lwcall_floor' = lwcall_floor
  BY ConstantsAssumption, ReturnIndexLeft DEF LwCall, Running, Inv, TypeOK, floors
<1>2. CASE LwFull
  BY <1>1, <1>2, Quiet DEF LwCall, Raise
<1>3. CASE ~LwFull
  <2>1. /\ lwcall_stack' = [lwcall_stack EXCEPT ![rLWCSI] =
                              [owner |-> program, ret |-> instruction_index + 1]]
        /\ rLWCSI' = rLWCSI + 1 /\ program' = program
    BY <1>3 DEF LwCall, ReturnIndex, Raise
  <2>2. /\ rLWCSI \in 0 .. LwMax - 1 /\ lwcall_floor \in 0 .. LwMax /\ lwcall_floor <= rLWCSI
        /\ rLWCSI \in Nat /\ LwMax \in Nat
    BY <1>3, Ranges DEF LwFull
  <2>3. /\ lwcall_stack'[rLWCSI].owner = program
        /\ lwcall_stack'[rLWCSI].ret = instruction_index + 1
        /\ \A i \in 0 .. rLWCSI - 1 : lwcall_stack'[i] = lwcall_stack[i]
    BY <2>1, <2>2 DEF Inv, TypeOK
  <2>4. PushedBy(program, lwcall_floor, rLWCSI)'
    <3>1. \A i \in lwcall_floor .. rLWCSI : i = rLWCSI \/ (i \in 0 .. rLWCSI - 1 /\ i \in lwcall_floor .. rLWCSI - 1)
      BY <2>2
    <3>2. \A i \in lwcall_floor .. rLWCSI :
             lwcall_stack'[i].owner = program /\ ReturnIndexOf(program, lwcall_stack'[i].ret)
      BY <1>1, <2>3, <3>1 DEF OwnInv, ReturnsOwned, PushedBy
    <3>3. lwcall_floor .. (rLWCSI + 1) - 1 = lwcall_floor .. rLWCSI
      BY <2>2
    <3> QED
      BY <1>1, <2>1, <3>2, <3>3 DEF PushedBy
  <2>5. Calls' = Calls /\ entry' = entry /\ stack_position' = stack_position /\ stack_lock' = stack_lock
    BY <1>1 DEF Calls, vmstack
  <2>6. \A k \in 0 .. Calls - 1 :
           /\ PushedBy(entry[k].src, entry[k].lwFloor, entry[k].lwPos)'
           /\ ReturnIndexOf(entry[k].src, entry[k].ret)
    <3> SUFFICES ASSUME NEW k \in 0 .. Calls - 1
                 PROVE  PushedBy(entry[k].src, entry[k].lwFloor, entry[k].lwPos)'
      BY DEF OwnInv, ReturnsOwned
    <3>1. entry[k].lwPos \in Nat /\ entry[k].lwFloor \in Nat /\ entry[k].lwPos <= rLWCSI
      <4>1. entry[k] \in Entry /\ entry[k].lwPos <= lwcall_floor
        BY CallIndices DEF Inv, TypeOK, OwnInv, FramesOrdered
      <4> QED
        BY <4>1, <2>2 DEF Entry
    <3>2. \A i \in entry[k].lwFloor .. entry[k].lwPos - 1 : lwcall_stack'[i] = lwcall_stack[i]
      BY <2>2, <2>3, <3>1
    <3> QED
      BY <2>5, <3>2 DEF OwnInv, ReturnsOwned, PushedBy
  <2>7. ReturnsOwned'
    BY <1>1, <2>1, <2>4, <2>5, <2>6 DEF OwnInv, ReturnsOwned
  <2>8. InsideProgram'
    BY <1>1, <1>3 DEF LwCall, Raise, InsideProgram, Running
  <2>9. FramesOrdered' /\ TargetStarts'
    BY <1>1, <2>5 DEF OwnInv, FramesOrdered, TargetStarts
  <2> QED
    BY <2>7, <2>8, <2>9 DEF OwnInv
<1> QED
  BY <1>2, <1>3

LEMMA LwReturnOwned == ASSUME Inv, OwnInv, LwReturn PROVE OwnInv'
<1>1. status = "RUN" /\ UNCHANGED <<floors, lwcall_stack, vmstack>>
  BY DEF LwReturn, Running
<1>2. CASE SignedWord(rLWCSI, LwHalf) <= SignedWord(lwcall_floor, LwHalf)
  BY <1>1, <1>2, Quiet DEF LwReturn, Raise
<1>3. CASE ~(SignedWord(rLWCSI, LwHalf) <= SignedWord(lwcall_floor, LwHalf))
  <2>1. /\ rLWCSI' = rLWCSI - 1 /\ program' = program
        /\ instruction_index' = lwcall_stack[rLWCSI - 1].ret
        /\ status' = IF instruction_index' < Length[program] THEN "RUN" ELSE "CRASH"
    BY <1>1, <1>3 DEF LwReturn, Dispatch
  <2>2. /\ lwcall_floor <= rLWCSI - 1 /\ lwcall_floor \in Nat /\ rLWCSI \in Nat
    BY <1>3, Ranges, LwPopStaysAbove
  <2>3. ReturnIndexOf(program, instruction_index')
    BY <2>1, <2>2 DEF OwnInv, ReturnsOwned, PushedBy
  <2>4. PushedBy(program, lwcall_floor, rLWCSI - 1)
    BY <2>2 DEF OwnInv, ReturnsOwned, PushedBy
  <2>5. Calls' = Calls /\ UNCHANGED <<lwcall_floor, entry, stack_position, stack_lock>>
    BY <1>1 DEF Calls, vmstack, floors
  <2>6. ReturnsOwned'
    BY <1>1, <2>1, <2>4, <2>5 DEF OwnInv, ReturnsOwned, PushedBy
  <2>7. InsideProgram'
    BY <2>1, <2>3 DEF InsideProgram, Running, ReturnIndexOf
  <2>8. FramesOrdered' /\ TargetStarts'
    BY <1>1, <2>1, <2>5 DEF OwnInv, FramesOrdered, TargetStarts
  <2> QED
    BY <2>6, <2>7, <2>8 DEF OwnInv
<1> QED
  BY <1>2, <1>3

-----------------------------------------------------------------------------
(* Steps from one activation to another.                                    *)

LEMMA HostCallOwned ==
    ASSUME HostWindsUp, NEW p \in Program, NEW f \in EntryPoint[p], HostCall(p, f)
    PROVE  OwnInv'
<1>1. /\ stack_position = -1 /\ stack_lock = 0 /\ rLWCSI = 0 /\ lwcall_floor = 0
      /\ UNCHANGED <<rLWCSI, lwcall_floor, stack_position, stack_lock>>
      /\ program' = p /\ instruction_index' = f /\ status' = "RUN"
  BY DEF HostCall, WoundUp, floors, vmstack
<1>2. Calls' = 0
  BY <1>1 DEF Calls
<1>3. ReturnsOwned'
  BY <1>1, <1>2 DEF ReturnsOwned, PushedBy
<1>4. InsideProgram'
  BY <1>1, ConstantsAssumption DEF InsideProgram
<1>5. FramesOrdered' /\ TargetStarts'
  BY <1>1, <1>2 DEF FramesOrdered, TargetStarts
<1> QED
  BY <1>3, <1>4, <1>5 DEF OwnInv

\* The handle of a program and a function that exist.
LEMMA HandleStarts ==
    ASSUME NEW h \in Handle
    PROVE  h.dst \in Program /\ h.fn \in Nat /\ h.fn < Length[h.dst]
BY ConstantsAssumption DEF Handle

LEMMA TvmPushOwned ==
    ASSUME Inv, OwnInv, NEW h \in Handle \cup {None}, TvmPush(h)
    PROVE  OwnInv'
<1>1. /\ status = "RUN" /\ program' = program /\ UNCHANGED <<rLWCSI, floors, lwcall_stack>>
      /\ lwcall_floor' = lwcall_floor
  BY DEF TvmPush, Running, Raise, Advance, regs, floors
<1>2. CASE stack_lock # 0
  BY <1>1, <1>2, Quiet DEF TvmPush, Raise
<1>3. CASE stack_lock = 0 /\ stack_position + 1 >= VMStackSize
  <2>1. /\ UNCHANGED <<stack_position, entry>> /\ stack_lock' = 1 /\ status' = "STACK_OVERFLOW"
    BY <1>3 DEF TvmPush, Raise
  <2>2. \A k \in 0 .. Calls' - 1 : k \in 0 .. Calls - 1
    BY <1>3, <2>1, Ranges DEF Calls
  <2>3. ReturnsOwned'
    BY <1>1, <2>1, <2>2 DEF OwnInv, ReturnsOwned, PushedBy
  <2>4. InsideProgram' /\ FramesOrdered' /\ TargetStarts'
    BY <1>1, <2>1, <2>2 DEF OwnInv, InsideProgram, Running, FramesOrdered, TargetStarts
  <2> QED
    BY <2>3, <2>4 DEF OwnInv
<1>4. CASE stack_lock = 0 /\ ~(stack_position + 1 >= VMStackSize)
  <2> DEFINE top == stack_position + 1
             source == [entry[top] EXCEPT !.src = program,
                                          !.lwFloor = lwcall_floor,
                                          !.mcFloor = mctx_floor]
             target == [source EXCEPT !.dst = h.dst, !.fn = h.fn]
  <2>1. top \in 0 .. VMStackSize - 1 /\ stack_position' = top /\ stack_lock' = 1
        /\ entry \in [0 .. VMStackSize - 1 -> Entry] /\ Calls = top
    <3>1. stack_position' = stack_position + 1 /\ stack_lock' = 1
      BY <1>4 DEF TvmPush
    <3>2. stack_position + 1 \in 0 .. VMStackSize - 1 /\ Calls = stack_position + 1
      BY <1>4, Ranges DEF Calls
    <3> QED
      BY <3>1, <3>2 DEF Inv, TypeOK
  <2>2. Calls' = top
    BY <2>1 DEF Calls
  <2>3. source.src = program /\ source.lwFloor = lwcall_floor
    BY <2>1 DEF Entry
  <2>4. \/ /\ entry' = [entry EXCEPT ![top] = target] /\ h \in Handle
           /\ status' = "RUN" /\ instruction_index' < Length[program]
        \/ entry' = [entry EXCEPT ![top] = source] /\ status' = "INVALID_TVMJUMP"
    BY <1>1, <1>4 DEF TvmPush, Advance, HasNext, Raise
  <2>5. /\ entry'[top].src = program /\ entry'[top].lwFloor = lwcall_floor
        /\ status' = "RUN" => entry'[top].dst \in Program /\ entry'[top].fn < Length[entry'[top].dst]
        /\ status' # "SUSPEND"
    <3>1. CASE entry' = [entry EXCEPT ![top] = target] /\ h \in Handle /\ status' = "RUN"
      <4>1. target.src = program /\ target.lwFloor = lwcall_floor /\ target.dst = h.dst /\ target.fn = h.fn
        BY <2>1, <2>3 DEF Entry
      <4>2. entry'[top] = target
        BY <3>1, <2>1
      <4> HIDE DEF target, top
      <4> QED
        BY <3>1, <4>1, <4>2, HandleStarts
    <3>2. CASE entry' = [entry EXCEPT ![top] = source] /\ status' = "INVALID_TVMJUMP"
      <4>1. entry'[top] = source
        BY <3>2, <2>1
      <4> HIDE DEF source, top
      <4> QED
        BY <3>2, <4>1, <2>3
    <3> QED
      BY <2>4, <3>1, <3>2
  <2>6. \A k \in 0 .. top - 1 : entry'[k] = entry[k]
    <3> HIDE DEF source, target
    <3>1. \E e : entry' = [entry EXCEPT ![top] = e]
      BY <2>4
    <3> HIDE DEF top
    <3>2. \A k \in 0 .. top - 1 : k \in 0 .. VMStackSize - 1 /\ k # top
      BY <2>1, Ranges
    <3> QED
      BY <2>1, <3>1, <3>2
  <2> HIDE DEF top, source, target
  <2>7. ReturnsOwned'
    BY <1>1, <2>1, <2>2, <2>5, <2>6 DEF OwnInv, ReturnsOwned, PushedBy
  <2>8. InsideProgram'
    BY <1>1, <2>4 DEF InsideProgram, Running
  <2>9. FramesOrdered'
    <3>1. \A k \in 0 .. top - 1 : \A j \in 0 .. k - 1 : j \in 0 .. top - 1
      BY <2>1
    <3> QED
      BY <1>1, <2>1, <2>2, <2>6, <3>1 DEF OwnInv, FramesOrdered
  <2>10. TargetStarts'
    BY <2>1, <2>5 DEF TargetStarts
  <2> QED
    BY <2>7, <2>8, <2>9, <2>10 DEF OwnInv
<1> QED
  BY <1>2, <1>3, <1>4 DEF Inv, TypeOK

LEMMA TvmJumpOwned == ASSUME Inv, OwnInv, TvmJump PROVE OwnInv'
<1>1. /\ status = "RUN" /\ ReturnIndexOf(program, instruction_index + 1)
      /\ UNCHANGED <<rLWCSI, lwcall_stack, stack_position>> /\ lwcall_floor' = rLWCSI
      /\ rLWCSI \in Nat /\ lwcall_floor \in Nat /\ lwcall_floor <= rLWCSI
  BY Ranges, ReturnIndexLeft DEF TvmJump, Running, regs, vmstack
<1>2. \A p : PushedBy(p, rLWCSI, rLWCSI)
  BY <1>1 DEF PushedBy
<1>3. \A k \in 0 .. Calls - 1 : entry[k] \in Entry /\ entry[k].lwPos <= rLWCSI
  <2>1. \A k \in 0 .. Calls - 1 : entry[k] \in Entry /\ entry[k].lwPos <= lwcall_floor
    BY CallIndices DEF Inv, TypeOK, OwnInv, FramesOrdered
  <2> QED
    BY <1>1, <2>1 DEF Entry
<1>4. CASE stack_lock # 1
  <2>1. /\ UNCHANGED <<stack_lock, entry, program>> /\ status' = "INVALID_TVMJUMP_STATE"
    BY <1>4 DEF TvmJump, Raise, vmstack
  <2>2. Calls' = Calls
    BY <1>1, <2>1 DEF Calls
  <2>3. ReturnsOwned'
    BY <1>1, <1>2, <2>1, <2>2 DEF OwnInv, ReturnsOwned, PushedBy
  <2>4. InsideProgram' /\ FramesOrdered' /\ TargetStarts'
    BY <1>1, <1>3, <2>1, <2>2 DEF OwnInv, InsideProgram, Running, FramesOrdered, TargetStarts
  <2> QED
    BY <2>3, <2>4 DEF OwnInv
<1>5. CASE stack_lock = 1
  <2> DEFINE top == stack_position
             e   == [entry[top] EXCEPT !.ret = instruction_index + 1,
                                       !.lwPos = rLWCSI, !.mcPos = rMCSI]
  <2>1. /\ top \in 0 .. VMStackSize - 1 /\ entry[top] \in Entry
        /\ entry \in [0 .. VMStackSize - 1 -> Entry] /\ Calls = top
    <3>1. stack_position >= 0
      BY <1>5 DEF Inv, FrameInv
    <3>2. entry \in [0 .. VMStackSize - 1 -> Entry]
      BY DEF Inv, TypeOK
    <3> QED
      BY <1>5, <3>1, <3>2, Ranges DEF Calls
  <2>2. stack_lock' = 0 /\ entry' = [entry EXCEPT ![top] = e]
    BY <1>5 DEF TvmJump, ReturnIndex
  <2>3. /\ entry[top].src = program /\ entry[top].lwFloor = lwcall_floor
        /\ entry[top].dst \in Program /\ entry[top].fn < Length[entry[top].dst]
        /\ program' = entry[top].dst /\ instruction_index' = entry[top].fn /\ status' = "RUN"
    <3>1. /\ entry[top].src = program /\ entry[top].lwFloor = lwcall_floor
          /\ entry[top].dst \in Program /\ entry[top].fn < Length[entry[top].dst]
      BY <1>1, <1>5 DEF OwnInv, ReturnsOwned, TargetStarts
    <3>2. entry[top].dst # None
      BY <3>1, ConstantsAssumption
    <3> QED
      BY <1>1, <1>5, <3>1, <3>2 DEF TvmJump
  <2>4. /\ e.src = program /\ e.lwFloor = lwcall_floor /\ e.lwPos = rLWCSI
        /\ e.ret = instruction_index + 1
    BY <2>1, <2>3 DEF Entry
  <2> HIDE DEF e
  <2>5. Calls' = top + 1 /\ entry'[top] = e /\ \A k \in 0 .. top - 1 : entry'[k] = entry[k]
    BY <1>1, <2>1, <2>2 DEF Calls
  <2>6. \A k \in 0 .. top : k = top \/ k \in 0 .. Calls - 1
    BY <2>1
  <2> HIDE DEF top
  <2>7. ReturnsOwned'
    <3>1. PushedBy(e.src, e.lwFloor, e.lwPos) /\ ReturnIndexOf(e.src, e.ret)
      BY <1>1, <2>4 DEF OwnInv, ReturnsOwned
    <3>2. \A k \in 0 .. Calls' - 1 :
             /\ PushedBy(entry'[k].src, entry'[k].lwFloor, entry'[k].lwPos)
             /\ ReturnIndexOf(entry'[k].src, entry'[k].ret)
      <4> SUFFICES ASSUME NEW k \in 0 .. top
                   PROVE  /\ PushedBy(entry'[k].src, entry'[k].lwFloor, entry'[k].lwPos)
                          /\ ReturnIndexOf(entry'[k].src, entry'[k].ret)
        BY <2>1, <2>5
      <4>1. CASE k = top
        BY <4>1, <2>5, <3>1
      <4>2. CASE k \in 0 .. Calls - 1
        BY <4>2, <2>1, <2>5 DEF OwnInv, ReturnsOwned
      <4> QED
        BY <2>6, <4>1, <4>2
    <3>3. PushedBy(program', lwcall_floor', rLWCSI')
      BY <1>1, <1>2
    <3> QED
      BY <1>1, <2>2, <3>2, <3>3 DEF ReturnsOwned, PushedBy
  <2>8. InsideProgram'
    BY <2>2, <2>3 DEF InsideProgram, Running
  <2>9. FramesOrdered'
    <3>1. \A j \in 0 .. Calls - 1 : entry[j].lwPos <= lwcall_floor
      BY DEF OwnInv, FramesOrdered
    <3>2. \A k \in 0 .. top : entry'[k].lwPos <= rLWCSI
      BY <1>1, <1>3, <2>1, <2>4, <2>5, <2>6
    <3>3. \A k \in 0 .. top : \A j \in 0 .. k - 1 : entry'[j].lwPos <= entry'[k].lwFloor
      <4> TAKE k \in 0 .. top
      <4> TAKE j \in 0 .. k - 1
      <4>1. j \in 0 .. top - 1 /\ entry'[j] = entry[j]
        BY <2>1, <2>5
      <4>2. CASE k = top
        BY <4>1, <4>2, <2>1, <2>4, <2>5, <3>1
      <4>3. CASE k \in 0 .. Calls - 1
        BY <4>1, <4>3, <2>1, <2>5 DEF OwnInv, FramesOrdered
      <4> QED
        BY <2>6, <4>2, <4>3
    <3>4. 0 .. Calls' - 1 = 0 .. top
      BY <2>1, <2>5
    <3> QED
      BY <1>1, <3>2, <3>3, <3>4 DEF FramesOrdered
  <2>10. TargetStarts'
    BY <2>2 DEF TargetStarts
  <2> QED
    BY <2>7, <2>8, <2>9, <2>10 DEF OwnInv
<1> QED
  BY <1>4, <1>5

LEMMA TvmReturnOwned == ASSUME Inv, OwnInv, TvmReturn PROVE OwnInv'
<1>1. status = "RUN" /\ UNCHANGED <<lwcall_stack, stack_lock, entry>>
  BY DEF TvmReturn, Running
<1>2. CASE stack_lock # 0 \/ stack_position < 0
  BY <1>1, <1>2, Quiet DEF TvmReturn, Raise, vmstack
<1>3. CASE ~(stack_lock # 0 \/ stack_position < 0)
  <2> DEFINE top == entry[stack_position]
  <2>1. /\ stack_position' = stack_position - 1 /\ lwcall_floor' = top.lwFloor
        /\ rLWCSI' = top.lwPos /\ program' = top.src /\ instruction_index' = top.ret
        /\ status' = IF top.ret < Length[top.src] THEN "RUN" ELSE "CRASH"
        /\ stack_lock' = 0
    BY <1>1, <1>3 DEF TvmReturn, RestoredLw, RestoredMc, Dispatch
  <2>2. stack_position \in 0 .. Calls - 1 /\ Calls = stack_position + 1 /\ Calls' = stack_position
    BY <1>3, <2>1, Ranges DEF Calls
  <2>3. PushedBy(top.src, top.lwFloor, top.lwPos) /\ ReturnIndexOf(top.src, top.ret)
    BY <2>2 DEF OwnInv, ReturnsOwned
  <2>4. \A k \in 0 .. stack_position - 1 : k \in 0 .. Calls - 1
    BY <2>2
  <2>5. ReturnsOwned'
    <3>1. PushedBy(program', lwcall_floor', rLWCSI')
      BY <2>1, <2>3
    <3> QED
      BY <1>1, <2>1, <2>2, <2>4, <3>1 DEF OwnInv, ReturnsOwned, PushedBy
  <2>6. InsideProgram'
    BY <2>1, <2>3 DEF InsideProgram, Running, ReturnIndexOf
  <2>7. FramesOrdered'
    BY <1>1, <2>1, <2>2, <2>4 DEF OwnInv, FramesOrdered
  <2>8. TargetStarts'
    BY <2>1 DEF TargetStarts
  <2> QED
    BY <2>5, <2>6, <2>7, <2>8 DEF OwnInv
<1> QED
  BY <1>2, <1>3

-----------------------------------------------------------------------------

LEMMA InitOwned == ASSUME Init PROVE OwnInv
<1>1. Calls = 0
  BY DEF Init, Calls
<1> QED
  BY <1>1 DEF Init, OwnInv, ReturnsOwned, PushedBy, InsideProgram, Running, FramesOrdered, TargetStarts

LEMMA NextOwned == ASSUME HostWindsUp, Inv, OwnInv, [Next]_vars PROVE OwnInv'
<1>1. CASE UNCHANGED vars
  BY <1>1, Quiet DEF vars, regs, OwnInv, InsideProgram, Running
<1>2. CASE Script
  BY <1>2, QuietSteps, LwCallOwned, LwReturnOwned, TvmPushOwned, TvmJumpOwned, TvmReturnOwned
     DEF Script
<1>3. CASE Host
  <2>1. CASE \E h \in Handle : HostCall(h.dst, h.fn)
    <3>1. PICK h \in Handle : HostCall(h.dst, h.fn)
      BY <2>1
    <3>2. h.dst \in Program /\ h.fn \in EntryPoint[h.dst]
      BY DEF Handle
    <3> QED
      BY <3>1, <3>2, HostCallOwned
  <2> QED
    BY <1>3, <2>1, QuietSteps DEF Host
<1> QED
  BY <1>1, <1>2, <1>3 DEF Next

LEMMA OwnKept == Spec => [](Inv /\ (HostWindsUp => OwnInv))
<1>1. Init => Inv /\ (HostWindsUp => OwnInv)
  BY InitInv, InitOwned
<1>2. Inv /\ (HostWindsUp => OwnInv) /\ [Next]_vars => (Inv /\ (HostWindsUp => OwnInv))'
  BY NextInv, NextOwned
<1> QED
  BY <1>1, <1>2, PTL DEF Spec

\* With such a host, lwreturn and tvmreturn only use indices that a call of the
\* program they return to has left: inside it, or just past it when it ends in a call.
THEOREM ReturnsStayOwned == Spec => [](HostWindsUp => ReturnsOwned)
<1>1. Inv /\ (HostWindsUp => OwnInv) => (HostWindsUp => ReturnsOwned)
  BY DEF OwnInv
<1> QED
  BY <1>1, OwnKept, PTL

\* With such a host, no call, return, jump or resumption leaves the program that
\* runs, although the code tests only computed targets and resumptions, except the
\* return to a call that was the last command of its program.
THEOREM NeverOutside == Spec => [](HostWindsUp => InsideProgram)
<1>1. Inv /\ (HostWindsUp => OwnInv) => (HostWindsUp => InsideProgram)
  BY DEF OwnInv
<1> QED
  BY <1>1, OwnKept, PTL

-----------------------------------------------------------------------------
(***************************************************************************)
(* For any programs and stack sizes: when the host only calls a wound-up    *)
(* context, calls between programs behave as nested calls.  The activations *)
(* are read off the stacks as TvmCallRefinement does it, and every          *)
(* instruction is a step of NestedCalls or changes nothing it speaks of.    *)
(***************************************************************************)

\* An entry that was pushed and not jumped through yet: what tvmjump will find.
PushedReady ==
    stack_lock = 1 /\ status \in {"RUN", "SUSPEND"} =>
        /\ entry[stack_position].mcFloor = mctx_floor
        /\ entry[stack_position].dst \in Program
        /\ entry[stack_position].fn \in EntryPoint[entry[stack_position].dst]

NestInv == Inv /\ OwnInv /\ PushedReady

-----------------------------------------------------------------------------
(* Sequences that differ at their end.                                      *)

LEMMA LastCut ==
    ASSUME NEW T, NEW s \in Seq(T), Len(s) >= 1
    PROVE  /\ SubSeq(s, 1, Len(s) - 1) \in Seq(T) /\ Len(SubSeq(s, 1, Len(s) - 1)) = Len(s) - 1
           /\ \A k \in 1 .. Len(s) - 1 : SubSeq(s, 1, Len(s) - 1)[k] = s[k]
<1> DEFINE n == Len(s) - 1
           u == SubSeq(s, 1, n)
<1>1. n \in Nat /\ Len(s) = n + 1
  BY LenProperties
<1>2. \A k \in 1 .. n : s[k] \in T
  <2>1. \A k \in 1 .. n : k \in 1 .. Len(s)
    BY <1>1
  <2> QED
    BY <2>1, ElementOfSeq
<1>3. n - 1 + 1 = n /\ (~(1 <= n) => n = 0) /\ \A k \in 1 .. n : 1 + k - 1 = k
  BY <1>1
<1> HIDE DEF n
<1>4. /\ u \in Seq(T) /\ Len(u) = IF 1 <= n THEN n - 1 + 1 ELSE 0
      /\ \A k \in 1 .. n - 1 + 1 : u[k] = s[1 + k - 1]
  BY <1>1, <1>2, SubSeqProperties
<1>5. u \in Seq(T) /\ Len(u) = n /\ \A k \in 1 .. n : u[k] = s[k]
  <2> HIDE DEF u
  <2> QED
    BY <1>3, <1>4
<1> QED
  BY <1>5 DEF n

LEMMA Shortened ==
    ASSUME NEW T, NEW s \in Seq(T), NEW t \in Seq(T), Len(s) = Len(t) + 1,
           \A k \in 1 .. Len(t) : t[k] = s[k]
    PROVE  t = SubSeq(s, 1, Len(s) - 1)
<1>1. Len(t) = Len(s) - 1 /\ Len(s) >= 1
  BY LenProperties
<1> QED
  BY <1>1, LastCut, SeqEqual

LEMMA Lengthened ==
    ASSUME NEW T, NEW s \in Seq(T), NEW t \in Seq(T), Len(t) = Len(s) + 1,
           \A k \in 1 .. Len(s) : t[k] = s[k]
    PROVE  t = Append(s, t[Len(t)])
<1> DEFINE n == Len(s)
           x == t[Len(t)]
<1>1. n \in Nat /\ Len(t) = n + 1
  BY LenProperties
<1>2. x \in T
  <2>1. Len(t) \in 1 .. Len(t)
    BY <1>1
  <2> QED
    BY <2>1, ElementOfSeq
<1> HIDE DEF n, x
<1>3. /\ Append(s, x) \in Seq(T) /\ Len(Append(s, x)) = n + 1
      /\ Append(s, x)[n + 1] = x /\ \A k \in 1 .. n : Append(s, x)[k] = s[k]
  BY <1>2 DEF n
<1>4. \A k \in 1 .. n + 1 : k = n + 1 \/ k \in 1 .. n
  BY <1>1
<1>5. \A k \in 1 .. n + 1 : t[k] = Append(s, x)[k]
  BY <1>1, <1>3, <1>4 DEF n, x
<1>6. t = Append(s, x)
  BY <1>1, <1>3, <1>5, SeqEqual
<1> QED
  BY <1>6 DEF x

LEMMA TopReplaced ==
    ASSUME NEW T, NEW s \in Seq(T), NEW t \in Seq(T), Len(s) >= 1, Len(t) = Len(s),
           \A k \in 1 .. Len(s) - 1 : t[k] = s[k]
    PROVE  t = Append(SubSeq(s, 1, Len(s) - 1), t[Len(t)])
<1> DEFINE b == SubSeq(s, 1, Len(s) - 1)
<1>1. b \in Seq(T) /\ Len(b) = Len(s) - 1 /\ \A k \in 1 .. Len(s) - 1 : b[k] = s[k]
  BY LastCut
<1> HIDE DEF b
<1>2. Len(t) = Len(b) + 1 /\ \A k \in 1 .. Len(b) : t[k] = b[k]
  BY <1>1, LenProperties
<1>3. t = Append(b, t[Len(t)])
  BY <1>1, <1>2, Lengthened
<1> QED
  BY <1>3 DEF b

LEMMA PairAppended ==
    ASSUME NEW T, NEW b \in Seq(T), NEW x \in T, NEW y \in T
    PROVE  /\ b \o <<x, y>> \in Seq(T) /\ Len(b \o <<x, y>>) = Len(b) + 2
           /\ \A k \in 1 .. Len(b) : (b \o <<x, y>>)[k] = b[k]
           /\ (b \o <<x, y>>)[Len(b) + 1] = x /\ (b \o <<x, y>>)[Len(b) + 2] = y
OBVIOUS

LEMMA TopSplit ==
    ASSUME NEW T, NEW s \in Seq(T), NEW t \in Seq(T), Len(s) >= 1, Len(t) = Len(s) + 1,
           \A k \in 1 .. Len(s) - 1 : t[k] = s[k]
    PROVE  t = SubSeq(s, 1, Len(s) - 1) \o <<t[Len(s)], t[Len(t)]>>
<1> DEFINE b == SubSeq(s, 1, Len(s) - 1)
           x == t[Len(s)]
           y == t[Len(t)]
           u == b \o <<x, y>>
<1>1. b \in Seq(T) /\ Len(b) = Len(s) - 1 /\ \A k \in 1 .. Len(s) - 1 : b[k] = s[k]
  BY LastCut
<1>2. Len(s) \in Nat /\ Len(s) \in 1 .. Len(t) /\ Len(t) \in 1 .. Len(t)
  BY LenProperties
<1>3. x \in T /\ y \in T
  BY <1>2, ElementOfSeq
<1> HIDE DEF b, x, y
<1>4. /\ u \in Seq(T) /\ Len(u) = Len(b) + 2 /\ \A k \in 1 .. Len(b) : u[k] = b[k]
      /\ u[Len(b) + 1] = x /\ u[Len(b) + 2] = y
  BY <1>1, <1>3, PairAppended
<1> HIDE DEF u
<1>5. /\ Len(u) = Len(t) /\ u[Len(s)] = x /\ u[Len(t)] = y
      /\ \A k \in 1 .. Len(s) - 1 : u[k] = t[k]
  BY <1>1, <1>2, <1>4
<1>6. \A k \in 1 .. Len(t) : k \in 1 .. Len(s) - 1 \/ k = Len(s) \/ k = Len(t)
  BY <1>2
<1>7. \A k \in 1 .. Len(t) : u[k] = t[k]
  BY <1>5, <1>6 DEF x, y
<1>8. t = u
  BY <1>4, <1>5, <1>7, SeqEqual
<1> QED
  BY <1>8 DEF u, b, x, y

-----------------------------------------------------------------------------
(* The activations of a context that runs or is suspended.                  *)

Alive == status \in {"RUN", "SUSPEND"}

Activation == [program : Program \cup {None}, returns : Seq(Nat), depth : Int, resume : Nat]

LEMMA ReturnsShape ==
    ASSUME Inv, NEW low \in Nat, NEW high \in Nat, low <= high, high <= LwMax
    PROVE  /\ Returns(low, high) \in Seq(Nat) /\ Len(Returns(low, high)) = high - low
           /\ \A i \in 1 .. high - low : Returns(low, high)[i] = lwcall_stack[low + i - 1].ret
<1> DEFINE n == high - low
           R == Returns(low, high)
<1>1. n \in Nat /\ LwMax \in Nat
  BY Ranges
<1>2. ASSUME NEW i \in 1 .. n PROVE lwcall_stack[low + i - 1].ret \in Nat
  <2>1. low + i - 1 \in 0 .. LwMax - 1
    BY <1>1
  <2>2. lwcall_stack[low + i - 1] \in [owner : Program \cup {None}, ret : Nat]
    BY <2>1 DEF Inv, TypeOK
  <2> QED
    BY <2>2
<1>3. R = [i \in 1 .. n |-> lwcall_stack[low + i - 1].ret]
  BY DEF Returns
<1>4. \A i \in 1 .. n : R[i] = lwcall_stack[low + i - 1].ret
  BY <1>3
<1>5. R \in [1 .. n -> Nat]
  BY <1>2, <1>3
<1> HIDE DEF R, n
<1>6. R \in Seq(Nat)
  BY <1>1, <1>5, SeqDef
<1>7. DOMAIN R = 1 .. n /\ DOMAIN R = 1 .. Len(R) /\ Len(R) \in Nat
  BY <1>5, <1>6, LenProperties
<1>8. Len(R) = n
  BY <1>1, <1>7
<1> QED
  BY <1>4, <1>6, <1>8 DEF R, n

\* The range of the frames of a suspended caller.
LEMMA CallerRange ==
    ASSUME NestInv, NEW k \in 0 .. Calls - 1
    PROVE  /\ k \in 0 .. VMStackSize - 1 /\ entry[k] \in Entry
           /\ entry[k].lwFloor \in Nat /\ entry[k].lwPos \in Nat
           /\ entry[k].lwFloor <= entry[k].lwPos
           /\ entry[k].lwPos <= lwcall_floor /\ entry[k].lwPos <= LwMax
<1>1. k \in 0 .. VMStackSize - 1
  BY CallIndices DEF NestInv
<1>2. entry[k] \in Entry
  BY <1>1 DEF NestInv, Inv, TypeOK
<1>3. entry[k].lwFloor \in Nat /\ entry[k].lwPos \in Nat
  BY <1>2 DEF Entry
<1>4. entry[k].lwFloor <= entry[k].lwPos /\ entry[k].lwPos <= lwcall_floor
  BY DEF NestInv, Inv, FrameInv, OwnInv, FramesOrdered
<1>5. lwcall_floor \in 0 .. LwMax /\ LwMax \in Nat
  BY Ranges DEF NestInv
<1> QED
  BY <1>1, <1>2, <1>3, <1>4, <1>5

ActsShape ==
    Alive =>
        /\ Calls \in Nat /\ Activations \in Seq(Activation) /\ Len(Activations) = Calls + 1
        /\ Activations[Calls + 1] = CurrentActivation
        /\ \A k \in 1 .. Calls : Activations[k] = CallerActivation(k - 1)

LEMMA ActivationsShaped == NestInv => ActsShape
<1> SUFFICES ASSUME NestInv, Alive
             PROVE  /\ Calls \in Nat /\ Activations \in Seq(Activation)
                    /\ Len(Activations) = Calls + 1
                    /\ Activations[Calls + 1] = CurrentActivation
                    /\ \A k \in 1 .. Calls : Activations[k] = CallerActivation(k - 1)
  BY DEF ActsShape
<1> DEFINE n == Calls
           A == Activations
<1>1. n \in Nat
  BY Ranges DEF NestInv, Inv, TypeOK, FrameInv, Calls
<1>2. A = [k \in 1 .. n + 1 |-> IF k <= n THEN CallerActivation(k - 1) ELSE CurrentActivation]
  BY DEF Activations, Alive, Phase
<1>3. CurrentActivation \in Activation
  <2>1. /\ rLWCSI \in Nat /\ lwcall_floor \in Nat /\ rLWCSI <= LwMax /\ lwcall_floor <= rLWCSI
        /\ rMCSI \in Int /\ mctx_floor \in Int
    BY Ranges DEF NestInv
  <2>2. Returns(lwcall_floor, rLWCSI) \in Seq(Nat)
    BY <2>1, ReturnsShape DEF NestInv
  <2>3. program \in Program \cup {None}
    BY DEF NestInv, Inv, TypeOK
  <2> QED
    BY <2>1, <2>2, <2>3 DEF CurrentActivation, Activation
<1>4. ASSUME NEW k \in 1 .. n PROVE CallerActivation(k - 1) \in Activation
  <2> DEFINE e == entry[k - 1]
  <2>1. k - 1 \in 0 .. Calls - 1
    BY <1>1
  <2>2. /\ e \in Entry /\ e.lwFloor \in Nat /\ e.lwPos \in Nat /\ e.lwFloor <= e.lwPos
        /\ e.lwPos <= LwMax
    BY <2>1, CallerRange
  <2>3. Returns(e.lwFloor, e.lwPos) \in Seq(Nat)
    BY <2>2, ReturnsShape DEF NestInv
  <2>4. e.src \in Program \cup {None} /\ e.mcPos - e.mcFloor \in Int /\ e.ret \in Nat
    BY <2>2 DEF Entry
  <2> QED
    BY <2>3, <2>4 DEF CallerActivation, Activation
<1>5. n + 1 \in 1 .. n + 1 /\ ~(n + 1 <= n) /\ \A k \in 1 .. n : k \in 1 .. n + 1 /\ k <= n
  BY <1>1
<1>6. A[n + 1] = CurrentActivation /\ \A k \in 1 .. n : A[k] = CallerActivation(k - 1)
  BY <1>2, <1>5
<1>7. A \in [1 .. n + 1 -> Activation]
  <2>1. \A k \in 1 .. n + 1 : k <= n => k \in 1 .. n
    BY <1>1
  <2> QED
    BY <1>2, <1>3, <1>4, <2>1
<1> HIDE DEF A, n
<1>8. A \in Seq(Activation)
  <2>1. n + 1 \in Nat
    BY <1>1
  <2> QED
    BY <1>7, <2>1, SeqDef
<1>9. Len(A) = n + 1
  <2>1. DOMAIN A = 1 .. n + 1 /\ DOMAIN A = 1 .. Len(A) /\ Len(A) \in Nat
    BY <1>7, <1>8, LenProperties
  <2> QED
    BY <1>1, <2>1
<1> QED
  BY <1>1, <1>6, <1>8, <1>9 DEF A, n

\* The same before and after a step.
LEMMA ShapesAround ==
    ASSUME NestInv, NestInv', Alive, Alive'
    PROVE  /\ Calls \in Nat /\ Activations \in Seq(Activation) /\ Len(Activations) = Calls + 1
           /\ Activations[Calls + 1] = CurrentActivation /\ Nested!Current = CurrentActivation
           /\ \A k \in 1 .. Calls : Activations[k] = CallerActivation(k - 1)
           /\ Calls' \in Nat /\ Activations' \in Seq(Activation)
           /\ Len(Activations') = Calls' + 1
           /\ Activations'[Calls' + 1] = CurrentActivation'
           /\ \A k \in 1 .. Calls' : Activations'[k] = CallerActivation(k - 1)'
<1>1. ActsShape
  BY ActivationsShaped
<1>2. NestInv' => ActsShape'
  BY ActivationsShaped, PTL
<1> QED
  BY <1>1, <1>2 DEF ActsShape, Nested!Current

-----------------------------------------------------------------------------
(* Steps of one activation.                                                 *)

\* An error, a crash or exit ends all activations.
LEMMA Stops == ASSUME Running, ~Alive' PROVE Nested!Next
<1>1. Phase = "running" /\ Phase' = "idle"
  BY DEF Phase, Alive, Running
<1>2. Activations' = <<>>
  BY <1>1 DEF Activations
<1> QED
  BY <1>1, <1>2 DEF Nested!Next, Nested!Stop

LEMMA CallerKept ==
    ASSUME NestInv, NEW k \in 0 .. Calls - 1, entry'[k] = entry[k],
           \A i \in 0 .. lwcall_floor - 1 : lwcall_stack'[i] = lwcall_stack[i]
    PROVE  CallerActivation(k)' = CallerActivation(k)
<1> DEFINE low == entry[k].lwFloor
           high == entry[k].lwPos
<1>1. low \in Nat /\ high \in Nat /\ high <= lwcall_floor /\ lwcall_floor \in Nat
  BY CallerRange, Ranges DEF NestInv
<1> HIDE DEF low, high
<1>2. \A i \in 1 .. high - low : low + i - 1 \in 0 .. lwcall_floor - 1
  BY <1>1
<1>3. [i \in 1 .. high - low |-> lwcall_stack'[low + i - 1].ret]
        = [i \in 1 .. high - low |-> lwcall_stack[low + i - 1].ret]
  BY <1>2
<1> QED
  BY <1>3 DEF CallerActivation, Returns, low, high

\* The activations below the topmost one stay.
LEMMA TopChanges ==
    ASSUME NestInv, NestInv', Alive, Alive', Calls' = Calls,
           \A k \in 0 .. Calls - 1 : entry'[k] = entry[k],
           \A i \in 0 .. lwcall_floor - 1 : lwcall_stack'[i] = lwcall_stack[i]
    PROVE  Nested!Replace(CurrentActivation')
<1> DEFINE s == Activations
           t == Activations'
<1>1. /\ Calls \in Nat /\ s \in Seq(Activation) /\ Len(s) = Calls + 1
      /\ t \in Seq(Activation) /\ Len(t) = Calls + 1 /\ t[Calls + 1] = CurrentActivation'
      /\ \A k \in 1 .. Calls : s[k] = CallerActivation(k - 1)
      /\ \A k \in 1 .. Calls : t[k] = CallerActivation(k - 1)'
  BY ShapesAround
<1>2. ASSUME NEW k \in 1 .. Calls PROVE t[k] = s[k]
  <2>1. k - 1 \in 0 .. Calls - 1
    BY <1>1
  <2>2. CallerActivation(k - 1)' = CallerActivation(k - 1)
    BY <2>1, CallerKept
  <2> QED
    BY <1>1, <2>2
<1> HIDE DEF s, t
<1>3. t = Append(SubSeq(s, 1, Len(s) - 1), t[Len(t)])
  <2>1. Len(s) >= 1 /\ Len(s) = Len(t) /\ Len(s) - 1 = Calls
    BY <1>1
  <2> QED
    BY <1>1, <1>2, <2>1, TopReplaced
<1> QED
  BY <1>1, <1>3 DEF s, t, Nested!Replace, Nested!Below

LEMMA SameActivations ==
    ASSUME NestInv, NestInv', Alive, Alive', Calls' = Calls,
           UNCHANGED <<program, rLWCSI, rMCSI, lwcall_floor, mctx_floor, lwcall_stack>>,
           \A k \in 0 .. Calls - 1 : entry'[k] = entry[k]
    PROVE  Activations' = Activations
<1> DEFINE s == Activations
           t == Activations'
<1>1. /\ Calls \in Nat /\ s \in Seq(Activation) /\ Len(s) = Calls + 1 /\ s[Calls + 1] = CurrentActivation
      /\ t \in Seq(Activation) /\ Len(t) = Calls + 1 /\ t[Calls + 1] = CurrentActivation'
      /\ \A k \in 1 .. Calls : s[k] = CallerActivation(k - 1)
      /\ \A k \in 1 .. Calls : t[k] = CallerActivation(k - 1)'
  BY ShapesAround
<1>2. ASSUME NEW k \in 1 .. Calls PROVE t[k] = s[k]
  <2>1. k - 1 \in 0 .. Calls - 1
    BY <1>1
  <2>2. CallerActivation(k - 1)' = CallerActivation(k - 1)
    BY <2>1, CallerKept
  <2> QED
    BY <1>1, <2>2
<1>3. CurrentActivation' = CurrentActivation
  BY DEF CurrentActivation, Returns
<1> HIDE DEF s, t
<1>4. \A k \in 1 .. Len(t) : k \in 1 .. Calls \/ k = Calls + 1
  BY <1>1
<1>5. \A k \in 1 .. Len(t) : t[k] = s[k]
  BY <1>1, <1>2, <1>3, <1>4
<1>6. t = s
  BY <1>1, <1>5, SeqEqual
<1> QED
  BY <1>6 DEF s, t

\* The mapped variables while the script runs.
MappedState ==
    /\ Running => Phase = "running"
    /\ status = "SUSPEND" => Phase = "suspended"
    /\ ~Alive => Phase = "idle" /\ Activations = <<>>

LEMMA Mapped == MappedState
BY DEF MappedState, Phase, Running, Alive, Activations

LEMMA MappedNext == MappedState'
BY Mapped, PTL

\* Control moves inside the program, and nothing else does.
LEMMA Moves ==
    ASSUME NestInv, NestInv', Running, Running', Calls' = Calls,
           UNCHANGED <<program, rLWCSI, rMCSI, lwcall_floor, mctx_floor, lwcall_stack>>,
           \A k \in 0 .. Calls - 1 : entry'[k] = entry[k]
    PROVE  Nested!Next
<1>1. Alive /\ Alive' /\ Phase = "running" /\ Phase' = "running"
  BY Mapped, MappedNext DEF MappedState, Alive, Running
<1>2. Activations' = Activations
  BY <1>1, SameActivations
<1>3. Nested!Current.program = program
  BY <1>1, ShapesAround DEF CurrentActivation
<1>4. instruction_index' \in 0 .. Length[program] - 1
  <2>1. instruction_index' \in Nat /\ instruction_index' < Length[program]
    BY DEF NestInv, Inv, TypeOK, OwnInv, InsideProgram
  <2>2. program \in Program
    BY DEF NestInv, Inv, TypeOK, Running
  <2> QED
    BY <2>1, <2>2, ConstantsAssumption
<1> QED
  BY <1>1, <1>2, <1>3, <1>4 DEF Nested!Next, Nested!Work, Nested!Goto, Nested!Index

\* Instructions that at most move control within the program.
LEMMA PlainNests ==
    ASSUME NestInv, NestInv',
           \/ Step \/ HostFunction \/ \E t \in -1 .. Length[program] : Running /\ Goto(t)
    PROVE  Nested!Next
<1>1. /\ Running /\ UNCHANGED <<program, rLWCSI, rMCSI, lwcall_floor, mctx_floor, lwcall_stack>>
      /\ Calls' = Calls /\ entry' = entry
  BY DEF Step, HostFunction, Goto, Raise, regs, floors, vmstack, Calls
<1>2. status' = "RUN" \/ status' = "ROGUE_BRANCH"
  BY DEF Step, HostFunction, Goto, Raise, Running
<1>3. CASE status' = "RUN"
  BY <1>1, <1>3, Moves DEF Running
<1>4. CASE status' = "ROGUE_BRANCH"
  BY <1>1, <1>4, Stops DEF Alive
<1> QED
  BY <1>2, <1>3, <1>4

LEMMA BreakNests == ASSUME NestInv, NestInv', Break PROVE Nested!Next
<1>1. /\ Running /\ UNCHANGED <<program, rLWCSI, rMCSI, lwcall_floor, mctx_floor, lwcall_stack>>
      /\ Calls' = Calls /\ entry' = entry /\ status' = "SUSPEND"
      /\ instruction_index' = instruction_index + 1
  BY DEF Break, regs, floors, vmstack, Calls
<1>2. Alive /\ Alive' /\ Phase = "running" /\ Phase' = "suspended"
  BY <1>1, Mapped, MappedNext DEF MappedState, Alive, Running
<1>3. Activations' = Activations
  BY <1>1, <1>2, SameActivations
<1> QED
  BY <1>1, <1>2, <1>3 DEF Nested!Next, Nested!Suspend

-----------------------------------------------------------------------------
(* The return indices of the topmost activation.                            *)

TopReturns == Returns(lwcall_floor, rLWCSI)

TopReturnsShape ==
    /\ TopReturns \in Seq(Nat) /\ Len(TopReturns) = rLWCSI - lwcall_floor
    /\ \A i \in 1 .. rLWCSI - lwcall_floor : TopReturns[i] = lwcall_stack[lwcall_floor + i - 1].ret

LEMMA TopReturnsShaped == NestInv => TopReturnsShape
<1> SUFFICES ASSUME NestInv PROVE TopReturnsShape
  OBVIOUS
<1>1. /\ rLWCSI \in Nat /\ lwcall_floor \in Nat /\ rLWCSI <= LwMax /\ lwcall_floor <= rLWCSI
  BY Ranges DEF NestInv
<1> QED
  BY <1>1, ReturnsShape DEF NestInv, TopReturnsShape, TopReturns

LEMMA TopReturnsNext == NestInv' => TopReturnsShape'
BY TopReturnsShaped, PTL

LEMMA MctxNests ==
    ASSUME NestInv, NestInv', MctxPush \/ MctxPop \/ \E n \in -1 .. McSize + 1 : MctxJump(n)
    PROVE  Nested!Next
<1>1. /\ Running /\ UNCHANGED <<program, rLWCSI, lwcall_floor, mctx_floor, lwcall_stack>>
      /\ Calls' = Calls /\ entry' = entry
  BY DEF MctxPush, MctxPop, MctxJump, Raise, floors, vmstack, Calls
<1>2. \/ status' = "RUN" /\ instruction_index' = instruction_index + 1
      \/ status' = "STACK_OVERFLOW" \/ status' = "STACK_UNDERFLOW"
  BY DEF MctxPush, MctxPop, MctxJump, Raise, Advance, Running
<1>3. CASE status' = "RUN" /\ instruction_index' = instruction_index + 1
  <2>1. Alive /\ Alive' /\ Phase = "running" /\ Phase' = "running"
    BY <1>1, <1>3, Mapped, MappedNext DEF MappedState, Alive, Running
  <2>2. Nested!Replace(CurrentActivation')
    BY <1>1, <2>1, TopChanges
  <2> DEFINE d == rMCSI' - mctx_floor
  <2>3. d \in 0 .. 2 * McSize - 1
    <3>1. rMCSI' \in 0 .. 2 * McSize - 1 /\ mctx_floor' <= rMCSI'
      BY DEF NestInv, Inv, TypeOK, FrameInv
    <3>2. mctx_floor \in 0 .. 2 * McSize - 1 /\ McSize \in Nat
      BY Ranges DEF NestInv
    <3>3. mctx_floor' = mctx_floor
      BY <1>1
    <3>4. ASSUME NEW r \in 0 .. 2 * McSize - 1, mctx_floor <= r
          PROVE  r - mctx_floor \in 0 .. 2 * McSize - 1
      BY <3>2, <3>4
    <3> QED
      BY <3>1, <3>3, <3>4
  <2>4. CurrentActivation' = [Nested!Current EXCEPT !.depth = d]
    <3>1. Nested!Current = CurrentActivation
      BY <2>1, ShapesAround
    <3>2. TopReturns' = TopReturns
      BY <1>1 DEF TopReturns, Returns
    <3>3. CurrentActivation' = [program |-> program, returns |-> TopReturns, depth |-> d, resume |-> 0]
      BY <1>1, <3>2 DEF CurrentActivation, TopReturns
    <3>4. CurrentActivation = [program |-> program, returns |-> TopReturns,
                               depth |-> rMCSI - mctx_floor, resume |-> 0]
      BY DEF CurrentActivation, TopReturns
    <3> HIDE DEF d
    <3> QED
      BY <3>1, <3>3, <3>4
  <2> HIDE DEF d
  <2> QED
    BY <1>3, <2>1, <2>2, <2>3, <2>4 DEF Nested!Next, Nested!Work, Nested!MoveWindow
<1>4. CASE status' = "STACK_OVERFLOW" \/ status' = "STACK_UNDERFLOW"
  BY <1>1, <1>4, Stops DEF Alive
<1> QED
  BY <1>2, <1>3, <1>4

LEMMA LwCallNests ==
    ASSUME NestInv, NestInv', NEW t \in -1 .. Length[program], LwCall(t)
    PROVE  Nested!Next
<1>1. /\ Running /\ UNCHANGED <<rMCSI, lwcall_floor, mctx_floor>>
      /\ Calls' = Calls /\ entry' = entry
  BY DEF LwCall, floors, vmstack, Calls
<1>2. CASE status' \in Errors
  BY <1>1, <1>2, Stops DEF Alive, Errors
<1>3. CASE status' \notin Errors
  <2>1. /\ lwcall_stack' = [lwcall_stack EXCEPT ![rLWCSI] =
                              [owner |-> program, ret |-> instruction_index + 1]]
        /\ rLWCSI' = rLWCSI + 1 /\ rLWCSI < LwMax
        /\ instruction_index' = t /\ t \in 0 .. Length[program] - 1
        /\ status' = status /\ program' = program
    <3>1. rLWCSI \in Nat /\ LwMax \in Nat
      BY Ranges DEF NestInv
    <3> QED
      BY <1>3, <3>1 DEF LwCall, LwFull, ReturnIndex, Raise, Errors
  <2>2. Alive /\ Alive' /\ Running' /\ Phase = "running" /\ Phase' = "running"
    BY <1>1, <2>1, Mapped, MappedNext DEF MappedState, Alive, Running
  <2>3. /\ rLWCSI \in 0 .. LwMax - 1 /\ lwcall_floor \in Nat /\ lwcall_floor <= rLWCSI
        /\ DOMAIN lwcall_stack = 0 .. LwMax - 1
    <3>1. rLWCSI \in 0 .. LwMax /\ lwcall_floor \in 0 .. LwMax /\ lwcall_floor <= rLWCSI /\ LwMax \in Nat
      BY Ranges DEF NestInv
    <3>2. DOMAIN lwcall_stack = 0 .. LwMax - 1
      BY DEF NestInv, Inv, TypeOK
    <3> QED
      BY <2>1, <3>1, <3>2
  <2>4. /\ \A i \in 0 .. rLWCSI - 1 : lwcall_stack'[i] = lwcall_stack[i]
        /\ lwcall_stack'[rLWCSI].ret = instruction_index + 1
    BY <2>1, <2>3
  <2>5. Nested!Replace(CurrentActivation')
    <3>1. \A i \in 0 .. lwcall_floor - 1 : lwcall_stack'[i] = lwcall_stack[i]
      BY <2>3, <2>4
    <3> QED
      BY <1>1, <2>2, <3>1, TopChanges
  <2> DEFINE r == TopReturns
             u == TopReturns'
             n == rLWCSI - lwcall_floor
  <2>6. /\ r \in Seq(Nat) /\ Len(r) = n
        /\ \A i \in 1 .. n : r[i] = lwcall_stack[lwcall_floor + i - 1].ret
    BY TopReturnsShaped DEF TopReturnsShape
  <2>7. /\ u \in Seq(Nat) /\ Len(u) = n + 1
        /\ \A i \in 1 .. n + 1 : u[i] = lwcall_stack'[lwcall_floor + i - 1].ret
    <3>1. /\ u \in Seq(Nat) /\ Len(u) = rLWCSI' - lwcall_floor'
          /\ \A i \in 1 .. rLWCSI' - lwcall_floor' : u[i] = lwcall_stack'[lwcall_floor' + i - 1].ret
      BY TopReturnsNext DEF TopReturnsShape
    <3>2. rLWCSI' - lwcall_floor' = n + 1 /\ lwcall_floor' = lwcall_floor
      BY <1>1, <2>1, <2>3
    <3> QED
      BY <3>1, <3>2
  <2>8. u = Append(r, instruction_index + 1)
    <3>1. n \in Nat /\ n + 1 \in 1 .. n + 1 /\ lwcall_floor + (n + 1) - 1 = rLWCSI
      BY <2>3
    <3>2. u[n + 1] = instruction_index + 1
      BY <2>4, <2>7, <3>1
    <3>3. ASSUME NEW i \in 1 .. n PROVE u[i] = r[i]
      <4>1. lwcall_floor + i - 1 \in 0 .. rLWCSI - 1 /\ i \in 1 .. n + 1
        BY <2>3
      <4> QED
        BY <2>4, <2>6, <2>7, <4>1
    <3> HIDE DEF u, r, n
    <3> QED
      BY <2>6, <2>7, <3>2, <3>3, Lengthened
  <2>9. CurrentActivation' = [Nested!Current EXCEPT !.returns = Append(@, instruction_index + 1)]
    <3>1. Nested!Current = CurrentActivation
      BY <2>2, ShapesAround
    <3>2. CurrentActivation' = [program |-> program, returns |-> u,
                                depth |-> rMCSI - mctx_floor, resume |-> 0]
      BY <1>1, <2>1 DEF CurrentActivation, TopReturns
    <3>3. CurrentActivation = [program |-> program, returns |-> r,
                               depth |-> rMCSI - mctx_floor, resume |-> 0]
      BY DEF CurrentActivation, TopReturns
    <3> HIDE DEF u, r
    <3>4. CurrentActivation.returns = r
      BY <3>3
    <3>5. CurrentActivation' = [CurrentActivation EXCEPT !.returns = u]
      BY <3>2, <3>3
    <3> QED
      BY <2>8, <3>1, <3>4, <3>5
  <2>10. instruction_index' \in Nested!Index
    <3>1. Nested!Current.program = program
      BY <2>2, ShapesAround DEF CurrentActivation
    <3> QED
      BY <2>1, <3>1 DEF Nested!Index
  <2> QED
    BY <2>2, <2>5, <2>9, <2>10 DEF Nested!Next, Nested!Work, Nested!LightCall
<1> QED
  BY <1>2, <1>3

LEMMA LwReturnNests == ASSUME NestInv, NestInv', LwReturn PROVE Nested!Next
<1>1. /\ Running /\ UNCHANGED <<rMCSI, lwcall_floor, mctx_floor, lwcall_stack>>
      /\ Calls' = Calls /\ entry' = entry
  BY DEF LwReturn, floors, vmstack, Calls
<1>2. CASE SignedWord(rLWCSI, LwHalf) <= SignedWord(lwcall_floor, LwHalf)
  <2>1. status' = "STACK_UNDERFLOW"
    BY <1>2 DEF LwReturn, Raise
  <2> QED
    BY <1>1, <2>1, Stops DEF Alive
<1>3. CASE status' = "CRASH"
  BY <1>1, <1>3, Stops DEF Alive
<1>4. CASE ~(SignedWord(rLWCSI, LwHalf) <= SignedWord(lwcall_floor, LwHalf)) /\ status' # "CRASH"
  <2>1. /\ rLWCSI' = rLWCSI - 1 /\ program' = program /\ status' = status
        /\ instruction_index' = lwcall_stack[rLWCSI - 1].ret
    BY <1>4 DEF LwReturn, Dispatch
  <2>2. Alive /\ Alive' /\ Phase = "running" /\ Phase' = "running"
    BY <1>1, <2>1, Mapped, MappedNext DEF MappedState, Alive, Running
  <2>3. lwcall_floor <= rLWCSI - 1 /\ lwcall_floor \in Nat /\ rLWCSI \in Nat
    BY <1>4, Ranges, LwPopStaysAbove DEF NestInv
  <2>4. Nested!Replace(CurrentActivation')
    BY <1>1, <2>2, TopChanges
  <2> DEFINE r == TopReturns
             u == TopReturns'
             n == rLWCSI - 1 - lwcall_floor
  <2>5. n \in Nat /\ n + 1 = rLWCSI - lwcall_floor /\ lwcall_floor + (n + 1) - 1 = rLWCSI - 1
    BY <2>3
  <2>6. /\ r \in Seq(Nat) /\ Len(r) = n + 1
        /\ \A i \in 1 .. n + 1 : r[i] = lwcall_stack[lwcall_floor + i - 1].ret
    <3>1. /\ r \in Seq(Nat) /\ Len(r) = rLWCSI - lwcall_floor
          /\ \A i \in 1 .. rLWCSI - lwcall_floor : r[i] = lwcall_stack[lwcall_floor + i - 1].ret
      BY TopReturnsShaped DEF TopReturnsShape
    <3> QED
      BY <3>1, <2>5
  <2>7. /\ u \in Seq(Nat) /\ Len(u) = n
        /\ \A i \in 1 .. n : u[i] = lwcall_stack[lwcall_floor + i - 1].ret
    <3>1. /\ u \in Seq(Nat) /\ Len(u) = rLWCSI' - lwcall_floor'
          /\ \A i \in 1 .. rLWCSI' - lwcall_floor' : u[i] = lwcall_stack'[lwcall_floor' + i - 1].ret
      BY TopReturnsNext DEF TopReturnsShape
    <3>2. rLWCSI' - lwcall_floor' = n /\ lwcall_floor' = lwcall_floor /\ lwcall_stack' = lwcall_stack
      BY <1>1, <2>1
    <3> QED
      BY <3>1, <3>2
  <2>8. u = SubSeq(r, 1, Len(r) - 1) /\ r # <<>> /\ instruction_index' = r[Len(r)]
    <3>1. \A i \in 1 .. n : i \in 1 .. n + 1
      BY <2>5
    <3>2. \A i \in 1 .. n : u[i] = r[i]
      BY <2>6, <2>7, <3>1
    <3>3. n + 1 \in 1 .. n + 1 /\ n + 1 # 0
      BY <2>5
    <3>4. r[n + 1] = instruction_index'
      BY <2>1, <2>5, <2>6, <3>3
    <3> HIDE DEF u, r, n
    <3>5. u = SubSeq(r, 1, Len(r) - 1)
      BY <2>6, <2>7, <3>2, Shortened
    <3>6. r # <<>>
      BY <2>6, <3>3, EmptySeq
    <3> QED
      BY <2>6, <3>4, <3>5, <3>6
  <2>9. /\ CurrentActivation' = [Nested!Current EXCEPT !.returns = u]
        /\ Nested!Current.returns = r
    <3>1. Nested!Current = CurrentActivation
      BY <2>2, ShapesAround
    <3>2. CurrentActivation' = [program |-> program, returns |-> u,
                                depth |-> rMCSI - mctx_floor, resume |-> 0]
      BY <1>1, <2>1 DEF CurrentActivation, TopReturns
    <3>3. CurrentActivation = [program |-> program, returns |-> r,
                               depth |-> rMCSI - mctx_floor, resume |-> 0]
      BY DEF CurrentActivation, TopReturns
    <3> HIDE DEF u, r
    <3> QED
      BY <3>1, <3>2, <3>3
  <2> HIDE DEF u, r
  <2>10. Nested!Replace([Nested!Current EXCEPT !.returns = Nested!Below(@)])
    BY <2>4, <2>8, <2>9 DEF Nested!Below
  <2> QED
    BY <2>2, <2>8, <2>9, <2>10 DEF Nested!Next, Nested!Work, Nested!LightReturn
<1> QED
  BY <1>2, <1>3, <1>4

-----------------------------------------------------------------------------
(* Steps from one activation to another.                                    *)

LEMMA TvmPushNests ==
    ASSUME NestInv, NestInv', NEW h \in Handle \cup {None}, TvmPush(h)
    PROVE  Nested!Next
<1>1. /\ Running /\ UNCHANGED <<rLWCSI, rMCSI, lwcall_floor, mctx_floor, lwcall_stack>>
      /\ program' = program /\ (status' = "RUN" \/ ~Alive')
  BY DEF TvmPush, Raise, Advance, regs, floors, Running, Alive
<1>2. CASE ~Alive'
  BY <1>1, <1>2, Stops
<1>3. CASE status' = "RUN"
  <2>1. /\ stack_lock = 0 /\ stack_lock' = 1 /\ stack_position' = stack_position + 1
        /\ stack_position \in -1 .. VMStackSize - 1 /\ VMStackSize \in Nat
    BY <1>3, Ranges DEF TvmPush, Raise, NestInv, Inv
  <2>2. Calls' = Calls /\ Calls = stack_position + 1
    BY <2>1 DEF Calls
  <2>3. \E e : entry' = [entry EXCEPT ![stack_position + 1] = e]
    BY <1>3, <2>1 DEF TvmPush, Raise
  <2>4. ASSUME NEW k \in 0 .. Calls - 1 PROVE entry'[k] = entry[k]
    <3>1. k # stack_position + 1 /\ k \in 0 .. VMStackSize - 1
      BY <2>1, <2>2
    <3>2. entry \in [0 .. VMStackSize - 1 -> Entry]
      BY DEF NestInv, Inv, TypeOK
    <3> QED
      BY <2>3, <3>1, <3>2
  <2> QED
    BY <1>1, <1>3, <2>2, <2>4, Moves DEF Running
<1> QED
  BY <1>1, <1>2, <1>3

LEMMA TvmJumpNests == ASSUME NestInv, NestInv', TvmJump PROVE Nested!Next
<1>1. /\ Running /\ UNCHANGED <<rLWCSI, rMCSI, lwcall_stack, stack_position>>
      /\ lwcall_floor' = rLWCSI /\ mctx_floor' = rMCSI
      /\ status' = "RUN" \/ ~Alive'
  BY DEF TvmJump, Raise, regs, vmstack, Running, Alive
<1>2. CASE ~Alive'
  BY <1>1, <1>2, Stops
<1>3. CASE status' = "RUN"
  <2> DEFINE top == stack_position
             e == [entry[top] EXCEPT !.ret = instruction_index + 1, !.lwPos = rLWCSI, !.mcPos = rMCSI]
             p == entry[top].dst
             f == entry[top].fn
  <2>1. /\ stack_lock = 1 /\ stack_lock' = 0 /\ entry' = [entry EXCEPT ![top] = e]
        /\ program' = p /\ instruction_index' = f
    BY <1>3 DEF TvmJump, Raise, ReturnIndex
  <2>2. /\ top \in 0 .. VMStackSize - 1 /\ entry[top] \in Entry
        /\ entry \in [0 .. VMStackSize - 1 -> Entry] /\ Calls = top /\ Calls' = top + 1
    <3>1. stack_position >= 0 /\ entry \in [0 .. VMStackSize - 1 -> Entry]
      BY <2>1 DEF NestInv, Inv, TypeOK, FrameInv
    <3> QED
      BY <1>1, <2>1, <3>1, Ranges DEF NestInv, Calls
  <2>3. Alive /\ Alive' /\ Phase = "running" /\ Phase' = "running"
    BY <1>1, <1>3, Mapped, MappedNext DEF MappedState, Alive, Running
  <2>4. /\ entry[top].src = program /\ entry[top].lwFloor = lwcall_floor
        /\ entry[top].mcFloor = mctx_floor /\ p \in Program /\ f \in EntryPoint[p]
    BY <1>1, <2>1 DEF NestInv, OwnInv, ReturnsOwned, PushedReady, Running
  <2>5. /\ e.src = program /\ e.lwFloor = lwcall_floor /\ e.mcFloor = mctx_floor
        /\ e.ret = instruction_index + 1 /\ e.lwPos = rLWCSI /\ e.mcPos = rMCSI
    BY <2>2, <2>4 DEF Entry
  <2> HIDE DEF e, p, f
  <2>6. entry'[top] = e /\ \A k \in 0 .. Calls - 1 : entry'[k] = entry[k]
    <3>1. \A k \in 0 .. Calls - 1 : k # top /\ k \in 0 .. VMStackSize - 1
      BY <2>2, ConstantsAssumption
    <3> QED
      BY <2>1, <2>2, <3>1
  <2> DEFINE s == Activations
             t == Activations'
  <2>7. /\ Calls \in Nat /\ s \in Seq(Activation) /\ Len(s) = Calls + 1
        /\ Nested!Current = CurrentActivation
        /\ t \in Seq(Activation) /\ Len(t) = Calls' + 1 /\ t[Calls' + 1] = CurrentActivation'
        /\ \A k \in 1 .. Calls : s[k] = CallerActivation(k - 1)
        /\ \A k \in 1 .. Calls' : t[k] = CallerActivation(k - 1)'
    BY <2>3, ShapesAround
  <2>8. ASSUME NEW k \in 1 .. Calls PROVE t[k] = s[k]
    <3>1. k - 1 \in 0 .. Calls - 1 /\ k \in 1 .. Calls'
      BY <2>2, <2>7
    <3>2. CallerActivation(k - 1)' = CallerActivation(k - 1)
      BY <1>1, <2>6, <3>1, CallerKept
    <3> QED
      BY <2>7, <3>1, <3>2
  <2>9. t[Calls + 1] = [Nested!Current EXCEPT !.resume = instruction_index + 1]
    <3>1. PICK k \in 1 .. Calls' : k - 1 = top /\ Calls + 1 = k
      <4>1. top \in Nat /\ Calls' = top + 1 /\ Calls = top
        BY <2>2, <2>7
      <4>2. top + 1 \in 1 .. top + 1 /\ top + 1 - 1 = top
        BY <4>1
      <4> HIDE DEF top
      <4>3. top + 1 \in 1 .. Calls'
        BY <4>1, <4>2
      <4> USE <4>3
      <4> WITNESS top + 1 \in 1 .. Calls'
      <4> QED
        BY <4>1, <4>2
    <3>2. t[k] = CallerActivation(k - 1)'
      BY <2>7
    <3>3. entry'[k - 1] = e
      BY <2>6, <3>1
    <3>4. Returns(entry[k - 1].lwFloor, entry[k - 1].lwPos)' = TopReturns
      BY <1>1, <2>5, <3>3 DEF Returns, TopReturns
    <3>5. CallerActivation(k - 1)' = [program |-> program, returns |-> TopReturns,
                                      depth |-> rMCSI - mctx_floor, resume |-> instruction_index + 1]
      BY <2>5, <3>3, <3>4 DEF CallerActivation
    <3>6. CurrentActivation = [program |-> program, returns |-> TopReturns,
                               depth |-> rMCSI - mctx_floor, resume |-> 0]
      BY DEF CurrentActivation, TopReturns
    <3> HIDE DEF t
    <3>7. Nested!Current = CurrentActivation
      BY <2>7
    <3>8. t[Calls + 1] = [program |-> program, returns |-> TopReturns,
                          depth |-> rMCSI - mctx_floor, resume |-> instruction_index + 1]
      BY <3>1, <3>2, <3>5
    <3> QED
      BY <3>6, <3>7, <3>8
  <2>10. t[Calls' + 1] = Nested!Fresh(p)
    <3>1. TopReturns' = <<>>
      <4>1. TopReturns' \in Seq(Nat) /\ Len(TopReturns') = rLWCSI' - lwcall_floor'
        BY TopReturnsNext DEF TopReturnsShape
      <4>2. rLWCSI' - lwcall_floor' = 0
        BY <1>1, Ranges DEF NestInv
      <4> QED
        BY <4>1, <4>2, EmptySeq
    <3>2. rMCSI' - mctx_floor' = 0
      BY <1>1, Ranges DEF NestInv
    <3> QED
      BY <2>1, <2>7, <3>1, <3>2 DEF CurrentActivation, TopReturns, Nested!Fresh
  <2>11. t = SubSeq(s, 1, Len(s) - 1) \o <<t[Len(s)], t[Len(t)]>>
    <3>1. Len(t) = Len(s) + 1 /\ Len(s) >= 1 /\ Len(s) - 1 = Calls
      BY <2>2, <2>7
    <3> HIDE DEF s, t
    <3> QED
      BY <2>7, <2>8, <3>1, TopSplit
  <2>12. Len(s) = Calls + 1 /\ Len(t) = Calls' + 1
    BY <2>7
  <2>13. Activations' = Nested!Below(Activations)
                          \o <<[Nested!Current EXCEPT !.resume = instruction_index + 1], Nested!Fresh(p)>>
    BY <2>9, <2>10, <2>11, <2>12 DEF Nested!Below
  <2> HIDE DEF s, t
  <2>14. Nested!Call(p, f)
    BY <2>1, <2>3, <2>13 DEF Nested!Call
  <2> QED
    BY <2>3, <2>4, <2>14 DEF Nested!Next, Nested!Work
<1> QED
  BY <1>1, <1>2, <1>3

LEMMA TvmReturnNests == ASSUME NestInv, NestInv', TvmReturn PROVE Nested!Next
<1>1. Running /\ UNCHANGED <<lwcall_stack, stack_lock, entry>>
  BY DEF TvmReturn
<1>2. CASE stack_lock # 0 \/ stack_position < 0
  <2>1. ~Alive'
    BY <1>2 DEF TvmReturn, Raise, Alive
  <2> QED
    BY <1>1, <2>1, Stops
<1>3. CASE status' = "CRASH"
  BY <1>1, <1>3, Stops DEF Alive
<1>4. CASE ~(stack_lock # 0 \/ stack_position < 0) /\ status' # "CRASH"
  <2> DEFINE pos == stack_position
             top == entry[pos]
  <2>1. /\ stack_lock = 0 /\ stack_position' = pos - 1 /\ lwcall_floor' = top.lwFloor
        /\ mctx_floor' = top.mcFloor /\ rLWCSI' = top.lwPos /\ rMCSI' = top.mcPos
        /\ program' = top.src /\ instruction_index' = top.ret /\ status' = status
    BY <1>4 DEF TvmReturn, RestoredLw, RestoredMc, Dispatch
  <2>2. pos \in Nat /\ Calls = pos + 1 /\ Calls' = pos /\ pos \in 0 .. Calls - 1
    BY <1>1, <1>4, <2>1, Ranges DEF NestInv, Calls
  <2>3. Alive /\ Alive' /\ Phase = "running" /\ Phase' = "running"
    BY <1>1, <2>1, Mapped, MappedNext DEF MappedState, Alive, Running
  <2> DEFINE s == Activations
             t == Activations'
  <2>4. /\ s \in Seq(Activation) /\ Len(s) = pos + 2
        /\ t \in Seq(Activation) /\ Len(t) = pos + 1 /\ t[pos + 1] = CurrentActivation'
        /\ \A k \in 1 .. Calls : s[k] = CallerActivation(k - 1)
        /\ \A k \in 1 .. Calls' : t[k] = CallerActivation(k - 1)'
    <3>1. /\ s \in Seq(Activation) /\ Len(s) = Calls + 1
          /\ t \in Seq(Activation) /\ Len(t) = Calls' + 1 /\ t[Calls' + 1] = CurrentActivation'
          /\ \A k \in 1 .. Calls : s[k] = CallerActivation(k - 1)
          /\ \A k \in 1 .. Calls' : t[k] = CallerActivation(k - 1)'
      BY <2>3, ShapesAround
    <3> QED
      BY <2>2, <3>1
  <2>5. ASSUME NEW k \in 1 .. pos PROVE t[k] = s[k]
    <3>1. k - 1 \in 0 .. Calls - 1 /\ k \in 1 .. Calls' /\ k \in 1 .. Calls
      BY <2>2
    <3>2. CallerActivation(k - 1)' = CallerActivation(k - 1)
      BY <1>1, <3>1, CallerKept
    <3> QED
      BY <2>4, <3>1, <3>2
  <2> DEFINE r == Returns(top.lwFloor, top.lwPos)
             d == top.mcPos - top.mcFloor
             caller == [program |-> top.src, returns |-> r, depth |-> d, resume |-> top.ret]
  <2>6. s[pos + 1] = caller
    <3>1. PICK k \in 1 .. Calls : k - 1 = pos /\ pos + 1 = k
      <4>1. (pos + 1) - 1 = pos /\ pos + 1 = pos + 1
        BY <2>2
      <4>2. pos + 1 \in 1 .. Calls
        BY <2>2
      <4> USE <4>2
      <4> WITNESS pos + 1 \in 1 .. Calls
      <4> QED
        BY <4>1
    <3>2. s[k] = CallerActivation(k - 1)
      BY <2>4
    <3>3. CallerActivation(k - 1) = caller
      BY <3>1 DEF CallerActivation
    <3> HIDE DEF s, pos, caller
    <3> QED
      BY <3>1, <3>2, <3>3
  <2>7. t[pos + 1] = [caller EXCEPT !.resume = 0]
    <3>1. Returns(lwcall_floor, rLWCSI)' = r
      BY <1>1, <2>1 DEF Returns
    <3>2. CurrentActivation' = [program |-> top.src, returns |-> r, depth |-> d, resume |-> 0]
      BY <2>1, <3>1 DEF CurrentActivation
    <3> HIDE DEF r, d
    <3> QED
      BY <2>4, <3>2
  <2> DEFINE b == Nested!Below(s)
  <2>8. /\ b \in Seq(Activation) /\ Len(b) = pos + 1 /\ \A k \in 1 .. pos + 1 : b[k] = s[k]
    <3>1. Len(s) - 1 = pos + 1 /\ Len(s) >= 1
      BY <2>2, <2>4
    <3>2. b = SubSeq(s, 1, Len(s) - 1)
      BY DEF Nested!Below
    <3> HIDE DEF s, b
    <3>3. /\ SubSeq(s, 1, Len(s) - 1) \in Seq(Activation)
          /\ Len(SubSeq(s, 1, Len(s) - 1)) = Len(s) - 1
          /\ \A k \in 1 .. Len(s) - 1 : SubSeq(s, 1, Len(s) - 1)[k] = s[k]
      BY <2>4, <3>1, LastCut
    <3> QED
      BY <3>1, <3>2, <3>3
  <2>9. pos + 1 \in 1 .. Len(b) /\ b[pos + 1] = caller /\ t[pos + 1] \in Activation
    <3>1. pos + 1 \in 1 .. pos + 1
      BY <2>2
    <3> HIDE DEF s, t, b, pos, caller
    <3> QED
      BY <2>4, <2>6, <2>8, <3>1, ElementOfSeq
  <2>10. \A k \in 1 .. pos + 1 : k = pos + 1 \/ k \in 1 .. pos
    BY <2>2
  <2>11. t = [b EXCEPT ![pos + 1] = [caller EXCEPT !.resume = 0]]
    <3> DEFINE x == [caller EXCEPT !.resume = 0]
    <3> HIDE DEF s, t, b, pos, caller, x
    <3>1. x \in Activation
      BY <2>7, <2>9 DEF x
    <3>2. /\ [b EXCEPT ![pos + 1] = x] \in Seq(Activation)
          /\ Len([b EXCEPT ![pos + 1] = x]) = Len(b)
          /\ \A k \in 1 .. Len(b) : [b EXCEPT ![pos + 1] = x][k] = IF k = pos + 1 THEN x ELSE b[k]
      BY <2>8, <2>9, <3>1, ExceptSeq
    <3>3. ASSUME NEW k \in 1 .. pos + 1 PROVE t[k] = [b EXCEPT ![pos + 1] = x][k]
      <4>1. CASE k = pos + 1
        BY <2>7, <2>8, <3>2, <4>1 DEF x
      <4>2. CASE k \in 1 .. pos /\ k # pos + 1
        BY <2>5, <2>8, <3>2, <4>2
      <4> QED
        BY <2>10, <4>1, <4>2
    <3>4. t = [b EXCEPT ![pos + 1] = x]
      BY <2>4, <2>8, <3>2, <3>3, SeqEqual
    <3> QED
      BY <3>4 DEF x
  <2>12. Nested!Return
    <3>1. Len(s) > 1 /\ Len(s) - 1 = pos + 1
      BY <2>2, <2>4
    <3>2. instruction_index' = s[pos + 1].resume
      BY <2>1, <2>6
    <3>3. t = [b EXCEPT ![pos + 1].resume = 0]
      <4> HIDE DEF s, t, b, pos, caller
      <4> QED
        BY <2>9, <2>11
    <3> HIDE DEF t, pos, caller, top
    <3> QED
      BY <2>3, <3>1, <3>2, <3>3 DEF Nested!Return, b, s, t
  <2> QED
    BY <2>3, <2>12 DEF Nested!Next, Nested!Work
<1> QED
  BY <1>2, <1>3, <1>4

-----------------------------------------------------------------------------
(* The host.                                                                *)

LEMMA HostCallNests ==
    ASSUME HostWindsUp, NestInv, NestInv', NEW p \in Program, NEW f \in EntryPoint[p], HostCall(p, f)
    PROVE  Nested!Next
<1>1. /\ ~Running /\ status' = "RUN" /\ program' = p /\ instruction_index' = f
      /\ stack_position' = -1 /\ stack_lock' = 0
      /\ rLWCSI' = 0 /\ lwcall_floor' = 0 /\ rMCSI' = 0 /\ mctx_floor' = 0
  BY DEF HostCall, WoundUp, floors, vmstack
<1>2. Phase # "running" /\ Phase' = "running"
  BY <1>1, MappedNext DEF MappedState, Phase, Running
<1>3. Calls' = 0
  BY <1>1 DEF Calls
<1>4. Activations' = <<Nested!Fresh(p)>>
  <2>1. TopReturns' \in Seq(Nat) /\ Len(TopReturns') = 0
    BY <1>1, TopReturnsNext DEF TopReturnsShape
  <2>2. TopReturns' = <<>>
    BY <2>1, EmptySeq
  <2>3. CurrentActivation' = Nested!Fresh(p)
    BY <1>1, <2>2 DEF CurrentActivation, TopReturns, Nested!Fresh
  <2>4. NestInv' => ActsShape'
    BY ActivationsShaped, PTL
  <2>5. Activations' \in Seq(Activation) /\ Len(Activations') = 1 /\ Activations'[1] = CurrentActivation'
    BY <1>1, <1>3, <2>4 DEF ActsShape, Alive
  <2> DEFINE t == Activations'
             x == CurrentActivation'
  <2> HIDE DEF t, x
  <2>6. t = <<x>>
    <3>1. t \in Seq(Activation) /\ Len(t) = 1 /\ t[1] = x
      BY <2>5 DEF t, x
    <3> QED
      BY <3>1
  <2> QED
    BY <2>3, <2>6 DEF t, x
<1> QED
  BY <1>1, <1>2, <1>4 DEF Nested!Next, Nested!Enter

LEMMA HostResumeNests == ASSUME NestInv, NestInv', HostResume PROVE Nested!Next
<1>1. /\ status = "SUSPEND" /\ status' = "RUN" /\ instruction_index < Length[program]
      /\ UNCHANGED <<program, instruction_index, rLWCSI, rMCSI, lwcall_floor, mctx_floor, lwcall_stack>>
      /\ Calls' = Calls /\ entry' = entry
  BY DEF HostResume, Resumable, floors, vmstack, Calls
<1>2. Alive /\ Alive' /\ Phase = "suspended" /\ Phase' = "running"
  BY <1>1, Mapped, MappedNext DEF MappedState, Alive, Running
<1>3. Activations' = Activations
  BY <1>1, <1>2, SameActivations
<1>4. Nested!Current.program = program
  BY <1>2, ShapesAround DEF CurrentActivation
<1>5. instruction_index \in 0 .. Length[program] - 1
  <2>1. instruction_index \in Nat /\ program \in Program
    BY <1>1 DEF NestInv, Inv, TypeOK
  <2> QED
    BY <1>1, <2>1, ConstantsAssumption
<1> QED
  BY <1>1, <1>2, <1>3, <1>4, <1>5 DEF Nested!Next, Nested!Resume, Nested!Index

-----------------------------------------------------------------------------

\* Only tvmpush makes an entry ready; nothing else touches it before tvmjump.
LEMMA NextReady == ASSUME HostWindsUp, NestInv, Inv', [Next]_vars PROVE PushedReady'
<1>1. ASSUME UNCHANGED <<mctx_floor, stack_lock, stack_position, entry>>,
             status' \in {"RUN", "SUSPEND"} => status \in {"RUN", "SUSPEND"}
      PROVE  PushedReady'
  BY <1>1 DEF NestInv, PushedReady
<1>2. CASE UNCHANGED vars
  BY <1>1, <1>2 DEF vars, floors, vmstack
<1>3. CASE Step \/ LwReturn \/ HostFunction \/ Exit \/ Break \/ HostResume \/ MctxPush \/ MctxPop
  BY <1>1, <1>3 DEF Step, LwReturn, Dispatch, HostFunction, Exit, Break, HostResume, MctxPush, MctxPop,
                    Running, Raise, floors, vmstack
<1>4. CASE \/ Running /\ \E t \in -1 .. Length[program] : Goto(t) \/ LwCall(t)
           \/ \E n \in -1 .. McSize + 1 : MctxJump(n)
  BY <1>1, <1>4 DEF Goto, LwCall, MctxJump, Running, Raise, floors, vmstack
<1>5. ASSUME NEW h \in Handle \cup {None}, TvmPush(h) PROVE PushedReady'
  <2>1. CASE status' \notin {"RUN", "SUSPEND"}
    BY <2>1 DEF PushedReady
  <2>2. CASE status' \in {"RUN", "SUSPEND"}
    <3> DEFINE top == stack_position + 1
               source == [entry[top] EXCEPT !.src = program,
                                            !.lwFloor = lwcall_floor,
                                            !.mcFloor = mctx_floor]
               target == [source EXCEPT !.dst = h.dst, !.fn = h.fn]
    <3>1. /\ h \in Handle /\ entry' = [entry EXCEPT ![top] = target]
          /\ stack_position' = top /\ mctx_floor' = mctx_floor /\ ~(top >= VMStackSize)
      BY <1>5, <2>2 DEF TvmPush, Raise, floors
    <3>2. top \in 0 .. VMStackSize - 1 /\ entry \in [0 .. VMStackSize - 1 -> Entry]
      BY <3>1, Ranges DEF NestInv, Inv, TypeOK
    <3>3. target.mcFloor = mctx_floor /\ target.dst = h.dst /\ target.fn = h.fn
      BY <3>2 DEF Entry
    <3> HIDE DEF target, top
    <3>4. entry'[top] = target
      BY <3>1, <3>2
    <3>5. h.dst \in Program /\ h.fn \in EntryPoint[h.dst]
      BY <3>1 DEF Handle
    <3> QED
      BY <3>1, <3>3, <3>4, <3>5 DEF PushedReady
  <2> QED
    BY <2>1, <2>2
<1>6. CASE TvmJump
  <2>1. stack_lock' = 0 \/ status' = "INVALID_TVMJUMP_STATE"
    BY <1>6 DEF TvmJump, Raise
  <2> QED
    BY <2>1 DEF PushedReady
<1>7. CASE TvmReturn
  <2>1. stack_lock' = 0 \/ status' \notin {"RUN", "SUSPEND"}
    BY <1>7 DEF TvmReturn, Raise
  <2> QED
    BY <2>1 DEF PushedReady
<1>8. ASSUME NEW h \in Handle, HostCall(h.dst, h.fn) PROVE PushedReady'
  BY <1>8 DEF HostCall, WoundUp, PushedReady, vmstack
<1> QED
  BY <1>2, <1>3, <1>4, <1>5, <1>6, <1>7, <1>8 DEF Next, Script, Host

LEMMA NextNests ==
    ASSUME HostWindsUp, NestInv, NestInv', [Next]_vars
    PROVE  [Nested!Next]_(Nested!vars)
<1>1. CASE UNCHANGED vars
  <2>1. UNCHANGED <<Phase, Activations, instruction_index>>
    BY <1>1 DEF vars, regs, floors, vmstack, Phase, Activations, CurrentActivation,
                CallerActivation, Returns, Calls
  <2> QED
    BY <2>1 DEF Nested!vars
<1>2. CASE Script
  <2>1. Exit => Nested!Next
    BY Stops DEF Exit, Alive
  <2> QED
    BY <1>2, <2>1, PlainNests, BreakNests, MctxNests, LwCallNests, LwReturnNests, TvmPushNests,
       TvmJumpNests, TvmReturnNests DEF Script
<1>3. CASE Host
  <2>1. CASE \E h \in Handle : HostCall(h.dst, h.fn)
    <3>1. PICK h \in Handle : HostCall(h.dst, h.fn)
      BY <2>1
    <3>2. h.dst \in Program /\ h.fn \in EntryPoint[h.dst]
      BY DEF Handle
    <3> QED
      BY <3>1, <3>2, HostCallNests
  <2> QED
    BY <1>3, <2>1, HostResumeNests DEF Host
<1> QED
  BY <1>1, <1>2, <1>3 DEF Next

\* With a host that winds up, calls between programs are nested calls, for any
\* programs and stack sizes: each activation has its own return indices, place and
\* microcontexts, only the topmost one changes, and tvmreturn gives the caller
\* back exactly what it had.
THEOREM CallsNest == ASSUME HostWindsUp PROVE Spec => ImplementsNestedCalls
<1>1. Init => NestInv
  BY InitInv, InitOwned DEF NestInv, PushedReady, Init
<1>2. NestInv /\ [Next]_vars => NestInv'
  <2> SUFFICES ASSUME NestInv, [Next]_vars PROVE NestInv'
    OBVIOUS
  <2>1. Inv' /\ OwnInv'
    BY NextInv, NextOwned DEF NestInv
  <2> QED
    BY <2>1, NextReady DEF NestInv
<1>3. Init => Nested!Init
  BY DEF Init, Nested!Init, Phase, Activations
<1>4. NestInv /\ NestInv' /\ [Next]_vars => [Nested!Next]_(Nested!vars)
  BY NextNests
<1> QED
  BY <1>1, <1>2, <1>3, <1>4, PTL DEF Spec, ImplementsNestedCalls, Nested!Spec
=============================================================================
