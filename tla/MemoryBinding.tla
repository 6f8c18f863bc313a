---------------------------- MODULE MemoryBinding ----------------------------
(***************************************************************************)
(* The address registers of one context and the memory they are bound to:  *)
(* the bounds checks of load and store, of single words and of blocks of   *)
(* registers, and those of assign, push and pop; the instructions that     *)
(* move bindings between registers, and the host functions that bind       *)
(* objects from outside.  Addresses are numbers and 0 is the null pointer; *)
(* bounds are 32-bit numbers, registers and operands 64-bit ones.          *)
(***************************************************************************)
EXTENDS Integers, Sequences

CONSTANTS
    Register,   \* addr1 .. addr4
    Program,    \* programs the context may run
    Object,     \* blocks of memory: declared by programs, or owned by the host
    Host,       \* the objects of the host
    Declared,   \* Declared[p]: the objects p's memblocks are declared for
    External,   \* declared objects whose memory the host has not provided
    Address, Stride, Count, \* base address and layout of each object
    Word,       \* byte sizes of load and store
    Transfer,   \* byte sizes of block-load and block-store: up to 14 registers
    PushSize,   \* bytes pushed and popped (8)
    Operand,    \* offsets that scripts compute
    Mod         \* 2^32

Size(o) == Stride[o] * Count[o]

ASSUME MemoryAssumption ==
    /\ Host \subseteq Object /\ External \subseteq Object \ Host
    /\ Declared \in [Program -> Seq(Object \ Host)]
    /\ Address \in [Object -> Nat \ {0}]
    /\ Stride \in [Object -> Nat \ {0}] /\ Count \in [Object -> Nat \ {0}]
    /\ \A o, q \in Object : o # q => \/ Address[o] + Size(o) <= Address[q]
                                     \/ Address[q] + Size(q) <= Address[o]
    /\ Mod \in Nat \ {0} /\ Mod % 2 = 0
    /\ \A p \in Program : Len(Declared[p]) < Mod
    /\ \A o \in Object : Size(o) < Mod \div 2
    /\ Word \subseteq Nat \ {0} /\ Transfer \subseteq Nat \ {0} /\ PushSize \in Nat \ {0}
    /\ Operand \subseteq Int

VARIABLES
    status,     \* context.status
    program,    \* whose table context.memblocks is
    memblocks,  \* memblocks[p][n + 1]: memory_layout_ll entry n of program p
    active,     \* context.active_memblocks
    reg         \* rADDR1 .. rADDR4

vars == <<status, program, memblocks, active, reg>>

Dynamic == Mod - 1      \* 0xffffffff, the memblock_index of host bindings

Memblock == [base_address : Nat, element_bound : 0 .. Mod - 1,
             array_bound : 0 .. Mod - 1, memblock_index : 0 .. Mod - 1]

Unbound == [base_address |-> 0, element_bound |-> 0,
            array_bound |-> 0, memblock_index |-> 0]

\* Mutant: the word size is taken off here already.
ElementBoundLessWord(o) == Stride[o] - 7

ElementBound(o) == Stride[o]

\* The bounds tactyk_pl and tactyk_asmvm__bind compute for a layout: together
\* with the largest register offset they reach the last byte.
Layout(o, n) ==
    [base_address   |-> Address[o],
     element_bound  |-> ElementBound(o),
     array_bound    |-> Stride[o] * (Count[o] - 1) + 1,
     memblock_index |-> n]

LowWord(x) == x % Mod
Signed(x)  == IF LowWord(x) < Mod \div 2 THEN LowWord(x) ELSE LowWord(x) - Mod

Init ==
    /\ status = "RUN"
    /\ program \in Program
    /\ memblocks = [p \in Program |->
                      [n \in 1 .. Len(Declared[p]) |->
                         LET o == Declared[p][n] IN
                         IF o \in External
                         THEN [Layout(o, n - 1) EXCEPT !.base_address = 0]
                         ELSE Layout(o, n - 1)]]
    /\ active = [a \in Register |-> Unbound]
    /\ reg = [a \in Register |-> 0]

Raise(e) == status' = e /\ UNCHANGED <<active, reg>>

Running == status = "RUN" /\ UNCHANGED <<program, memblocks>>

-----------------------------------------------------------------------------
(* Binding.                                                                 *)

\* bind with a memblock index, from a register or an operand.
Bind(a, n) ==
    /\ Running
    /\ IF n \in 0 .. Len(memblocks[program]) - 1
       THEN /\ active' = [active EXCEPT ![a] = memblocks[program][n + 1]]
            /\ reg' = [reg EXCEPT ![a] = memblocks[program][n + 1].base_address]
            /\ UNCHANGED status
       ELSE Raise("ROGUE_POINTER")

\* bind and swap between address registers: the binding moves with the register.
BindCopy(a, b) ==
    /\ Running
    /\ active' = [active EXCEPT ![a] = active[b]]
    /\ reg' = [reg EXCEPT ![a] = reg[b]]
    /\ UNCHANGED status

Swap(a, b) ==
    /\ Running
    /\ active' = [active EXCEPT ![a] = active[b], ![b] = active[a]]
    /\ reg' = [reg EXCEPT ![a] = reg[b], ![b] = reg[a]]
    /\ UNCHANGED status

Unbind(a) ==
    /\ Running
    /\ active' = [active EXCEPT ![a] = Unbound]
    /\ reg' = [reg EXCEPT ![a] = 0]
    /\ UNCHANGED status

-----------------------------------------------------------------------------
(* Moving a register inside its binding.                                    *)

\* Mutant: the bound itself is let through.
InArrayOrAtBound(a, x) == Signed(x) <= Signed(active[a].array_bound) /\ Signed(x) >= 0

InArray(a, x) == Signed(x) < Signed(active[a].array_bound) /\ Signed(x) >= 0

\* assign addrN.offset: the low words are compared, the whole operand is added.
AssignOffset(a, x) ==
    /\ Running
    /\ IF InArray(a, x)
       THEN /\ reg' = [reg EXCEPT ![a] = active[a].base_address + x]
            /\ UNCHANGED <<status, active>>
       ELSE Raise("ROGUE_POINTER")

\* The quadword at array_bound, whose upper half is memblock_index.
StackBound(m) ==
    m.array_bound + Mod * (IF m.memblock_index < Mod \div 2 THEN m.memblock_index
                                                           ELSE m.memblock_index - Mod)

PushFits(a) == reg[a] - active[a].base_address + PushSize < StackBound(active[a])

Push(a) ==
    /\ Running
    /\ IF PushFits(a)
       THEN reg' = [reg EXCEPT ![a] = @ + PushSize] /\ UNCHANGED <<status, active>>
       ELSE Raise("MEMORY_OVERFLOW")

\* Mutant: the position before the pop is compared.
PopFitsBefore(a) == reg[a] >= active[a].base_address

PopFits(a) == reg[a] - PushSize >= active[a].base_address

Pop(a) ==
    /\ Running
    /\ IF PopFits(a)
       THEN reg' = [reg EXCEPT ![a] = @ - PushSize] /\ UNCHANGED <<status, active>>
       ELSE Raise("MEMORY_UNDERFLOW")

-----------------------------------------------------------------------------
(* Reading and writing.  Only the checks matter here.                       *)

\* Mutant: the size of the word is forgotten.
OffsetBoundOfBytes(a, w) == LowWord(active[a].element_bound)

\* element_bound less BYTEBOUND, computed in the low word of a register.
OffsetBound(a, w) == LowWord(active[a].element_bound - (w - 1))

InElement(a, w, x) == x < OffsetBound(a, w) /\ x >= 0

\* load with a register offset, and every store.
Access(a, w, x) ==
    /\ Running
    /\ CASE ~InElement(a, w, x)                -> Raise("ROGUE_POINTER")
         [] InElement(a, w, x) /\ reg[a] = 0   -> Raise("UNBOUND_MEMORY")
         [] OTHER                              -> UNCHANGED <<status, active, reg>>

\* load with an immediate offset does not look for a null register.
LoadImmediate(a, w, x) ==
    /\ Running
    /\ IF InElement(a, w, x) THEN UNCHANGED <<status, active, reg>>
                             ELSE Raise("ROGUE_POINTER")

\* Mutant: computed in the low word, as the bound of a single word is.
TransferBoundInLowWord(a, n) == LowWord(active[a].element_bound - (n - 1))

\* element_bound less ELEMENT_BOUND_MODIFIER, in the whole register: negative
\* when an element is shorter than the transfer.
TransferBound(a, n) == active[a].element_bound - (n - 1)

TransferFits(a, n, x) == x < TransferBound(a, n) /\ x >= 0

\* block-load and block-store of n bytes, registers and immediates alike.
BlockTransfer(a, n, x) ==
    /\ Running
    /\ CASE ~TransferFits(a, n, x)                -> Raise("ROGUE_POINTER")
         [] TransferFits(a, n, x) /\ reg[a] = 0   -> Raise("UNBOUND_MEMORY")
         [] OTHER                                 -> UNCHANGED <<status, active, reg>>

-----------------------------------------------------------------------------
(* The rest of the world.                                                   *)

\* tvmjump and tvmreturn replace memblocks and memblocks_count, and nothing else.
SwitchProgram(p) ==
    /\ status = "RUN"
    /\ program' = p
    /\ UNCHANGED <<status, memblocks, active, reg>>

\* The host calls again after an error.
Reenter ==
    /\ status # "RUN"
    /\ status' = "RUN"
    /\ program' \in Program
    /\ UNCHANGED <<memblocks, active, reg>>

\* tactyk_asmvm__bind, between calls or in a function that a ccall reached.
HostBind(a, o) ==
    /\ active' = [active EXCEPT ![a] = Layout(o, Dynamic)]
    /\ reg' = [reg EXCEPT ![a] = Address[o]]
    /\ UNCHANGED <<status, program, memblocks>>

\* Mutant: the register is compared instead of the binding.
RegistersAt(o) == {a \in Register : reg[a] = Address[o] /\ active[a].memblock_index = Dynamic}

BoundByHost(o) ==
    {a \in Register : active[a].base_address = Address[o] /\ active[a].memblock_index = Dynamic}

\* tactyk_asmvm__unbind.
HostUnbind(o) ==
    /\ active' = [a \in Register |-> IF a \in BoundByHost(o) THEN Unbound ELSE active[a]]
    /\ reg' = [a \in Register |-> IF a \in BoundByHost(o) THEN 0 ELSE reg[a]]
    /\ UNCHANGED <<status, program, memblocks>>

\* tactyk_asmvm__update_declared_memblock for a memblock of the program that
\* runs, with an active_index that names no register.
UpdateDeclared(n, o) ==
    /\ n \in 0 .. Len(memblocks[program]) - 1
    /\ memblocks' = [memblocks EXCEPT ![program][n + 1] = Layout(o, n)]
    /\ UNCHANGED <<status, program, active, reg>>

Script ==
    \E a \in Register :
        \/ \E n \in Operand : Bind(a, n)
        \/ \E b \in Register : BindCopy(a, b) \/ Swap(a, b)
        \/ Unbind(a)
        \/ \E x \in Operand : AssignOffset(a, x)
        \/ Push(a) \/ Pop(a)
        \/ \E w \in Word, x \in Operand : Access(a, w, x) \/ LoadImmediate(a, w, x)
        \/ \E n \in Transfer, x \in Operand : BlockTransfer(a, n, x)

Outside ==
    \/ \E p \in Program : SwitchProgram(p)
    \/ Reenter
    \/ \E o \in Host :
          \/ \E a \in Register : HostBind(a, o)
          \/ HostUnbind(o)
          \/ \E n \in Operand : UpdateDeclared(n, o)

Next == Script \/ Outside

Spec == Init /\ [][Next]_vars

-----------------------------------------------------------------------------
(* Properties.                                                              *)

TypeOK ==
    /\ status \in {"RUN", "ROGUE_POINTER", "UNBOUND_MEMORY",
                   "MEMORY_OVERFLOW", "MEMORY_UNDERFLOW"}
    /\ program \in Program
    /\ memblocks \in [Program -> Seq(Memblock)]
    /\ active \in [Register -> Memblock]
    /\ reg \in [Register -> Int]

Bound(a) == active[a].base_address # 0

\* The bytes of the object that a register is bound to.
Bytes(a) ==
    UNION {Address[o] .. Address[o] + Size(o) - 1 :
              o \in {q \in Object : Address[q] = active[a].base_address}}

Touched(first, size) == first .. first + size - 1

\* A bound register points at an offset the array bound allows, after any
\* sequence of assignments, pushes, pops, copies, swaps and host calls: "scripts
\* can freely select any byte offset between the start of an array and the offset
\* of the last object in the array" (doc/tactyk-host-interface.txt:140).  For
\* offsets that fit in 32 bits: assign compares the low half and adds the whole.
RegisterInArray ==
    \A a \in Register :
        Bound(a) => reg[a] - active[a].base_address \in 0 .. active[a].array_bound - 1

\* Whatever a bound register went through, an access that the checks of load and
\* store let pass touches only bytes of the object bound to it: the register
\* bound, the element bound and the word size add up.
AccessInBlock ==
    \A a \in Register, w \in Word, x \in Operand :
        Bound(a) /\ InElement(a, w, x) => Touched(reg[a] + x, w) \subseteq Bytes(a)

\* The same of a block of registers, whether its elements are longer or shorter
\* than what is transferred: no transfer reaches from one block into another.
TransferInBlock ==
    \A a \in Register, n \in Transfer, x \in Operand :
        Bound(a) /\ TransferFits(a, n, x) => Touched(reg[a] + x, n) \subseteq Bytes(a)

\* The quadword that push writes and pop reads belongs to the bound object:
\* "This also tests overflow and underflow detection" (tests/push-pop:4).
StackInBlock ==
    \A a \in Register :
        Bound(a) => /\ PushFits(a) => Touched(reg[a], PushSize) \subseteq Bytes(a)
                    /\ PopFits(a)  => Touched(reg[a] - PushSize, PushSize) \subseteq Bytes(a)

\* When the host unbinds an object, every register that got it from
\* tactyk_asmvm__bind loses it, however the script copied or swapped the
\* binding and wherever the register points by then.
UnbindReachesCopies ==
    [][\A o \in Host, a \in Register :
         HostUnbind(o) /\ reg'[a] \in Touched(Address[o], Size(o)) =>
            active'[a].base_address = Address[o] /\ active'[a].memblock_index # Dynamic]_vars
=============================================================================
