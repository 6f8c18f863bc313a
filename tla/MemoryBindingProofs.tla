------------------------ MODULE MemoryBindingProofs ------------------------
(***************************************************************************)
(* For any registers, programs, objects and words: bindings keep their     *)
(* shape, and where the three checks are meant to add up they do, so that  *)
(* no access of a bound register leaves the object it is bound to.         *)
(***************************************************************************)
EXTENDS MemoryBinding, SequenceTheorems, TLAPS

\* What the code's checks need and do not establish: one block per program, since
\* push reads the index of a block as the upper half of its bound; and offsets that
\* assign does not truncate.
ChecksApply ==
    /\ \A p \in Program : Len(Declared[p]) <= 1
    /\ \A x \in Operand : x < Mod /\ -x <= Mod \div 2

\* For load and store of single words also elements no shorter than a word, since
\* OffsetBound wraps for others.
WordsFit == \A w \in Word, o \in Object : w <= Stride[o]

-----------------------------------------------------------------------------
(* Arithmetic in the low word.                                              *)

LEMMA HalfWord == Mod \div 2 \in Nat /\ Mod = 2 * (Mod \div 2) /\ Mod >= 2
<1>1. Mod \in Nat \ {0} /\ Mod % 2 = 0
  BY MemoryAssumption
<1> QED
  BY <1>1, SMTT(30)

LEMMA LowWordSmall == ASSUME NEW x \in 0 .. Mod - 1 PROVE LowWord(x) = x
<1>1. Mod \in Nat \ {0}
  BY MemoryAssumption
<1> QED
  BY <1>1, SMTT(30) DEF LowWord

LEMMA LowWordNegative == ASSUME NEW x \in -Mod .. -1 PROVE LowWord(x) = x + Mod
<1>1. Mod \in Nat \ {0}
  BY MemoryAssumption
<1> QED
  BY <1>1, SMTT(30) DEF LowWord

\* A number that assign lets pass lies between 0 and the bound, both below the
\* sign bit.
LEMMA SignedOrder ==
    ASSUME NEW x \in Int, x < Mod, -x <= Mod \div 2,
           NEW b \in 0 .. (Mod \div 2) - 1, Signed(x) < Signed(b), Signed(x) >= 0
    PROVE  0 <= x /\ x < b
<1>1. Mod \div 2 \in Nat /\ Mod = 2 * (Mod \div 2) /\ Mod >= 2
  BY HalfWord
<1>2. Signed(b) = b
  <2>1. LowWord(b) = b
    BY <1>1, LowWordSmall
  <2> QED
    BY <2>1, <1>1 DEF Signed
<1>3. CASE x < 0
  <2>1. x \in -Mod .. -1
    BY <1>1, <1>3
  <2>2. LowWord(x) = x + Mod
    BY <2>1, LowWordNegative
  <2>3. Signed(x) = x
    BY <2>2, <1>1, <1>3 DEF Signed
  <2> QED
    BY <2>3, <1>3
<1>4. CASE x >= 0
  <2>1. x \in 0 .. Mod - 1
    BY <1>4, <1>1
  <2>2. LowWord(x) = x
    BY <2>1, LowWordSmall
  <2>3. Signed(x) = x
    BY <2>2, <1>1, <1>4 DEF Signed
  <2> QED
    BY <2>3, <1>2, <1>4
<1> QED
  BY <1>3, <1>4

-----------------------------------------------------------------------------
(* The layout of an object.                                                 *)

LEMMA ObjectTypes ==
    ASSUME NEW o \in Object
    PROVE  /\ Address[o] \in Nat \ {0} /\ Stride[o] \in Nat \ {0} /\ Count[o] \in Nat \ {0}
           /\ Stride[o] * Count[o] < Mod \div 2
BY MemoryAssumption DEF Size

\* The array bound is one more than the offset of the last element, and the last
\* element ends where the object ends.
LEMMA BoundsOfObject ==
    ASSUME NEW o \in Object
    PROVE  /\ Stride[o] * (Count[o] - 1) + 1 \in 1 .. (Mod \div 2) - 1
           /\ Stride[o] * (Count[o] - 1) + Stride[o] = Size(o)
           /\ Stride[o] \in 1 .. (Mod \div 2) - 1
<1> DEFINE s == Stride[o]
           c == Count[o]
           h == Mod \div 2
<1>1. s \in Nat \ {0} /\ c \in Nat \ {0} /\ s * c < h /\ h \in Nat
  BY ObjectTypes, HalfWord
<1>2. Size(o) = s * c
  BY DEF Size
<1> HIDE DEF s, c, h
<1>3. s * (c - 1) = s * c - s
  BY <1>1, SMT
<1>4. s * (c - 1) >= 0
  BY <1>1, SMT
<1>5. s * (c - 1) \in Int /\ s * c \in Int
  BY <1>1, SMT
<1>6. s * (c - 1) + 1 <= s * c /\ s <= s * c
  BY <1>1, <1>3, <1>4, <1>5
<1>7. s * (c - 1) + 1 \in 1 .. h - 1 /\ s * (c - 1) + s = s * c /\ s \in 1 .. h - 1
  BY <1>1, <1>3, <1>4, <1>5, <1>6
<1> QED
  BY <1>7, <1>2 DEF s, c, h

LEMMA LayoutType ==
    ASSUME NEW o \in Object, NEW n \in 0 .. Mod - 1
    PROVE  /\ Layout(o, n) \in Memblock
           /\ [Layout(o, n) EXCEPT !.base_address = 0] \in Memblock
<1>1. /\ Stride[o] * (Count[o] - 1) + 1 \in 0 .. Mod - 1
      /\ Stride[o] \in 0 .. Mod - 1
      /\ Address[o] \in Nat
  BY BoundsOfObject, ObjectTypes, HalfWord
<1> QED
  BY <1>1 DEF Layout, ElementBound, Memblock

LEMMA UnboundType == Unbound \in Memblock
BY HalfWord DEF Unbound, Memblock
-----------------------------------------------------------------------------
(* Shape.                                                                   *)

\* A table of memory blocks keeps the length that its program declares.
TablesDeclared == \A p \in Program : Len(memblocks[p]) = Len(Declared[p])

ShapeInv == TypeOK /\ TablesDeclared

LEMMA DeclaredTypes ==
    ASSUME NEW p \in Program
    PROVE  /\ Declared[p] \in Seq(Object \ Host)
           /\ Len(Declared[p]) \in Nat /\ Len(Declared[p]) < Mod
           /\ \A n \in 1 .. Len(Declared[p]) : Declared[p][n] \in Object
<1>1. Declared[p] \in Seq(Object \ Host) /\ Len(Declared[p]) < Mod
  BY MemoryAssumption
<1>2. \A n \in 1 .. Len(Declared[p]) : Declared[p][n] \in Object \ Host
  BY <1>1, ElementOfSeq
<1>3. Len(Declared[p]) \in Nat
  BY <1>1
<1> QED
  BY <1>1, <1>2, <1>3

\* The table that the loader builds for a program.
DeclaredTable(p) ==
    [n \in 1 .. Len(Declared[p]) |->
       LET o == Declared[p][n] IN
       IF o \in External THEN [Layout(o, n - 1) EXCEPT !.base_address = 0] ELSE Layout(o, n - 1)]

LEMMA DeclaredTableType ==
    ASSUME NEW p \in Program
    PROVE  DeclaredTable(p) \in Seq(Memblock) /\ Len(DeclaredTable(p)) = Len(Declared[p])
<1>1. Len(Declared[p]) \in Nat /\ Len(Declared[p]) < Mod
  BY DeclaredTypes
<1>2. ASSUME NEW n \in 1 .. Len(Declared[p])
      PROVE  DeclaredTable(p)[n] \in Memblock
  <2>1. Declared[p][n] \in Object /\ n - 1 \in 0 .. Mod - 1
    BY <1>1, DeclaredTypes, HalfWord
  <2>2. /\ Layout(Declared[p][n], n - 1) \in Memblock
        /\ [Layout(Declared[p][n], n - 1) EXCEPT !.base_address = 0] \in Memblock
    BY <2>1, LayoutType
  <2> QED
    BY <2>2 DEF DeclaredTable
<1>3. DeclaredTable(p) \in [1 .. Len(Declared[p]) -> Memblock]
  BY <1>2 DEF DeclaredTable
<1> QED
  BY <1>1, <1>3

LEMMA InitShape == Init => ShapeInv
<1> SUFFICES ASSUME Init PROVE ShapeInv
  OBVIOUS
<1>1. memblocks = [p \in Program |-> DeclaredTable(p)]
  BY DEF Init, DeclaredTable
<1>2. \A p \in Program : DeclaredTable(p) \in Seq(Memblock) /\ Len(DeclaredTable(p)) = Len(Declared[p])
  BY DeclaredTableType
<1>3. memblocks \in [Program -> Seq(Memblock)] /\ TablesDeclared
  BY <1>1, <1>2 DEF TablesDeclared
<1>4. active \in [Register -> Memblock] /\ reg \in [Register -> Int]
  BY UnboundType DEF Init
<1> QED
  BY <1>3, <1>4 DEF ShapeInv, TypeOK, Init

LEMMA TableEntryType ==
    ASSUME TypeOK, NEW n \in 0 .. Len(memblocks[program]) - 1
    PROVE  memblocks[program][n + 1] \in Memblock
<1>1. memblocks[program] \in Seq(Memblock)
  BY DEF TypeOK
<1>2. n + 1 \in 1 .. Len(memblocks[program])
  BY <1>1
<1> QED
  BY <1>1, <1>2, ElementOfSeq

LEMMA ScriptKeepsShape == ShapeInv /\ Script => ShapeInv'
<1> SUFFICES ASSUME ShapeInv, Script PROVE ShapeInv'
  OBVIOUS
<1> USE DEF ShapeInv
<1>0. Running
  BY DEF Script, Bind, BindCopy, Swap, Unbind, AssignOffset, Push, Pop, Access, LoadImmediate,
     BlockTransfer
<1>1. TablesDeclared'
  BY <1>0 DEF Running, TablesDeclared
<1>2. program' \in Program /\ memblocks' \in [Program -> Seq(Memblock)]
  BY <1>0 DEF Running, TypeOK
<1> DEFINE Rest == /\ status' \in {"RUN", "ROGUE_POINTER", "UNBOUND_MEMORY",
                                   "MEMORY_OVERFLOW", "MEMORY_UNDERFLOW"}
                  /\ active' \in [Register -> Memblock]
                  /\ reg' \in [Register -> Int]
<1>3. ASSUME NEW e \in {"ROGUE_POINTER", "UNBOUND_MEMORY", "MEMORY_OVERFLOW", "MEMORY_UNDERFLOW"}, Raise(e)
      PROVE  Rest
  BY <1>3 DEF Raise, TypeOK
<1> PICK a \in Register :
        \/ \E n \in Operand : Bind(a, n)
        \/ \E b \in Register : BindCopy(a, b) \/ Swap(a, b)
        \/ Unbind(a)
        \/ \E x \in Operand : AssignOffset(a, x)
        \/ Push(a) \/ Pop(a)
        \/ \E w \in Word, x \in Operand : Access(a, w, x) \/ LoadImmediate(a, w, x)
        \/ \E n \in Transfer, x \in Operand : BlockTransfer(a, n, x)
  BY DEF Script
<1>4. ASSUME NEW n \in Operand, Bind(a, n) PROVE Rest
  <2>1. CASE n \in 0 .. Len(memblocks[program]) - 1
    <3>1. memblocks[program][n + 1] \in Memblock
      BY <2>1, TableEntryType
    <3>2. memblocks[program][n + 1].base_address \in Int
      BY <3>1 DEF Memblock
    <3> QED
      BY <3>1, <3>2, <2>1, <1>4 DEF Bind, TypeOK
  <2>2. CASE n \notin 0 .. Len(memblocks[program]) - 1
    BY <2>2, <1>4, <1>3 DEF Bind
  <2> QED
    BY <2>1, <2>2
<1>5. ASSUME NEW b \in Register, BindCopy(a, b) \/ Swap(a, b) PROVE Rest
  BY <1>5 DEF BindCopy, Swap, TypeOK
<1>6. ASSUME Unbind(a) PROVE Rest
  BY <1>6, UnboundType DEF Unbind, TypeOK
<1>7. ASSUME NEW x \in Operand, AssignOffset(a, x) PROVE Rest
  <2>1. CASE InArray(a, x)
    <3>1. x \in Int /\ active[a].base_address \in Int
      BY MemoryAssumption DEF TypeOK, Memblock
    <3> QED
      BY <3>1, <2>1, <1>7 DEF AssignOffset, TypeOK
  <2>2. CASE ~InArray(a, x)
    BY <2>2, <1>7, <1>3 DEF AssignOffset
  <2> QED
    BY <2>1, <2>2
<1>8. ASSUME Push(a) \/ Pop(a) PROVE Rest
  <2>1. PushSize \in Int
    BY MemoryAssumption
  <2>2. CASE Raise("MEMORY_OVERFLOW") \/ Raise("MEMORY_UNDERFLOW")
    BY <2>2, <1>3
  <2>3. CASE /\ reg' \in {[reg EXCEPT ![a] = @ + PushSize], [reg EXCEPT ![a] = @ - PushSize]}
             /\ UNCHANGED <<status, active>>
    BY <2>1, <2>3 DEF TypeOK
  <2> QED
    BY <1>8, <2>2, <2>3 DEF Push, Pop
<1>9. ASSUME NEW w \in Word, NEW x \in Operand, Access(a, w, x) \/ LoadImmediate(a, w, x) PROVE Rest
  <2>1. CASE UNCHANGED <<status, active, reg>>
    BY <2>1 DEF TypeOK
  <2>2. CASE Raise("ROGUE_POINTER") \/ Raise("UNBOUND_MEMORY")
    BY <2>2, <1>3
  <2> QED
    BY <1>9, <2>1, <2>2 DEF Access, LoadImmediate
<1>10. ASSUME NEW n \in Transfer, NEW x \in Operand, BlockTransfer(a, n, x) PROVE Rest
  <2>1. CASE UNCHANGED <<status, active, reg>>
    BY <2>1 DEF TypeOK
  <2>2. CASE Raise("ROGUE_POINTER") \/ Raise("UNBOUND_MEMORY")
    BY <2>2, <1>3
  <2> QED
    BY <1>10, <2>1, <2>2 DEF BlockTransfer
<1>11. Rest
  BY <1>4, <1>5, <1>6, <1>7, <1>8, <1>9, <1>10
<1> QED
  BY <1>1, <1>2, <1>11 DEF TypeOK

LEMMA OutsideKeepsShape == ShapeInv /\ Outside => ShapeInv'
<1> SUFFICES ASSUME ShapeInv, Outside PROVE ShapeInv'
  OBVIOUS
<1> USE DEF ShapeInv
<1>1. Dynamic \in 0 .. Mod - 1 /\ \A o \in Host : o \in Object /\ Address[o] \in Int
  BY HalfWord, MemoryAssumption DEF Dynamic
<1>2. ASSUME NEW p \in Program, SwitchProgram(p) PROVE ShapeInv'
  BY <1>2 DEF SwitchProgram, TypeOK, TablesDeclared
<1>3. ASSUME Reenter PROVE ShapeInv'
  BY <1>3 DEF Reenter, TypeOK, TablesDeclared
<1>4. ASSUME NEW o \in Host, NEW a \in Register, HostBind(a, o) PROVE ShapeInv'
  <2>1. Layout(o, Dynamic) \in Memblock
    BY <1>1, LayoutType
  <2> QED
    BY <2>1, <1>1, <1>4 DEF HostBind, TypeOK, TablesDeclared
<1>5. ASSUME NEW o \in Host, HostUnbind(o) PROVE ShapeInv'
  BY <1>5, UnboundType DEF HostUnbind, TypeOK, TablesDeclared
<1>6. ASSUME NEW o \in Host, NEW n \in Operand, UpdateDeclared(n, o) PROVE ShapeInv'
  <2> DEFINE t == memblocks[program]
  <2>1. program \in Program /\ t \in Seq(Memblock) /\ Len(t) = Len(Declared[program])
    BY DEF TypeOK, TablesDeclared
  <2>2. n \in 0 .. Len(t) - 1 /\ Len(t) \in Nat /\ Len(t) < Mod
    BY <2>1, <1>6, DeclaredTypes DEF UpdateDeclared
  <2>3. n \in 0 .. Mod - 1 /\ n + 1 \in 1 .. Len(t)
    BY <2>2, HalfWord
  <2>4. Layout(o, n) \in Memblock
    BY <2>3, <1>1, LayoutType
  <2>5. memblocks' = [memblocks EXCEPT ![program] = [t EXCEPT ![n + 1] = Layout(o, n)]]
    BY <1>6 DEF UpdateDeclared
  <2>6. [t EXCEPT ![n + 1] = Layout(o, n)] \in Seq(Memblock) /\ Len([t EXCEPT ![n + 1] = Layout(o, n)]) = Len(t)
    BY <2>1, <2>3, <2>4, ExceptSeq
  <2> HIDE DEF t
  <2>7. memblocks' \in [Program -> Seq(Memblock)]
    BY <2>5, <2>6 DEF TypeOK
  <2>8. \A p \in Program : Len(memblocks'[p]) = Len(Declared[p])
    BY <2>5, <2>6, <2>1 DEF TypeOK, TablesDeclared
  <2>9. UNCHANGED <<status, program, active, reg>>
    BY <1>6 DEF UpdateDeclared
  <2> QED
    BY <2>7, <2>8, <2>9 DEF TypeOK, TablesDeclared
<1> QED
  BY <1>2, <1>3, <1>4, <1>5, <1>6 DEF Outside

\* Whatever scripts and host do, registers, bindings and tables keep their shape:
\* no bound or index leaves 32 bits.
THEOREM BindingsTyped == Spec => []TypeOK
<1>1. Init => ShapeInv
  BY InitShape
<1>2. ShapeInv /\ [Next]_vars => ShapeInv'
  <2>1. ShapeInv /\ UNCHANGED vars => ShapeInv'
    BY DEF vars, ShapeInv, TypeOK, TablesDeclared
  <2> QED
    BY <2>1, ScriptKeepsShape, OutsideKeepsShape DEF Next
<1>3. ShapeInv => TypeOK
  BY DEF ShapeInv
<1> QED
  BY <1>1, <1>2, <1>3, PTL DEF Spec
-----------------------------------------------------------------------------
(* Bounds.                                                                  *)

\* A block that has memory has the bounds of an object there.
WellBound(m) ==
    m.base_address # 0 => \E o \in Object : m = Layout(o, 0) \/ m = Layout(o, Dynamic)

TablesWellBound == \A p \in Program : \A n \in 1 .. Len(memblocks[p]) : WellBound(memblocks[p][n])
RegistersWellBound == \A a \in Register : WellBound(active[a])

BoundsInv == TablesWellBound /\ RegistersWellBound /\ RegisterInArray

LEMMA WellBoundTypes ==
    ASSUME NEW o \in Object, NEW n \in 0 .. Mod - 1
    PROVE  /\ Layout(o, n).base_address = Address[o] /\ Layout(o, n).element_bound = Stride[o]
           /\ Layout(o, n).array_bound = Stride[o] * (Count[o] - 1) + 1
           /\ Layout(o, n).memblock_index = n
BY DEF Layout, ElementBound

\* A register with memory behind it, its object and its bounds.
LEMMA BoundRegister ==
    ASSUME ShapeInv, RegistersWellBound, NEW a \in Register, Bound(a)
    PROVE  \E o \in Object :
             /\ active[a].base_address = Address[o] /\ active[a].element_bound = Stride[o]
             /\ active[a].array_bound = Stride[o] * (Count[o] - 1) + 1
             /\ active[a].memblock_index \in {0, Dynamic}
<1>1. 0 \in 0 .. Mod - 1 /\ Dynamic \in 0 .. Mod - 1
  BY HalfWord DEF Dynamic
<1> QED
  BY <1>1, WellBoundTypes DEF RegistersWellBound, WellBound, Bound

LEMMA InitBounds == ChecksApply /\ Init => BoundsInv
<1> SUFFICES ASSUME ChecksApply, Init PROVE BoundsInv
  OBVIOUS
<1>1. ASSUME NEW p \in Program, NEW n \in 1 .. Len(memblocks[p])
      PROVE  WellBound(memblocks[p][n])
  <2>1. memblocks[p] = DeclaredTable(p)
    BY DEF Init, DeclaredTable
  <2>2. n \in 1 .. Len(Declared[p]) /\ Len(Declared[p]) \in Nat /\ Len(Declared[p]) <= 1
    BY <2>1, DeclaredTableType, DeclaredTypes DEF ChecksApply
  <2>3. n = 1 /\ Declared[p][n] \in Object
    BY <2>2, DeclaredTypes
  <2>4. \/ DeclaredTable(p)[n] = Layout(Declared[p][n], 0)
        \/ DeclaredTable(p)[n] = [Layout(Declared[p][n], 0) EXCEPT !.base_address = 0]
    BY <2>2, <2>3 DEF DeclaredTable
  <2>5. [Layout(Declared[p][n], 0) EXCEPT !.base_address = 0].base_address = 0
    BY DEF Layout
  <2> QED
    BY <2>1, <2>3, <2>4, <2>5 DEF WellBound
<1>2. \A a \in Register : active[a].base_address = 0
  BY DEF Init, Unbound
<1> QED
  BY <1>1, <1>2 DEF BoundsInv, TablesWellBound, RegistersWellBound, WellBound, RegisterInArray, Bound

\* assign leaves a bound register inside of its array.
LEMMA AssignKeepsBounds ==
    ASSUME ChecksApply, ShapeInv, BoundsInv, NEW a \in Register, NEW x \in Operand,
           AssignOffset(a, x), InArray(a, x)
    PROVE  RegisterInArray'
<1>1. reg' = [reg EXCEPT ![a] = active[a].base_address + x] /\ UNCHANGED active
  BY DEF AssignOffset
<1>2. ASSUME Bound(a)
      PROVE  x \in 0 .. active[a].array_bound - 1
  <2>1. PICK o \in Object : active[a].array_bound = Stride[o] * (Count[o] - 1) + 1
    BY <1>2, BoundRegister DEF BoundsInv
  <2>2. active[a].array_bound \in 0 .. (Mod \div 2) - 1
    BY <2>1, BoundsOfObject, HalfWord
  <2>3. x \in Int /\ x < Mod /\ -x <= Mod \div 2
    BY MemoryAssumption DEF ChecksApply
  <2>4. 0 <= x /\ x < active[a].array_bound
    BY <2>2, <2>3, SignedOrder DEF InArray
  <2> QED
    BY <2>2, <2>3, <2>4
<1>3. reg \in [Register -> Int] /\ active[a].base_address \in Int /\ x \in Int
  BY MemoryAssumption DEF ShapeInv, TypeOK, Memblock
<1>4. Bound(a) => reg'[a] - active'[a].base_address \in 0 .. active'[a].array_bound - 1
  BY <1>1, <1>2, <1>3
<1>5. \A b \in Register \ {a} : reg'[b] = reg[b]
  BY <1>1, <1>3
<1> QED
  BY <1>1, <1>4, <1>5 DEF RegisterInArray, Bound, BoundsInv

\* push reads a bound that a block of the host can never satisfy, and that of a
\* program's only block as it was meant; pop stops at the base.
LEMMA StackKeepsBounds ==
    ASSUME ShapeInv, BoundsInv, NEW a \in Register, Push(a) \/ Pop(a)
    PROVE  RegisterInArray'
<1>1. PushSize \in Nat /\ reg \in [Register -> Int] /\ Mod \in Nat /\ Mod >= 2
  BY MemoryAssumption, HalfWord DEF ShapeInv, TypeOK
<1>2. UNCHANGED active /\ \A b \in Register \ {a} : reg'[b] = reg[b]
  BY <1>1 DEF Push, Pop, Raise
<1>3. ASSUME Bound(a)
      PROVE  reg'[a] - active[a].base_address \in 0 .. active[a].array_bound - 1
  <2> DEFINE d == reg[a] - active[a].base_address
  <2>1. PICK o \in Object :
             /\ active[a].array_bound = Stride[o] * (Count[o] - 1) + 1
             /\ active[a].memblock_index \in {0, Dynamic}
    BY <1>3, BoundRegister DEF BoundsInv
  <2>2. active[a].array_bound \in 1 .. (Mod \div 2) - 1 /\ Mod \div 2 \in Nat /\ Mod = 2 * (Mod \div 2)
    BY <2>1, BoundsOfObject, HalfWord
  <2>3. d \in 0 .. active[a].array_bound - 1
    BY <1>3 DEF BoundsInv, RegisterInArray
  <2>4. active[a].base_address \in Int /\ reg[a] \in Int
    BY <1>1 DEF ShapeInv, TypeOK, Memblock
  <2>5. /\ StackBound(active[a]) \in Int
        /\ StackBound(active[a]) = active[a].array_bound \/ StackBound(active[a]) < 0
    <3>1. CASE active[a].memblock_index = 0
      <4>1. 0 < Mod \div 2
        BY <2>2
      <4>2. StackBound(active[a]) = active[a].array_bound + Mod * 0
        BY <3>1, <4>1 DEF StackBound
      <4> QED
        BY <4>2, <2>2, <1>1
    <3>2. CASE active[a].memblock_index = Mod - 1
      <4>1. ~(Mod - 1 < Mod \div 2)
        BY <2>2
      <4>2. StackBound(active[a]) = active[a].array_bound + Mod * (Mod - 1 - Mod)
        BY <3>2, <4>1 DEF StackBound
      <4>3. Mod * (Mod - 1 - Mod) = -Mod
        BY <1>1
      <4> QED
        BY <4>2, <4>3, <2>2, <1>1
    <3> QED
      BY <2>1, <3>1, <3>2 DEF Dynamic
  <2>6. CASE PushFits(a) /\ reg'[a] = reg[a] + PushSize
    <3>1. d + PushSize < StackBound(active[a])
      BY <2>6 DEF PushFits
    <3>2. d + PushSize < active[a].array_bound
      BY <3>1, <2>3, <2>5, <1>1
    <3> QED
      BY <3>2, <2>3, <2>4, <2>6, <1>1, <2>2
  <2>7. CASE PopFits(a) /\ reg'[a] = reg[a] - PushSize
    BY <2>7, <2>2, <2>3, <2>4, <1>1 DEF PopFits
  <2>8. CASE reg'[a] = reg[a]
    BY <2>8, <2>3
  <2> QED
    BY <2>6, <2>7, <2>8, <1>1 DEF Push, Pop, Raise
<1> QED
  BY <1>2, <1>3 DEF RegisterInArray, Bound, BoundsInv

LEMMA BindKeepsBounds ==
    ASSUME ShapeInv, BoundsInv, NEW a \in Register, NEW m \in Memblock, WellBound(m),
           active' = [active EXCEPT ![a] = m], reg' = [reg EXCEPT ![a] = m.base_address]
    PROVE  RegistersWellBound' /\ RegisterInArray'
<1>1. reg \in [Register -> Int] /\ active \in [Register -> Memblock]
  BY DEF ShapeInv, TypeOK
<1>2. /\ active'[a] = m /\ reg'[a] = m.base_address
      /\ \A b \in Register \ {a} : active'[b] = active[b] /\ reg'[b] = reg[b]
  BY <1>1
<1>3. m.base_address # 0 => reg'[a] - m.base_address \in 0 .. m.array_bound - 1
  <2> SUFFICES ASSUME m.base_address # 0
               PROVE  reg'[a] - m.base_address \in 0 .. m.array_bound - 1
    OBVIOUS
  <2>1. 0 \in 0 .. Mod - 1 /\ Dynamic \in 0 .. Mod - 1
    BY HalfWord DEF Dynamic
  <2>2. PICK o \in Object : m.array_bound = Stride[o] * (Count[o] - 1) + 1
    BY <2>1, WellBoundTypes DEF WellBound
  <2>3. m.array_bound \in 1 .. (Mod \div 2) - 1
    BY <2>2, BoundsOfObject
  <2>4. m.base_address \in Nat
    BY DEF Memblock
  <2> QED
    BY <2>3, <2>4, <1>2, HalfWord
<1> QED
  BY <1>2, <1>3 DEF BoundsInv, RegistersWellBound, RegisterInArray, Bound
LEMMA ScriptKeepsBounds == ChecksApply /\ ShapeInv /\ BoundsInv /\ Script => BoundsInv'
<1> SUFFICES ASSUME ChecksApply, ShapeInv, BoundsInv, Script PROVE BoundsInv'
  OBVIOUS
<1>0. Running
  BY DEF Script, Bind, BindCopy, Swap, Unbind, AssignOffset, Push, Pop, Access, LoadImmediate,
     BlockTransfer
<1>1. TablesWellBound'
  BY <1>0 DEF Running, BoundsInv, TablesWellBound
<1> DEFINE Rest == RegistersWellBound' /\ RegisterInArray'
<1>2. ASSUME UNCHANGED <<active, reg>> PROVE Rest
  BY <1>2 DEF BoundsInv, RegistersWellBound, RegisterInArray, Bound
<1>3. ASSUME NEW e, Raise(e) PROVE Rest
  BY <1>2, <1>3 DEF Raise
<1>4. reg \in [Register -> Int] /\ active \in [Register -> Memblock]
  BY DEF ShapeInv, TypeOK
<1> PICK a \in Register :
        \/ \E n \in Operand : Bind(a, n)
        \/ \E b \in Register : BindCopy(a, b) \/ Swap(a, b)
        \/ Unbind(a)
        \/ \E x \in Operand : AssignOffset(a, x)
        \/ Push(a) \/ Pop(a)
        \/ \E w \in Word, x \in Operand : Access(a, w, x) \/ LoadImmediate(a, w, x)
        \/ \E n \in Transfer, x \in Operand : BlockTransfer(a, n, x)
  BY DEF Script
<1>5. ASSUME NEW n \in Operand, Bind(a, n) PROVE Rest
  <2>1. CASE n \in 0 .. Len(memblocks[program]) - 1
    <3> DEFINE m == memblocks[program][n + 1]
    <3>1. program \in Program /\ memblocks[program] \in Seq(Memblock)
      BY DEF ShapeInv, TypeOK
    <3>2. n + 1 \in 1 .. Len(memblocks[program])
      BY <2>1, <3>1
    <3>3. m \in Memblock
      BY <2>1, TableEntryType DEF ShapeInv
    <3>4. WellBound(m)
      BY <3>1, <3>2 DEF BoundsInv, TablesWellBound
    <3>5. active' = [active EXCEPT ![a] = m] /\ reg' = [reg EXCEPT ![a] = m.base_address]
      BY <2>1, <1>5 DEF Bind
    <3> HIDE DEF m
    <3> QED
      BY <3>3, <3>4, <3>5, BindKeepsBounds
  <2>2. CASE n \notin 0 .. Len(memblocks[program]) - 1
    BY <2>2, <1>5, <1>3 DEF Bind
  <2> QED
    BY <2>1, <2>2
<1>6. ASSUME NEW b \in Register, BindCopy(a, b) PROVE Rest
  BY <1>6, <1>4 DEF BindCopy, BoundsInv, RegistersWellBound, RegisterInArray, Bound
<1>7. ASSUME NEW b \in Register, Swap(a, b) PROVE Rest
  BY <1>7, <1>4 DEF Swap, BoundsInv, RegistersWellBound, RegisterInArray, Bound
<1>8. ASSUME Unbind(a) PROVE Rest
  <2>1. WellBound(Unbound) /\ Unbound.base_address = 0
    BY DEF WellBound, Unbound
  <2> QED
    BY <2>1, <1>8, UnboundType, BindKeepsBounds DEF Unbind
<1>9. ASSUME NEW x \in Operand, AssignOffset(a, x) PROVE Rest
  <2>1. CASE InArray(a, x)
    <3>1. RegistersWellBound'
      BY <2>1, <1>9 DEF AssignOffset, BoundsInv, RegistersWellBound
    <3> QED
      BY <3>1, <2>1, <1>9, AssignKeepsBounds
  <2>2. CASE ~InArray(a, x)
    BY <2>2, <1>9, <1>3 DEF AssignOffset
  <2> QED
    BY <2>1, <2>2
<1>10. ASSUME Push(a) \/ Pop(a) PROVE Rest
  <2>1. UNCHANGED active
    BY <1>10 DEF Push, Pop, Raise
  <2>2. RegistersWellBound'
    BY <2>1 DEF BoundsInv, RegistersWellBound
  <2> QED
    BY <2>2, <1>10, StackKeepsBounds
<1>11. ASSUME NEW w \in Word, NEW x \in Operand, Access(a, w, x) \/ LoadImmediate(a, w, x) PROVE Rest
  BY <1>11, <1>2, <1>3 DEF Access, LoadImmediate
<1>12. ASSUME NEW n \in Transfer, NEW x \in Operand, BlockTransfer(a, n, x) PROVE Rest
  BY <1>12, <1>2, <1>3 DEF BlockTransfer
<1>13. Rest
  BY <1>5, <1>6, <1>7, <1>8, <1>9, <1>10, <1>11, <1>12
<1> QED
  BY <1>1, <1>13 DEF BoundsInv

\* The only entry of a table is replaced.
LEMMA EntryReplaced ==
    ASSUME NEW t \in Seq(Memblock), NEW m \in Memblock, Len(t) = 1
    PROVE  /\ [t EXCEPT ![1] = m] \in Seq(Memblock) /\ Len([t EXCEPT ![1] = m]) = 1
           /\ [t EXCEPT ![1] = m][1] = m
<1>1. 1 \in 1 .. Len(t)
  OBVIOUS
<1> QED
  BY <1>1, ExceptSeq

LEMMA OutsideKeepsBounds == ChecksApply /\ ShapeInv /\ BoundsInv /\ Outside => BoundsInv'
<1> SUFFICES ASSUME ChecksApply, ShapeInv, BoundsInv, Outside PROVE BoundsInv'
  OBVIOUS
<1>1. Dynamic \in 0 .. Mod - 1 /\ \A o \in Host : o \in Object
  BY HalfWord, MemoryAssumption DEF Dynamic
<1>2. ASSUME UNCHANGED <<memblocks, active, reg>> PROVE BoundsInv'
  BY <1>2 DEF BoundsInv, TablesWellBound, RegistersWellBound, RegisterInArray, Bound
<1>3. ASSUME NEW o \in Host, NEW a \in Register, HostBind(a, o) PROVE BoundsInv'
  <2>1. Layout(o, Dynamic) \in Memblock /\ Layout(o, Dynamic).base_address = Address[o]
    BY <1>1, LayoutType, WellBoundTypes
  <2>2. WellBound(Layout(o, Dynamic))
    BY <1>1 DEF WellBound
  <2>3. RegistersWellBound' /\ RegisterInArray'
    BY <2>1, <2>2, <1>3, BindKeepsBounds DEF HostBind
  <2> QED
    BY <2>3, <1>3 DEF HostBind, BoundsInv, TablesWellBound
<1>4. ASSUME NEW o \in Host, HostUnbind(o) PROVE BoundsInv'
  <2>1. \A a \in Register : \/ active'[a] = active[a] /\ reg'[a] = reg[a]
                            \/ active'[a].base_address = 0
    BY <1>4 DEF HostUnbind, Unbound
  <2>2. UNCHANGED memblocks
    BY <1>4 DEF HostUnbind
  <2> QED
    BY <2>1, <2>2 DEF BoundsInv, TablesWellBound, RegistersWellBound, WellBound, RegisterInArray, Bound
<1>5. ASSUME NEW o \in Host, NEW n \in Operand, UpdateDeclared(n, o) PROVE BoundsInv'
  <2> DEFINE t == memblocks[program]
  <2>1. /\ program \in Program /\ t \in Seq(Memblock) /\ Len(t) <= 1 /\ Len(t) \in Nat
        /\ memblocks \in [Program -> Seq(Memblock)]
    BY DeclaredTypes DEF ShapeInv, TypeOK, TablesDeclared, ChecksApply
  <2>2. n = 0 /\ Len(t) = 1
    <3> DEFINE l == Len(t)
    <3>1. l \in Nat /\ l <= 1 /\ n \in 0 .. l - 1
      BY <2>1, <1>5 DEF UpdateDeclared
    <3> HIDE DEF l
    <3>2. n = 0 /\ l = 1
      BY <3>1
    <3> QED
      BY <3>2 DEF l
  <2>3. memblocks' = [memblocks EXCEPT ![program] = [t EXCEPT ![1] = Layout(o, 0)]]
    BY <2>2, <1>5 DEF UpdateDeclared
  <2>4. Layout(o, 0) \in Memblock /\ WellBound(Layout(o, 0))
    <3>1. 0 \in 0 .. Mod - 1
      BY HalfWord
    <3> QED
      BY <3>1, <1>1, LayoutType DEF WellBound
  <2>5. /\ [t EXCEPT ![1] = Layout(o, 0)] \in Seq(Memblock) /\ Len([t EXCEPT ![1] = Layout(o, 0)]) = 1
        /\ [t EXCEPT ![1] = Layout(o, 0)][1] = Layout(o, 0)
    BY <2>1, <2>2, <2>4, EntryReplaced
  <2> HIDE DEF t
  <2>6. ASSUME NEW p \in Program, NEW k \in 1 .. Len(memblocks'[p]) PROVE WellBound(memblocks'[p][k])
    <3>1. CASE p = program
      BY <3>1, <2>1, <2>3, <2>4, <2>5, <2>6
    <3>2. CASE p # program
      BY <3>2, <2>1, <2>3, <2>6 DEF BoundsInv, TablesWellBound
    <3> QED
      BY <3>1, <3>2
  <2>7. UNCHANGED <<active, reg>>
    BY <1>5 DEF UpdateDeclared
  <2> QED
    BY <2>6, <2>7 DEF BoundsInv, TablesWellBound, RegistersWellBound, RegisterInArray, Bound
<1> QED
  BY <1>2, <1>3, <1>4, <1>5 DEF Outside, SwitchProgram, Reenter

LEMMA BoundsKept == Spec => [](ShapeInv /\ (ChecksApply => BoundsInv))
<1> DEFINE Inv == ShapeInv /\ (ChecksApply => BoundsInv)
<1>1. Init => Inv
  BY InitShape, InitBounds
<1>2. Inv /\ [Next]_vars => Inv'
  <2>1. ChecksApply' <=> ChecksApply
    BY DEF ChecksApply
  <2>2. Inv /\ UNCHANGED vars => Inv'
    BY <2>1 DEF vars, ShapeInv, TypeOK, TablesDeclared, BoundsInv, TablesWellBound, RegistersWellBound,
                RegisterInArray, Bound
  <2> QED
    BY <2>1, <2>2, ScriptKeepsShape, OutsideKeepsShape, ScriptKeepsBounds, OutsideKeepsBounds DEF Next
<1> QED
  BY <1>1, <1>2, PTL DEF Spec

\* Where the checks apply, a bound register points into its array, whatever was
\* assigned, pushed, popped, copied, swapped, provided or taken away.
THEOREM RegistersStayInArray == Spec => [](ChecksApply => RegisterInArray)
<1>1. ShapeInv /\ (ChecksApply => BoundsInv) => (ChecksApply => RegisterInArray)
  BY DEF BoundsInv
<1> QED
  BY <1>1, BoundsKept, PTL

\* The register bound, the element bound and the size of what is read or written
\* add up to the size of the object.
LEMMA BoundsAddUp ==
    ShapeInv /\ BoundsInv => (WordsFit => AccessInBlock) /\ TransferInBlock /\ StackInBlock
<1> SUFFICES ASSUME ShapeInv, BoundsInv, NEW a \in Register, Bound(a)
             PROVE  /\ WordsFit => \A w \in Word, x \in Operand :
                         InElement(a, w, x) => Touched(reg[a] + x, w) \subseteq Bytes(a)
                    /\ \A n \in Transfer, x \in Operand :
                         TransferFits(a, n, x) => Touched(reg[a] + x, n) \subseteq Bytes(a)
                    /\ PushFits(a) => Touched(reg[a], PushSize) \subseteq Bytes(a)
                    /\ PopFits(a)  => Touched(reg[a] - PushSize, PushSize) \subseteq Bytes(a)
  BY DEF AccessInBlock, TransferInBlock, StackInBlock
<1> PICK o \in Object :
      /\ active[a].base_address = Address[o] /\ active[a].element_bound = Stride[o]
      /\ active[a].array_bound = Stride[o] * (Count[o] - 1) + 1
      /\ active[a].memblock_index \in {0, Dynamic}
  BY BoundRegister DEF BoundsInv
<1> DEFINE base == Address[o]
           bound == active[a].array_bound
           s == Stride[o]
<1>1. /\ base \in Nat /\ s \in Nat \ {0} /\ s <= (Mod \div 2) - 1 /\ bound \in Nat /\ bound >= 1
      /\ Mod \div 2 \in Nat /\ Mod = 2 * (Mod \div 2)
      /\ bound - 1 + s = Size(o) /\ bound <= Size(o) /\ bound < Mod
  BY ObjectTypes, BoundsOfObject, HalfWord
<1>2. reg[a] \in Int /\ reg[a] - base \in 0 .. bound - 1
  BY DEF BoundsInv, RegisterInArray, ShapeInv, TypeOK
<1>3. ASSUME NEW first \in Int, NEW size \in Nat, base <= first, first + size <= base + Size(o)
      PROVE  Touched(first, size) \subseteq Bytes(a)
  <2>1. Address[o] .. Address[o] + Size(o) - 1 \subseteq Bytes(a)
    BY DEF Bytes
  <2>2. Size(o) \in Int
    BY <1>1
  <2>3. first .. first + size - 1 \subseteq base .. base + Size(o) - 1
    BY <1>1, <1>3, <2>2
  <2> QED
    BY <2>1, <2>3 DEF Touched
<1>4. ASSUME WordsFit, NEW w \in Word, NEW x \in Operand, InElement(a, w, x)
      PROVE  Touched(reg[a] + x, w) \subseteq Bytes(a)
  <2>1. w \in Nat \ {0} /\ x \in Int /\ w <= s
    BY <1>4, MemoryAssumption DEF WordsFit
  <2>2. OffsetBound(a, w) = LowWord(s - (w - 1))
    BY DEF OffsetBound
  <2>3. s - (w - 1) \in 0 .. Mod - 1
    BY <2>1, <1>1
  <2>4. OffsetBound(a, w) = s - (w - 1)
    BY <2>2, <2>3, LowWordSmall
  <2>5. 0 <= x /\ x < s - (w - 1)
    BY <2>4, <1>4 DEF InElement
  <2>6. reg[a] + x \in Int /\ base <= reg[a] + x /\ reg[a] + x + w <= base + Size(o)
    BY <1>1, <1>2, <2>1, <2>5
  <2> QED
    BY <2>1, <2>6, <1>3
<1>5. ASSUME PushFits(a)
      PROVE  Touched(reg[a], PushSize) \subseteq Bytes(a)
  <2>1. PushSize \in Nat
    BY MemoryAssumption
  <2>2. reg[a] - base + PushSize < StackBound(active[a])
    BY <1>5 DEF PushFits
  <2>3. CASE active[a].memblock_index = 0
    <3>1. 0 < Mod \div 2
      BY HalfWord, <1>1
    <3>2. StackBound(active[a]) = bound
      BY <2>3, <3>1, <1>1 DEF StackBound
    <3>3. reg[a] + PushSize <= base + Size(o) /\ base <= reg[a]
      BY <2>1, <2>2, <3>2, <1>1, <1>2
    <3> QED
      BY <2>1, <3>3, <1>2, <1>3
  <2>4. CASE active[a].memblock_index = Mod - 1
    <3>1. ~(Mod - 1 < Mod \div 2)
      BY HalfWord, <1>1
    <3>2. StackBound(active[a]) = bound + Mod * (Mod - 1 - Mod)
      BY <2>4, <3>1 DEF StackBound
    <3>3. Mod * (Mod - 1 - Mod) = -Mod
      BY <1>1
    <3>4. StackBound(active[a]) < 0 /\ StackBound(active[a]) \in Int
      BY <3>2, <3>3, <1>1
    <3> QED
      BY <3>4, <2>1, <2>2, <1>2, <1>1
  <2> QED
    BY <2>3, <2>4 DEF Dynamic
<1>6. ASSUME PopFits(a)
      PROVE  Touched(reg[a] - PushSize, PushSize) \subseteq Bytes(a)
  <2>1. PushSize \in Nat /\ base <= reg[a] - PushSize
    BY MemoryAssumption, <1>6 DEF PopFits
  <2>2. reg[a] - PushSize \in Int /\ reg[a] - PushSize + PushSize <= base + Size(o)
    BY <2>1, <1>1, <1>2
  <2> QED
    BY <2>1, <2>2, <1>3
<1>7. ASSUME NEW n \in Transfer, NEW x \in Operand, TransferFits(a, n, x)
      PROVE  Touched(reg[a] + x, n) \subseteq Bytes(a)
  <2>1. n \in Nat \ {0} /\ x \in Int
    BY MemoryAssumption
  <2>2. 0 <= x /\ x < s - (n - 1)
    BY <1>7 DEF TransferFits, TransferBound
  <2>3. reg[a] + x \in Int /\ base <= reg[a] + x /\ reg[a] + x + n <= base + Size(o)
    BY <1>1, <1>2, <2>1, <2>2
  <2> QED
    BY <2>1, <2>3, <1>3
<1> QED
  BY <1>4, <1>5, <1>6, <1>7

\* Where the checks apply, what load and store let pass touches only bytes of the
\* object the register is bound to.
THEOREM AccessesStayInBlock == Spec => [](ChecksApply /\ WordsFit => AccessInBlock)
<1>1. ShapeInv /\ (ChecksApply => BoundsInv) => (ChecksApply /\ WordsFit => AccessInBlock)
  BY BoundsAddUp
<1> QED
  BY <1>1, BoundsKept, PTL

\* So does a transfer of a block of registers, for elements of any length.
THEOREM TransfersStayInBlock == Spec => [](ChecksApply => TransferInBlock)
<1>1. ShapeInv /\ (ChecksApply => BoundsInv) => (ChecksApply => TransferInBlock)
  BY BoundsAddUp
<1> QED
  BY <1>1, BoundsKept, PTL

\* And what push and pop let pass.
THEOREM StackStaysInBlock == Spec => [](ChecksApply => StackInBlock)
<1>1. ShapeInv /\ (ChecksApply => BoundsInv) => (ChecksApply => StackInBlock)
  BY BoundsAddUp
<1> QED
  BY <1>1, BoundsKept, PTL

-----------------------------------------------------------------------------
(* Unbinding.                                                               *)

\* A register with offsets of an external block that has no memory yet must not
\* point into an object: none lies within the first 2^32 addresses.
ObjectsAreHigh == \A o \in Object : Address[o] >= Mod

\* A block without memory has index 0, and a register on it an offset for value.
NullBlock(m) == m.base_address = 0 => m.memblock_index = 0

TablesNull == \A p \in Program : \A n \in 1 .. Len(memblocks[p]) : NullBlock(memblocks[p][n])
RegistersNull ==
    \A a \in Register : NullBlock(active[a]) /\ (active[a].base_address = 0 => reg[a] < Mod)

NullInv == TablesNull /\ RegistersNull

LEMMA LayoutNull == ASSUME NEW o \in Object, NEW n PROVE NullBlock(Layout(o, n))
BY ObjectTypes DEF NullBlock, Layout

LEMMA InitNull == ChecksApply /\ Init => NullInv
<1> SUFFICES ASSUME ChecksApply, Init PROVE NullInv
  OBVIOUS
<1>1. ASSUME NEW p \in Program, NEW n \in 1 .. Len(memblocks[p])
      PROVE  NullBlock(memblocks[p][n])
  <2>1. memblocks[p] = DeclaredTable(p)
    BY DEF Init, DeclaredTable
  <2>2. n \in 1 .. Len(Declared[p]) /\ Len(Declared[p]) \in Nat /\ Len(Declared[p]) <= 1
    BY <2>1, DeclaredTableType, DeclaredTypes DEF ChecksApply
  <2>3. n = 1 /\ Declared[p][n] \in Object
    BY <2>2, DeclaredTypes
  <2>4. \/ DeclaredTable(p)[n] = Layout(Declared[p][n], 0)
        \/ DeclaredTable(p)[n] = [Layout(Declared[p][n], 0) EXCEPT !.base_address = 0]
    BY <2>2, <2>3 DEF DeclaredTable
  <2>5. [Layout(Declared[p][n], 0) EXCEPT !.base_address = 0].memblock_index = 0
    BY DEF Layout
  <2> QED
    BY <2>1, <2>3, <2>4, <2>5, LayoutNull DEF NullBlock
<1>2. 0 < Mod
  BY HalfWord
<1>3. RegistersNull
  BY <1>2 DEF Init, Unbound, RegistersNull, NullBlock
<1> QED
  BY <1>1, <1>3 DEF NullInv, TablesNull

LEMMA BindKeepsNull ==
    ASSUME ShapeInv, NullInv, NEW a \in Register, NEW m \in Memblock, NullBlock(m),
           active' = [active EXCEPT ![a] = m], reg' = [reg EXCEPT ![a] = m.base_address]
    PROVE  RegistersNull'
<1>1. reg \in [Register -> Int] /\ active \in [Register -> Memblock] /\ 0 < Mod
  BY HalfWord DEF ShapeInv, TypeOK
<1>2. /\ active'[a] = m /\ reg'[a] = m.base_address
      /\ \A b \in Register \ {a} : active'[b] = active[b] /\ reg'[b] = reg[b]
  BY <1>1
<1> QED
  BY <1>1, <1>2 DEF NullInv, RegistersNull, NullBlock

LEMMA StackKeepsNull ==
    ASSUME ShapeInv, NullInv, NEW a \in Register, Push(a) \/ Pop(a)
    PROVE  RegistersNull'
<1>1. PushSize \in Nat /\ reg \in [Register -> Int] /\ Mod \in Nat /\ 0 < Mod \div 2
  BY MemoryAssumption, HalfWord DEF ShapeInv, TypeOK
<1>2. UNCHANGED active /\ \A b \in Register \ {a} : reg'[b] = reg[b]
  BY <1>1 DEF Push, Pop, Raise
<1>3. ASSUME active[a].base_address = 0 PROVE reg'[a] < Mod
  <2>1. active[a].memblock_index = 0 /\ reg[a] < Mod
    BY <1>3 DEF NullInv, RegistersNull, NullBlock
  <2>2. active[a].array_bound \in 0 .. Mod - 1 /\ reg[a] \in Int
    BY <1>1 DEF ShapeInv, TypeOK, Memblock
  <2>3. StackBound(active[a]) = active[a].array_bound + Mod * 0
    BY <2>1, <1>1 DEF StackBound
  <2>4. StackBound(active[a]) < Mod /\ StackBound(active[a]) \in Int
    BY <2>2, <2>3, <1>1
  <2>5. CASE PushFits(a) /\ reg'[a] = reg[a] + PushSize
    BY <2>2, <2>4, <2>5, <1>1, <1>3 DEF PushFits
  <2>6. CASE reg'[a] = reg[a] - PushSize
    BY <2>1, <2>2, <2>6, <1>1
  <2>7. CASE reg'[a] = reg[a]
    BY <2>1, <2>7
  <2> QED
    BY <2>5, <2>6, <2>7, <1>1 DEF Push, Pop, Raise
<1> QED
  BY <1>2, <1>3 DEF NullInv, RegistersNull, NullBlock

LEMMA ScriptKeepsNull == ChecksApply /\ ShapeInv /\ NullInv /\ Script => NullInv'
<1> SUFFICES ASSUME ChecksApply, ShapeInv, NullInv, Script PROVE NullInv'
  OBVIOUS
<1>0. Running
  BY DEF Script, Bind, BindCopy, Swap, Unbind, AssignOffset, Push, Pop, Access, LoadImmediate,
     BlockTransfer
<1>1. TablesNull'
  BY <1>0 DEF Running, NullInv, TablesNull
<1>2. ASSUME UNCHANGED <<active, reg>> PROVE RegistersNull'
  BY <1>2 DEF NullInv, RegistersNull, NullBlock
<1>3. ASSUME NEW e, Raise(e) PROVE RegistersNull'
  BY <1>2, <1>3 DEF Raise
<1>4. reg \in [Register -> Int] /\ active \in [Register -> Memblock]
  BY DEF ShapeInv, TypeOK
<1> PICK a \in Register :
        \/ \E n \in Operand : Bind(a, n)
        \/ \E b \in Register : BindCopy(a, b) \/ Swap(a, b)
        \/ Unbind(a)
        \/ \E x \in Operand : AssignOffset(a, x)
        \/ Push(a) \/ Pop(a)
        \/ \E w \in Word, x \in Operand : Access(a, w, x) \/ LoadImmediate(a, w, x)
        \/ \E n \in Transfer, x \in Operand : BlockTransfer(a, n, x)
  BY DEF Script
<1>5. ASSUME NEW n \in Operand, Bind(a, n) PROVE RegistersNull'
  <2>1. CASE n \in 0 .. Len(memblocks[program]) - 1
    <3> DEFINE m == memblocks[program][n + 1]
    <3>1. program \in Program /\ memblocks[program] \in Seq(Memblock)
      BY DEF ShapeInv, TypeOK
    <3>2. n + 1 \in 1 .. Len(memblocks[program])
      BY <2>1, <3>1
    <3>3. m \in Memblock /\ NullBlock(m)
      BY <2>1, <3>1, <3>2, TableEntryType DEF ShapeInv, NullInv, TablesNull
    <3>4. active' = [active EXCEPT ![a] = m] /\ reg' = [reg EXCEPT ![a] = m.base_address]
      BY <2>1, <1>5 DEF Bind
    <3> HIDE DEF m
    <3> QED
      BY <3>3, <3>4, BindKeepsNull
  <2>2. CASE n \notin 0 .. Len(memblocks[program]) - 1
    BY <2>2, <1>5, <1>3 DEF Bind
  <2> QED
    BY <2>1, <2>2
<1>6. ASSUME NEW b \in Register, BindCopy(a, b) \/ Swap(a, b) PROVE RegistersNull'
  BY <1>6, <1>4 DEF BindCopy, Swap, NullInv, RegistersNull, NullBlock
<1>7. ASSUME Unbind(a) PROVE RegistersNull'
  <2>1. NullBlock(Unbound) /\ Unbound.base_address = 0
    BY DEF NullBlock, Unbound
  <2> QED
    BY <2>1, <1>7, UnboundType, BindKeepsNull DEF Unbind
<1>8. ASSUME NEW x \in Operand, AssignOffset(a, x) PROVE RegistersNull'
  <2>1. CASE InArray(a, x)
    <3>1. x < Mod /\ x \in Int
      BY MemoryAssumption DEF ChecksApply
    <3>2. active[a].base_address = 0 => active[a].base_address + x = x
      BY <3>1
    <3> QED
      BY <3>1, <3>2, <2>1, <1>4, <1>8 DEF AssignOffset, NullInv, RegistersNull, NullBlock
  <2>2. CASE ~InArray(a, x)
    BY <2>2, <1>8, <1>3 DEF AssignOffset
  <2> QED
    BY <2>1, <2>2
<1>9. ASSUME Push(a) \/ Pop(a) PROVE RegistersNull'
  BY <1>9, StackKeepsNull
<1>10. ASSUME NEW w \in Word, NEW x \in Operand, Access(a, w, x) \/ LoadImmediate(a, w, x)
       PROVE  RegistersNull'
  BY <1>10, <1>2, <1>3 DEF Access, LoadImmediate
<1>11. ASSUME NEW n \in Transfer, NEW x \in Operand, BlockTransfer(a, n, x)
       PROVE  RegistersNull'
  BY <1>11, <1>2, <1>3 DEF BlockTransfer
<1>12. RegistersNull'
  BY <1>5, <1>6, <1>7, <1>8, <1>9, <1>10, <1>11
<1> QED
  BY <1>1, <1>12 DEF NullInv

LEMMA OutsideKeepsNull == ShapeInv /\ NullInv /\ Outside => NullInv'
<1> SUFFICES ASSUME ShapeInv, NullInv, Outside PROVE NullInv'
  OBVIOUS
<1>1. /\ Dynamic \in 0 .. Mod - 1 /\ 0 < Mod
      /\ \A o \in Host : o \in Object /\ Address[o] \in Nat \ {0}
  BY HalfWord, MemoryAssumption DEF Dynamic
<1>2. ASSUME UNCHANGED <<memblocks, active, reg>> PROVE NullInv'
  BY <1>2 DEF NullInv, TablesNull, RegistersNull, NullBlock
<1>3. ASSUME NEW o \in Host, NEW a \in Register, HostBind(a, o) PROVE NullInv'
  <2>1. Layout(o, Dynamic) \in Memblock /\ Layout(o, Dynamic).base_address = Address[o]
    BY <1>1, LayoutType, WellBoundTypes
  <2>2. RegistersNull'
    BY <1>1, <1>3, <2>1, LayoutNull, BindKeepsNull DEF HostBind
  <2> QED
    BY <2>2, <1>3 DEF HostBind, NullInv, TablesNull
<1>4. ASSUME NEW o \in Host, HostUnbind(o) PROVE NullInv'
  <2>1. \A a \in Register : \/ active'[a] = active[a] /\ reg'[a] = reg[a]
                            \/ active'[a] = Unbound /\ reg'[a] = 0
    BY <1>4 DEF HostUnbind
  <2>2. UNCHANGED memblocks
    BY <1>4 DEF HostUnbind
  <2> QED
    BY <2>1, <2>2, <1>1 DEF NullInv, TablesNull, RegistersNull, NullBlock, Unbound
<1>5. ASSUME NEW o \in Host, NEW n \in Operand, UpdateDeclared(n, o) PROVE NullInv'
  <2> DEFINE t == memblocks[program]
  <2>1. /\ program \in Program /\ t \in Seq(Memblock)
        /\ memblocks \in [Program -> Seq(Memblock)]
    BY DEF ShapeInv, TypeOK
  <2>2. memblocks' = [memblocks EXCEPT ![program] = [t EXCEPT ![n + 1] = Layout(o, n)]]
    BY <1>5 DEF UpdateDeclared
  <2>3. NullBlock(Layout(o, n))
    BY <1>1, LayoutNull
  <2>4. \A p \in Program : \A k \in 1 .. Len(memblocks'[p]) :
            \/ memblocks'[p][k] = Layout(o, n)
            \/ k \in 1 .. Len(memblocks[p]) /\ memblocks'[p][k] = memblocks[p][k]
    <3> SUFFICES ASSUME NEW p \in Program, NEW k \in 1 .. Len(memblocks'[p])
                 PROVE  \/ memblocks'[p][k] = Layout(o, n)
                        \/ k \in 1 .. Len(memblocks[p]) /\ memblocks'[p][k] = memblocks[p][k]
      OBVIOUS
    <3>1. CASE p = program
      <4>1. /\ Len([t EXCEPT ![n + 1] = Layout(o, n)]) = Len(t)
            /\ \A j \in 1 .. Len(t) : [t EXCEPT ![n + 1] = Layout(o, n)][j]
                                          = IF j = n + 1 THEN Layout(o, n) ELSE t[j]
        BY <2>1
      <4>2. memblocks'[p] = [t EXCEPT ![n + 1] = Layout(o, n)]
        BY <2>1, <2>2, <3>1
      <4> QED
        BY <3>1, <4>1, <4>2
    <3>2. CASE p # program
      BY <2>1, <2>2, <3>2
    <3> QED
      BY <3>1, <3>2
  <2>5. UNCHANGED <<active, reg>>
    BY <1>5 DEF UpdateDeclared
  <2> HIDE DEF t
  <2>6. TablesNull'
    BY <2>3, <2>4 DEF NullInv, TablesNull
  <2> QED
    BY <2>5, <2>6 DEF NullInv, RegistersNull, NullBlock
<1> QED
  BY <1>2, <1>3, <1>4, <1>5 DEF Outside, SwitchProgram, Reenter

\* Two objects that share an address are the same.
LEMMA ObjectAtAddress ==
    ASSUME NEW o \in Object, NEW q \in Object, NEW x \in Int,
           Address[o] <= x, x < Address[o] + Size(o), Address[q] <= x, x < Address[q] + Size(q)
    PROVE  o = q
<1>1. /\ o # q => \/ Address[o] + Size(o) <= Address[q]
                  \/ Address[q] + Size(q) <= Address[o]
      /\ Address[o] \in Int /\ Address[q] \in Int
  BY MemoryAssumption
<1>2. Size(o) \in Int /\ Size(q) \in Int
  <2>1. Stride[o] \in Int /\ Count[o] \in Int /\ Stride[q] \in Int /\ Count[q] \in Int
    BY ObjectTypes
  <2> QED
    BY <2>1 DEF Size
<1> QED
  BY <1>1, <1>2

LEMMA UnbindFindsCopies ==
    ASSUME ObjectsAreHigh, ShapeInv, BoundsInv, NullInv, NEW o \in Host, NEW a \in Register,
           HostUnbind(o), reg'[a] \in Touched(Address[o], Size(o))
    PROVE  active'[a].base_address = Address[o] /\ active'[a].memblock_index # Dynamic
<1>1. o \in Object /\ Mod \in Nat \ {0} /\ Address[o] \in Nat \ {0} /\ Address[o] >= Mod
  BY MemoryAssumption DEF ObjectsAreHigh
<1>2. Size(o) \in Int
  <2>1. Stride[o] \in Int /\ Count[o] \in Int
    BY <1>1, ObjectTypes
  <2> QED
    BY <2>1 DEF Size
<1>3. reg \in [Register -> Int] /\ active \in [Register -> Memblock]
  BY DEF ShapeInv, TypeOK
<1>4. reg'[a] >= Address[o] /\ reg'[a] < Address[o] + Size(o) /\ reg'[a] >= Mod /\ reg'[a] # 0
  <2>1. reg'[a] \in Int /\ Address[o] <= reg'[a] /\ reg'[a] <= Address[o] + Size(o) - 1
    BY <1>1, <1>2 DEF Touched
  <2> QED
    BY <2>1, <1>1, <1>2
<1>5. a \notin BoundByHost(o) /\ reg'[a] = reg[a] /\ active'[a] = active[a]
  BY <1>4 DEF HostUnbind
<1>6. Bound(a)
  BY <1>1, <1>3, <1>4, <1>5 DEF NullInv, RegistersNull, Bound
<1>7. PICK q \in Object :
         /\ active[a].base_address = Address[q]
         /\ active[a].array_bound = Stride[q] * (Count[q] - 1) + 1
  BY <1>6, BoundRegister DEF BoundsInv
<1>8. reg[a] - Address[q] \in 0 .. active[a].array_bound - 1 /\ reg[a] \in Int /\ Address[q] \in Int
  BY <1>3, <1>6, <1>7, ObjectTypes DEF BoundsInv, RegisterInArray
<1>9. /\ active[a].array_bound \in Int /\ active[a].array_bound <= Size(q) /\ Size(q) \in Int
  <2> DEFINE b == Stride[q] * (Count[q] - 1) + 1
  <2>1. b \in 1 .. (Mod \div 2) - 1 /\ b - 1 + Stride[q] = Size(q) /\ Stride[q] \in 1 .. (Mod \div 2) - 1
    <3>1. /\ Stride[q] * (Count[q] - 1) + 1 \in 1 .. (Mod \div 2) - 1
          /\ Stride[q] * (Count[q] - 1) + Stride[q] = Size(q)
          /\ Stride[q] \in 1 .. (Mod \div 2) - 1
      BY BoundsOfObject
    <3> QED
      BY <3>1, ObjectTypes
  <2> HIDE DEF b
  <2> QED
    BY <2>1, <1>7 DEF b
<1>10. Address[q] <= reg[a] /\ reg[a] < Address[q] + Size(q)
  BY <1>8, <1>9
<1>11. q = o
  BY <1>1, <1>4, <1>5, <1>8, <1>10, ObjectAtAddress
<1> QED
  BY <1>5, <1>7, <1>11 DEF BoundByHost

\* Where the checks apply and no object lies at the addresses that serve as
\* offsets, a host that unbinds an object leaves no register on it by a binding
\* of its own.
THEOREM UnbindingIsComplete ==
    ASSUME ChecksApply, ObjectsAreHigh PROVE Spec => UnbindReachesCopies
<1> DEFINE Inv == ShapeInv /\ BoundsInv /\ NullInv
<1>1. Init => Inv
  BY InitShape, InitBounds, InitNull
<1>2. Inv /\ [Next]_vars => Inv'
  <2>1. Inv /\ UNCHANGED vars => Inv'
    BY DEF vars, ShapeInv, TypeOK, TablesDeclared, BoundsInv, TablesWellBound, RegistersWellBound,
           RegisterInArray, Bound, NullInv, TablesNull, RegistersNull, NullBlock
  <2> QED
    BY <2>1, ScriptKeepsShape, OutsideKeepsShape, ScriptKeepsBounds, OutsideKeepsBounds,
       ScriptKeepsNull, OutsideKeepsNull DEF Next
<1>3. Inv /\ [Next]_vars =>
        [\A o \in Host, a \in Register :
           HostUnbind(o) /\ reg'[a] \in Touched(Address[o], Size(o)) =>
              active'[a].base_address = Address[o] /\ active'[a].memblock_index # Dynamic]_vars
  BY UnbindFindsCopies
<1> QED
  BY <1>1, <1>2, <1>3, PTL DEF Spec, UnbindReachesCopies
=============================================================================
