--------------------------- MODULE MCMemoryBinding ---------------------------
(* TLC instances of MemoryBinding: 32-bit words of 16 values, elements of    *)
(* two and three bytes and stack items of two.                              *)
EXTENDS MemoryBinding, TLC

CONSTANTS addr1, addr2, Main, Lib, m1, m2, e1, h1

MCRegister == {addr1, addr2}
MCProgram  == {Main, Lib}
MCObject   == {m1, m2, e1, h1}
MCHost     == {h1}
MCExternal == {e1}
MCWord     == {1, 2}
MCTransfer == {2, 3, 4}
MCAddress  == (m1 :> 20) @@ (m2 :> 60) @@ (e1 :> 80) @@ (h1 :> 100)
MCStride   == (m1 :> 2) @@ (m2 :> 2) @@ (e1 :> 2) @@ (h1 :> 3)
MCCount    == (m1 :> 3) @@ (m2 :> 2) @@ (e1 :> 2) @@ (h1 :> 2)

\* One memory block per program: Lib's is external.
OneBlockEach == (Main :> <<m1>>) @@ (Lib :> <<e1>>)

\* Main has a second block.
TwoBlocks == (Main :> <<m1, m2>>) @@ (Lib :> <<e1>>)

NarrowOperands == -1 .. 5
=============================================================================
