---------------------------- MODULE MCEmitService ----------------------------
(* Pools that differ only in which block holds what, or in garbage of the same *)
(* size, behave alike: no operator looks at the number of a block.  What the   *)
(* invariants say of a pool is part of the view, and so is what a cull frees.  *)
(* (The comparison of the pool as a whole has TLC evaluate it.)                *)
EXTENDS EmitService, TLC

CONSTANTS NameA, NameB            \* names: nothing asks which of them one is

MCNames == {NameA, NameB}
Renamings == Permutations(MCNames)

Objects(q) == <<Content(q.memory_layout_ll), Content(db[q.memory_layout_hl].store),
                Content(db[q.functions].store)>>

View == <<Draft, Open, Built, IF ctx.drafting THEN Objects(ctx) ELSE <<>>,
          [n \in DOMAIN programs |-> <<Objects(programs[n]), programs[n].handles, programs[n].function_map>>],
          pool.db = FullPool.db, Len(pool.stack), Cardinality(Culled(pool, 0)), TypeOK, KeptSurvives, status, calls, handles>>
=============================================================================
