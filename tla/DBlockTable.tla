----------------------------- MODULE DBlockTable -----------------------------
(***************************************************************************)
(* The hash table of tactyk_dblock.c: linear probing over a power of two   *)
(* of slots, deleted entries kept as PSEUDONULL so that probes run over    *)
(* them, and a rebuild to twice the size when put meets a table with no    *)
(* slot left that was never used.  The rebuild moves one slot per step.    *)
(***************************************************************************)
EXTENDS Integers, FiniteSets

CONSTANTS
    Key, Value,       \* contents of key dblocks, and pointers stored under them
    Hash,             \* Hash[k]: hashcode of k
    Compared,         \* Compared[k]: the length and bytes of k that equals looks at
    InitialCapacity,  \* element_capacity asked for, rounded up to a power of two
    MaxCapacity,      \* bound of the model: put does not grow a table past it
    Null, PseudoNull, \* NULL and TACTYK_PSEUDONULL
    Nothing           \* no put waits for a rebuild

\* tactyk_dblock__equals.  The residue loop indexes bytes from length / 8
\* instead of the last multiple of 8, so two long keys may differ only in bytes
\* it never looks at; then the hash must tell them apart.
Equal(k, l) == Hash[k] = Hash[l] /\ Compared[k] = Compared[l]

ASSUME TableAssumption ==
    /\ IsFiniteSet(Key)
    /\ Null # PseudoNull /\ Null \notin Value \cup Key /\ PseudoNull \notin Value
    /\ Hash \in [Key -> Nat]
    /\ InitialCapacity \in Nat \ {0}
    /\ MaxCapacity \in Nat
    /\ \A k \in Key, v \in Value \cup {Null} : Nothing # [key |-> k, value |-> v]

\* What the table relies on and nothing checks: distinct keys are told apart.
ASSUME KeysDistinguished == \A k, l \in Key : Equal(k, l) => k = l

VARIABLES
    element_capacity, element_count,
    fields,                 \* fields[i]: the key and value of slot i
    previous, i,            \* a rebuild: the old fields, and the slot it moves next
    prev_element_capacity,
    pending                 \* the put that the rebuild interrupted

moving == <<previous, i, prev_element_capacity, pending>>
vars   == <<element_capacity, element_count, fields, moving>>

EmptySlot == [key |-> Null, value |-> Null]

\* Mutant: one slot too many.
BlankTooLong(n) == [s \in 0 .. n |-> EmptySlot]

Blank(n) == [s \in 0 .. n - 1 |-> EmptySlot]

Init ==
    /\ element_capacity = InitialCapacity
    /\ element_count = 0
    /\ fields = Blank(InitialCapacity)
    /\ previous = Blank(0) /\ i = 0 /\ prev_element_capacity = 0
    /\ pending = Nothing

-----------------------------------------------------------------------------
(* Searching.                                                               *)

PrefIndex(k) == Hash[k] % element_capacity

Slots == 0 .. element_capacity - 1

\* The position of slot s in the probe sequence that starts at slot p.
Distance(p, s) == IF s >= p THEN s - p ELSE s - p + element_capacity

\* Mutant: a search ends at a deleted entry.
StopsAtDeleted(k, s) == fields[s].value \in {Null, PseudoNull} \/ Equal(k, fields[s].key)

Stops(k, s) == fields[s].value = Null \/ Equal(k, fields[s].key)

FirstStop(k, s) ==
    /\ Stops(k, s)
    /\ \A t \in Slots : Distance(PrefIndex(k), t) < Distance(PrefIndex(k), s) => ~Stops(k, t)

\* tactyk_dblock__table_find.
table_find(k) ==
    IF \E s \in Slots : Stops(k, s) THEN CHOOSE s \in Slots : FirstStop(k, s) ELSE -1

\* tactyk_dblock__get.
get(k) ==
    LET s == table_find(k) IN
    IF s = -1 \/ fields[s].value = PseudoNull THEN Null ELSE fields[s].value

-----------------------------------------------------------------------------
(* Updating.                                                                *)

\* Mutant: deleting makes the slot look as if it had never been used.
Erased(v) == v

\* What put leaves in a used slot.
Kept(v) == IF v = Null THEN PseudoNull ELSE v

\* The part of put after the rebuild.  A slot's value turns from NULL to
\* something once; deleting leaves PSEUDONULL, which a later put overwrites.
Store(k, v) ==
    LET s == table_find(k) IN
    /\ s # -1
    /\ CASE fields[s].value = Null /\ v = Null -> UNCHANGED <<fields, element_count>>
         [] fields[s].value = Null /\ v # Null ->
              /\ fields' = [fields EXCEPT ![s] = [key |-> k, value |-> v]]
              /\ element_count' = element_count + 1
         [] OTHER ->
              /\ fields' = [fields EXCEPT ![s].value = Kept(v)]
              /\ UNCHANGED element_count

\* tactyk_dblock__put, and tactyk_dblock__delete with v = NULL, on a table that
\* has a slot left.
Put(k, v) ==
    /\ pending = Nothing
    /\ element_count < element_capacity
    /\ Store(k, v)
    /\ UNCHANGED <<element_capacity, moving>>

\* Mutant: the table keeps its size.
SameCapacity == element_count

GrownCapacity == 2 * element_count

\* put on a full table, up to the loop of tactyk_dblock__rebuild_table.
StartRebuild(k, v) ==
    /\ pending = Nothing
    /\ element_count = element_capacity
    /\ GrownCapacity <= MaxCapacity
    /\ previous' = fields /\ i' = 0 /\ prev_element_capacity' = element_capacity
    /\ pending' = [key |-> k, value |-> v]
    /\ element_capacity' = GrownCapacity
    /\ fields' = Blank(GrownCapacity)
    /\ element_count' = 0

\* One pass of the loop: put of a live entry into the new fields.
MoveSlot ==
    /\ pending # Nothing /\ i < prev_element_capacity
    /\ i' = i + 1
    /\ IF previous[i].value \notin {Null, PseudoNull}
       THEN /\ element_count < element_capacity
            /\ Store(previous[i].key, previous[i].value)
       ELSE UNCHANGED <<fields, element_count>>
    /\ UNCHANGED <<element_capacity, previous, prev_element_capacity, pending>>

\* The old fields are freed and the interrupted put goes on.
FinishPut ==
    /\ pending # Nothing /\ i = prev_element_capacity
    /\ Store(pending.key, pending.value)
    /\ previous' = Blank(0) /\ i' = 0 /\ prev_element_capacity' = 0
    /\ pending' = Nothing
    /\ UNCHANGED element_capacity

\* tactyk_dblock__reset_table, which every caller asks to overwrite the fields.
ResetTable ==
    /\ pending = Nothing
    /\ element_count' = 0
    /\ fields' = Blank(element_capacity)
    /\ UNCHANGED <<element_capacity, moving>>

Next ==
    \/ \E k \in Key, v \in Value \cup {Null} : Put(k, v) \/ StartRebuild(k, v)
    \/ MoveSlot
    \/ FinishPut
    \/ ResetTable

Spec == Init /\ [][Next]_vars

-----------------------------------------------------------------------------
(* Properties.                                                              *)

Entries == [key : Key \cup {Null}, value : Value \cup {Null, PseudoNull}]

Used(f, n) == {s \in 0 .. n - 1 : f[s].value # Null}

\* Every used slot of f has a key, and no two of them the same key.
KeysUnique(f, n) ==
    /\ \A s \in Used(f, n) : f[s].key \in Key
    /\ \A s, t \in Used(f, n) : f[s].key = f[t].key => s = t

TypeOK ==
    /\ element_capacity \in Nat \ {0}
    /\ element_count \in 0 .. element_capacity
    /\ fields \in [Slots -> Entries]
    /\ prev_element_capacity \in Nat
    /\ i \in 0 .. prev_element_capacity
    /\ previous \in [0 .. prev_element_capacity - 1 -> Entries]
    /\ pending \in [key : Key, value : Value \cup {Null}] \cup {Nothing}

\* Each key occupies one slot, and no slot its probe runs over was never used:
\* table_find always comes to the entry before it comes to a NULL, through any
\* sequence of insertions, deletions, re-insertions and rebuilds.
ProbesComplete ==
    /\ KeysUnique(fields, element_capacity)
    /\ \A s \in Used(fields, element_capacity), t \in Slots :
          LET p == PrefIndex(fields[s].key) IN
          Distance(p, t) < Distance(p, s) => fields[t].value # Null

\* element_count counts the slots that are not NULL, deleted ones included: the
\* condition under which put's two assertions hold, because a table that is not
\* full then has a slot at which any search stops.
CountIsExact == element_count = Cardinality(Used(fields, element_capacity))

\* A rebuild never needs to rebuild: the doubled table has room for each entry
\* it moves and for the put that waits, and no key is moved twice.
RebuildFits ==
    pending # Nothing =>
        /\ prev_element_capacity > 0
        /\ element_capacity = 2 * prev_element_capacity
        /\ element_count <= i
        /\ KeysUnique(previous, prev_element_capacity)
        /\ \A s \in Used(fields, element_capacity) :
              \E t \in Used(previous, i) : previous[t].key = fields[s].key

\* The entry of the old fields that still has to be moved for k, if any.
Unmoved(k) ==
    {s \in i .. prev_element_capacity - 1 :
        previous[s].value \notin {Null, PseudoNull} /\ previous[s].key = k}

Lookup(k) ==
    IF Unmoved(k) # {} THEN previous[CHOOSE s \in Unmoved(k) : TRUE].value ELSE get(k)

AsMap == INSTANCE KeyValueMap WITH map <- [k \in Key |-> Lookup(k)]

\* get returns what was last put, however the slots were reused, deleted and
\* moved in between: the table implements the map.
ImplementsMap == AsMap!Spec
=============================================================================
