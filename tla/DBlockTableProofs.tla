------------------------- MODULE DBlockTableProofs -------------------------
(***************************************************************************)
(* For any keys, values, hash codes and sizes: searches find the entry they *)
(* look for, a rebuild has room, and the table implements the map.          *)
(***************************************************************************)
EXTENDS DBlockTable, FiniteSetTheorems, TLAPS

Taken == Used(fields, element_capacity)

Table == TypeOK /\ ProbesComplete /\ CountIsExact

-----------------------------------------------------------------------------
(* Probe sequences.                                                         *)

LEMMA LeastExists ==
    ASSUME NEW D \in SUBSET Nat, D # {}
    PROVE  \E x \in D : \A y \in D : x <= y
<1>1. PICK x \in D : \A y \in D : ~(<<y, x>> \in OpToRel(<, Nat))
  BY NatLessThanWellFounded, WFMin, Zenon
<1>2. \A y \in D : ~(y < x)
  BY <1>1, Zenon DEF OpToRel
<1> QED
  BY <1>2

LEMMA Distances ==
    ASSUME TypeOK, NEW p \in Slots, NEW s \in Slots, NEW t \in Slots
    PROVE  /\ Distance(p, s) \in 0 .. element_capacity - 1
           /\ Distance(p, s) = Distance(p, t) => s = t
BY DEF TypeOK, Slots, Distance

LEMMA PrefIndexSlot == ASSUME TypeOK, NEW k \in Key PROVE PrefIndex(k) \in Slots
<1>1. Hash[k] \in Nat /\ element_capacity \in Nat \ {0}
  BY TableAssumption DEF TypeOK
<1> QED
  BY <1>1, SMTT(30) DEF PrefIndex, Slots

LEMMA FindFirst ==
    ASSUME TypeOK, NEW k \in Key, \E s \in Slots : Stops(k, s)
    PROVE  table_find(k) \in Slots /\ FirstStop(k, table_find(k))
<1> DEFINE p == PrefIndex(k)
           Stopping == {s \in Slots : Stops(k, s)}
           D == {Distance(p, s) : s \in Stopping}
<1>1. p \in Slots /\ element_capacity \in Nat
  BY PrefIndexSlot DEF TypeOK
<1>2. D \in SUBSET Nat /\ D # {}
  BY <1>1, Distances
<1>3. PICK d \in D : \A e \in D : d <= e
  <2> HIDE DEF D
  <2> QED
    BY <1>2, LeastExists
<1>4. PICK s \in Stopping : d = Distance(p, s)
  OBVIOUS
<1>5. FirstStop(k, s)
  <2> SUFFICES ASSUME NEW t \in Slots, Distance(p, t) < Distance(p, s), Stops(k, t)
               PROVE  FALSE
    BY <1>4 DEF FirstStop
  <2>1. Distance(p, s) <= Distance(p, t)
    BY <1>3, <1>4
  <2>2. Distance(p, s) \in Nat /\ Distance(p, t) \in Nat
    BY <1>1, Distances
  <2> QED
    BY <2>1, <2>2
<1> QED
  BY <1>4, <1>5 DEF table_find

\* The entry of a key is where its search ends.
LEMMA FindEntry ==
    ASSUME TypeOK, ProbesComplete, NEW k \in Key, NEW u \in Taken, fields[u].key = k
    PROVE  table_find(k) = u
<1> DEFINE s == table_find(k)
           p == PrefIndex(k)
<1>1. u \in Slots /\ fields[u].value # Null /\ Stops(k, u)
  BY DEF Taken, Used, Slots, Stops, Equal
<1>2. s \in Slots /\ FirstStop(k, s)
  BY <1>1, FindFirst
<1>3. p \in Slots
  BY PrefIndexSlot
<1> HIDE DEF s
<1> SUFFICES ASSUME s # u PROVE FALSE
  BY DEF s
<1>4. Distance(p, s) < Distance(p, u)
  <2>1. ~(Distance(p, u) < Distance(p, s))
    BY <1>1, <1>2 DEF FirstStop
  <2>2. Distance(p, u) \in Nat /\ Distance(p, s) \in Nat /\ Distance(p, u) # Distance(p, s)
    BY <1>1, <1>2, <1>3, Distances
  <2> QED
    BY <2>1, <2>2
<1>5. fields[s].value # Null
  BY <1>2, <1>4 DEF ProbesComplete, Taken
<1>6. s \in Taken
  BY <1>2, <1>5 DEF Taken, Used, Slots
<1>7. Equal(k, fields[s].key) /\ fields[s].key \in Key
  BY <1>2, <1>5, <1>6 DEF FirstStop, Stops, ProbesComplete, KeysUnique, Taken
<1>8. fields[s].key = k
  BY <1>7, KeysDistinguished
<1> QED
  BY <1>6, <1>8 DEF ProbesComplete, KeysUnique, Taken

\* Without an entry, a search ends nowhere or at a slot that was never used.
LEMMA FindFree ==
    ASSUME TypeOK, ProbesComplete, NEW k \in Key, \A u \in Taken : fields[u].key # k
    PROVE  \/ table_find(k) = -1
           \/ /\ table_find(k) \in Slots /\ FirstStop(k, table_find(k))
              /\ fields[table_find(k)].value = Null
<1> SUFFICES ASSUME \E s \in Slots : Stops(k, s)
             PROVE  /\ table_find(k) \in Slots /\ FirstStop(k, table_find(k))
                    /\ fields[table_find(k)].value = Null
  BY DEF table_find
<1> DEFINE s == table_find(k)
<1>1. s \in Slots /\ FirstStop(k, s)
  BY FindFirst
<1> HIDE DEF s
<1>2. ASSUME fields[s].value # Null PROVE FALSE
  <2>1. s \in Taken
    BY <1>1, <1>2 DEF Taken, Used, Slots
  <2>2. Equal(k, fields[s].key) /\ fields[s].key \in Key
    BY <1>1, <1>2, <2>1 DEF FirstStop, Stops, ProbesComplete, KeysUnique, Taken
  <2> QED
    BY <2>1, <2>2, KeysDistinguished
<1> QED
  BY <1>1, <1>2 DEF s

\* What get returns, in terms of the entries alone.
LEMMA GetEntry ==
    TypeOK /\ ProbesComplete =>
        \A k \in Key :
            /\ \A u \in Taken : fields[u].key = k =>
                  get(k) = IF fields[u].value = PseudoNull THEN Null ELSE fields[u].value
            /\ (\A u \in Taken : fields[u].key # k) => get(k) = Null
<1> SUFFICES ASSUME TypeOK, ProbesComplete, NEW k \in Key
             PROVE  /\ \A u \in Taken : fields[u].key = k =>
                          get(k) = IF fields[u].value = PseudoNull THEN Null ELSE fields[u].value
                    /\ (\A u \in Taken : fields[u].key # k) => get(k) = Null
  OBVIOUS
<1>1. ASSUME NEW u \in Taken, fields[u].key = k
      PROVE  get(k) = IF fields[u].value = PseudoNull THEN Null ELSE fields[u].value
  <2>1. table_find(k) = u /\ u # -1
    BY <1>1, FindEntry DEF Taken, Used, TypeOK
  <2> QED
    BY <2>1 DEF get
<1>2. ASSUME \A u \in Taken : fields[u].key # k PROVE get(k) = Null
  BY <1>2, FindFree DEF get
<1> QED
  BY <1>1, <1>2

-----------------------------------------------------------------------------
(* Storing.                                                                 *)

\* A store overwrites the entry of its key, or gives the key a slot that was never
\* used; it leaves every other entry where it is.
LEMMA StoreEntry ==
    ASSUME Table, NEW k \in Key, NEW v \in Value \cup {Null}, Store(k, v)
    PROVE  \/ \E u \in Taken : /\ fields[u].key = k
                               /\ fields' = [fields EXCEPT ![u].value = Kept(v)]
                               /\ element_count' = element_count
           \/ /\ \A u \in Taken : fields[u].key # k
              /\ v = Null /\ UNCHANGED <<fields, element_count>>
           \/ /\ \A u \in Taken : fields[u].key # k
              /\ v # Null /\ element_count' = element_count + 1
              /\ \E s \in Slots : /\ FirstStop(k, s) /\ fields[s].value = Null
                                  /\ fields' = [fields EXCEPT ![s] = [key |-> k, value |-> v]]
<1> DEFINE s == table_find(k)
<1>1. CASE \E u \in Taken : fields[u].key = k
  <2>1. PICK u \in Taken : fields[u].key = k
    BY <1>1
  <2>2. s = u /\ fields[u].value # Null
    BY <2>1, FindEntry DEF Table, Taken, Used
  <2> HIDE DEF s
  <2>3. fields' = [fields EXCEPT ![u].value = Kept(v)] /\ element_count' = element_count
    BY <2>2 DEF Store, s
  <2> QED
    BY <2>1, <2>3
<1>2. CASE \A u \in Taken : fields[u].key # k
  <2>1. s \in Slots /\ FirstStop(k, s) /\ fields[s].value = Null
    BY <1>2, FindFree DEF Table, Store
  <2>2. \/ v = Null /\ UNCHANGED <<fields, element_count>>
        \/ /\ v # Null /\ element_count' = element_count + 1
           /\ fields' = [fields EXCEPT ![s] = [key |-> k, value |-> v]]
    BY <2>1 DEF Store
  <2> HIDE DEF s
  <2> QED
    BY <1>2, <2>1, <2>2
<1> QED
  BY <1>1, <1>2

\* Only the entry of k changes, to v, and no entry is lost or moved.
OnlyEntryChanged(k, v) ==
    /\ \A s \in Taken : /\ s \in Taken' /\ fields'[s].key = fields[s].key
                        /\ fields[s].key # k => fields'[s].value = fields[s].value
    /\ \A s \in Taken' : \/ fields'[s].key = k /\ fields'[s].value = Kept(v)
                         \/ s \in Taken /\ fields[s].key # k
    /\ v # Null => \E s \in Taken' : fields'[s].key = k

LEMMA TakenFinite == ASSUME TypeOK PROVE IsFiniteSet(Taken) /\ Cardinality(Taken) \in 0 .. element_capacity
<1>1. element_capacity \in Nat /\ Taken \in SUBSET (0 .. element_capacity - 1)
  BY DEF TypeOK, Taken, Used
<1>2. IsFiniteSet(0 .. element_capacity - 1) /\ Cardinality(0 .. element_capacity - 1) = element_capacity
  BY <1>1, FS_Interval
<1>3. IsFiniteSet(Taken) /\ Cardinality(Taken) <= element_capacity
  BY <1>1, <1>2, FS_Subset
<1> QED
  BY <1>1, <1>3, FS_CardinalityType

LEMMA StoreKeeps ==
    ASSUME Table, NEW k \in Key, NEW v \in Value \cup {Null}, Store(k, v),
           UNCHANGED element_capacity
    PROVE  /\ fields' \in [Slots -> Entries] /\ element_count' \in 0 .. element_capacity
           /\ element_count' \in {element_count, element_count + 1}
           /\ ProbesComplete' /\ CountIsExact'
           /\ OnlyEntryChanged(k, v)
<1>1. /\ element_capacity \in Nat \ {0} /\ fields \in [Slots -> Entries]
      /\ element_count \in 0 .. element_capacity /\ element_count = Cardinality(Taken)
      /\ Slots' = Slots /\ Null # PseudoNull /\ Null \notin Key
      /\ Kept(v) \in Value \cup {PseudoNull} /\ Kept(v) # Null
  BY TableAssumption DEF Table, TypeOK, CountIsExact, Taken, Slots, Kept
<1>2. /\ \A u \in Taken : u \in Slots /\ fields[u].key \in Key /\ fields[u].value # Null
      /\ \A u \in Slots : fields[u].value # Null => u \in Taken
      /\ \A u, w \in Taken : fields[u].key = fields[w].key => u = w
  BY DEF Table, ProbesComplete, KeysUnique, Taken, Used, Slots
<1>3. \A l \in Key, p, t \in Slots : PrefIndex(l)' = PrefIndex(l) /\ Distance(p, t)' = Distance(p, t)
  BY DEF PrefIndex, Distance
<1>4. CASE UNCHANGED <<fields, element_count>> /\ v = Null /\ \A u \in Taken : fields[u].key # k
  <2>1. Taken' = Taken
    BY <1>4 DEF Taken, Used
  <2>2. ProbesComplete' /\ CountIsExact'
    BY <1>4 DEF Table, ProbesComplete, CountIsExact, KeysUnique, Used, PrefIndex, Distance, Slots
  <2> QED
    BY <1>1, <1>4, <2>1, <2>2 DEF OnlyEntryChanged
<1>5. ASSUME NEW u \in Taken, fields[u].key = k, fields' = [fields EXCEPT ![u].value = Kept(v)],
             element_count' = element_count
      PROVE  /\ fields' \in [Slots -> Entries] /\ ProbesComplete' /\ CountIsExact'
             /\ OnlyEntryChanged(k, v)
  <2>1. /\ fields'[u].key = k /\ fields'[u].value = Kept(v)
        /\ \A t \in Slots \ {u} : fields'[t] = fields[t]
        /\ fields' \in [Slots -> Entries]
    BY <1>1, <1>2, <1>5 DEF Entries
  <2>2. Taken' = Taken
    <3>1. \A t \in Slots : fields'[t].value # Null <=> fields[t].value # Null
      BY <1>1, <1>2, <2>1
    <3> QED
      BY <1>1, <3>1 DEF Taken, Used, Slots
  <2>3. \A t \in Taken : fields'[t].key = fields[t].key
    BY <1>2, <1>5, <2>1
  <2>4. OnlyEntryChanged(k, v)
    <3>1. \A t \in Taken : t = u \/ (t \in Slots \ {u} /\ fields[t].key # k /\ fields'[t] = fields[t])
      BY <1>2, <1>5, <2>1
    <3>2. \A t \in Taken : \/ fields'[t].key = k /\ fields'[t].value = Kept(v)
                           \/ fields[t].key # k /\ fields'[t].value = fields[t].value
      BY <2>1, <3>1
    <3> QED
      BY <1>5, <2>1, <2>2, <2>3, <3>1, <3>2 DEF OnlyEntryChanged
  <2>5. ProbesComplete'
    <3>1. KeysUnique(fields, element_capacity)'
      BY <1>2, <2>2, <2>3 DEF KeysUnique, Taken
    <3>2. ASSUME NEW s \in Taken, NEW t \in Slots,
                 Distance(PrefIndex(fields[s].key), t) < Distance(PrefIndex(fields[s].key), s)
          PROVE  fields'[t].value # Null
      <4>1. t \in Taken
        BY <1>2, <3>2 DEF Table, ProbesComplete, Taken
      <4> QED
        BY <1>1, <1>2, <2>1, <4>1
    <3>3. \A s \in Taken : PrefIndex(fields[s].key) \in Slots
      BY <1>2, PrefIndexSlot DEF Table
    <3> QED
      BY <1>1, <1>2, <1>3, <2>2, <2>3, <3>1, <3>2, <3>3 DEF ProbesComplete, Taken
  <2>6. CountIsExact'
    BY <1>1, <1>5, <2>2 DEF CountIsExact, Taken
  <2> QED
    BY <2>1, <2>4, <2>5, <2>6
<1>6. ASSUME NEW s \in Slots, FirstStop(k, s), fields[s].value = Null, v # Null,
             fields' = [fields EXCEPT ![s] = [key |-> k, value |-> v]],
             \A u \in Taken : fields[u].key # k, element_count' = element_count + 1
      PROVE  /\ fields' \in [Slots -> Entries] /\ ProbesComplete' /\ CountIsExact'
             /\ element_count' \in 0 .. element_capacity
             /\ OnlyEntryChanged(k, v)
  <2>1. /\ fields'[s].key = k /\ fields'[s].value = v /\ v = Kept(v)
        /\ \A t \in Slots \ {s} : fields'[t] = fields[t]
        /\ fields' \in [Slots -> Entries]
    BY <1>1, <1>6 DEF Entries, Kept
  <2>2. Taken' = Taken \cup {s} /\ s \notin Taken
    <3>1. \A t \in Slots : fields'[t].value # Null <=> fields[t].value # Null \/ t = s
      BY <1>1, <1>6, <2>1
    <3> QED
      BY <1>1, <1>6, <3>1 DEF Taken, Used, Slots
  <2>3. \A t \in Taken : fields'[t] = fields[t] /\ t # s
    BY <1>2, <2>1, <2>2
  <2>4. OnlyEntryChanged(k, v)
    <3>1. \A t \in Taken' : t \in Taken \/ t = s
      BY <2>2
    <3>2. s \in Taken' /\ \A t \in Taken : t \in Taken' /\ fields[t].key # k
      BY <1>6, <2>2
    <3>3. \A t \in Taken : fields'[t].key = fields[t].key /\ fields'[t].value = fields[t].value
      BY <2>3
    <3> HIDE DEF Taken
    <3> QED
      BY <2>1, <3>1, <3>2, <3>3 DEF OnlyEntryChanged
  <2>5. ProbesComplete'
    <3>1. KeysUnique(fields, element_capacity)'
      <4>1. /\ \A r \in Taken : fields[r].key \in Key
            /\ \A r, t \in Taken : fields[r].key = fields[t].key => r = t
        BY <1>2 DEF Table, KeysUnique, Taken
      <4>2. \A r \in Taken' : r = s \/ (r \in Taken /\ fields'[r].key = fields[r].key)
        BY <2>2, <2>3
      <4>3. \A r \in Taken : fields[r].key # k
        BY <1>6
      <4> HIDE DEF Taken
      <4>4. \A r \in Taken' : fields'[r].key \in Key
        BY <2>1, <4>1, <4>2
      <4>5. \A r, t \in Taken' : fields'[r].key = fields'[t].key => r = t
        BY <2>1, <4>1, <4>2, <4>3
      <4> QED
        BY <4>4, <4>5 DEF KeysUnique, Taken
    <3>2. ASSUME NEW r \in Taken, NEW t \in Slots,
                 Distance(PrefIndex(fields[r].key), t) < Distance(PrefIndex(fields[r].key), r)
          PROVE  fields'[t].value # Null
      <4>1. t \in Taken
        BY <1>2, <3>2 DEF Table, ProbesComplete, Taken
      <4> QED
        BY <1>2, <2>3, <4>1
    <3>3. ASSUME NEW t \in Slots, Distance(PrefIndex(k), t) < Distance(PrefIndex(k), s)
          PROVE  fields'[t].value # Null
      <4>1. ~Stops(k, t)
        BY <1>6, <3>3 DEF FirstStop
      <4>2. t \in Taken
        BY <1>2, <4>1 DEF Stops
      <4> QED
        BY <1>2, <2>3, <4>2
    <3>4. PrefIndex(k) \in Slots /\ \A r \in Taken : PrefIndex(fields[r].key) \in Slots
      BY <1>2, PrefIndexSlot DEF Table
    <3>5. ASSUME NEW r \in Taken', NEW t \in Slots,
                 Distance(PrefIndex(fields'[r].key), t) < Distance(PrefIndex(fields'[r].key), r)
          PROVE  fields'[t].value # Null
      BY <2>1, <2>2, <2>3, <3>2, <3>3, <3>5
    <3>6. \A r \in Taken' : r \in Slots /\ fields'[r].key \in Key /\ PrefIndex(fields'[r].key) \in Slots
      BY <1>2, <2>1, <2>2, <2>3, <3>4
    <3> QED
      BY <1>1, <1>3, <3>1, <3>5, <3>6 DEF ProbesComplete, Taken
  <2>6. CountIsExact' /\ element_count' \in 0 .. element_capacity
    <3>1. Cardinality(Taken') = Cardinality(Taken) + 1
      BY <2>2, TakenFinite, FS_AddElement DEF Table
    <3>2. Taken' \in SUBSET (0 .. element_capacity - 1)
      BY DEF Taken, Used
    <3>3. Cardinality(Taken') <= element_capacity
      <4>1. element_capacity \in Nat
        BY <1>1
      <4>2. /\ IsFiniteSet(0 .. element_capacity - 1)
            /\ Cardinality(0 .. element_capacity - 1) = element_capacity
        BY <4>1, FS_Interval
      <4> QED
        BY <4>2, <3>2, FS_Subset
    <3> QED
      BY <1>1, <1>6, <3>1, <3>3 DEF CountIsExact, Taken
  <2> QED
    BY <2>1, <2>4, <2>5, <2>6
<1> QED
  BY <1>1, <1>4, <1>5, <1>6, StoreEntry

-----------------------------------------------------------------------------
(* Every step keeps the table in order.                                     *)

\* Between two operations nothing waits to be moved.
IdleClean == pending = Nothing => prev_element_capacity = 0 /\ i = 0

Inv == Table /\ RebuildFits /\ IdleClean

LEMMA BlankFields ==
    ASSUME NEW n \in Nat
    PROVE  Blank(n) \in [0 .. n - 1 -> Entries] /\ Used(Blank(n), n) = {}
BY DEF Blank, EmptySlot, Entries, Used

\* Empty fields of any size are in order.
LEMMA EmptiedTable ==
    ASSUME NEW n \in Nat \ {0}, element_capacity' = n, fields' = Blank(n), element_count' = 0
    PROVE  /\ fields' \in [Slots' -> Entries] /\ Taken' = {}
           /\ ProbesComplete' /\ CountIsExact'
<1>1. fields' \in [Slots' -> Entries] /\ Used(fields, element_capacity)' = {}
  BY BlankFields DEF Slots, Used
<1>2. ProbesComplete'
  BY <1>1 DEF ProbesComplete, KeysUnique
<1>3. CountIsExact'
  BY <1>1, FS_EmptySet DEF CountIsExact
<1> QED
  BY <1>1, <1>2, <1>3 DEF Taken

LEMMA InitTable == Init => Inv
<1> SUFFICES ASSUME Init PROVE Inv
  OBVIOUS
<1>1. InitialCapacity \in Nat \ {0}
  BY TableAssumption
<1>2. fields \in [Slots -> Entries] /\ Used(fields, element_capacity) = {}
  BY <1>1, BlankFields DEF Init, Slots
<1>3. previous \in [0 .. -1 -> Entries]
  BY BlankFields DEF Init
<1>4. TypeOK
  BY <1>1, <1>2, <1>3 DEF Init, TypeOK
<1>5. ProbesComplete /\ CountIsExact
  BY <1>2, FS_EmptySet DEF Init, ProbesComplete, KeysUnique, CountIsExact
<1> QED
  BY <1>4, <1>5 DEF Init, Inv, Table, RebuildFits, IdleClean

LEMMA PutKeeps ==
    ASSUME Inv, NEW k \in Key, NEW v \in Value \cup {Null}, Put(k, v)
    PROVE  Inv' /\ OnlyEntryChanged(k, v)
<1>1. Store(k, v) /\ UNCHANGED <<element_capacity, previous, i, prev_element_capacity, pending>>
  BY DEF Put, moving
<1>2. /\ fields' \in [Slots -> Entries] /\ element_count' \in 0 .. element_capacity
      /\ ProbesComplete' /\ CountIsExact' /\ OnlyEntryChanged(k, v)
  BY <1>1, StoreKeeps DEF Inv
<1>3. TypeOK'
  BY <1>1, <1>2 DEF Inv, Table, TypeOK, Slots
<1> QED
  BY <1>1, <1>2, <1>3 DEF Put, Inv, Table, RebuildFits, IdleClean

LEMMA StartRebuildKeeps ==
    ASSUME Inv, NEW k \in Key, NEW v \in Value \cup {Null}, StartRebuild(k, v)
    PROVE  Inv' /\ Taken' = {}
<1>1. /\ element_count = element_capacity /\ previous' = fields /\ i' = 0
      /\ prev_element_capacity' = element_capacity
      /\ pending' = [key |-> k, value |-> v]
      /\ element_capacity' = 2 * element_count /\ fields' = Blank(2 * element_count)
      /\ element_count' = 0
  BY DEF StartRebuild, GrownCapacity
<1>2. 2 * element_count \in Nat \ {0} /\ element_capacity \in Nat \ {0}
  BY <1>1 DEF Inv, Table, TypeOK
<1>3. fields' \in [Slots' -> Entries] /\ Taken' = {} /\ ProbesComplete' /\ CountIsExact'
  BY <1>1, <1>2, EmptiedTable
<1>4. previous' \in [0 .. prev_element_capacity' - 1 -> Entries]
  BY <1>1 DEF Inv, Table, TypeOK, Slots
<1>5. TypeOK'
  BY <1>1, <1>2, <1>3, <1>4 DEF TypeOK
<1>6. RebuildFits'
  <2>1. KeysUnique(previous, prev_element_capacity)'
    BY <1>1 DEF Inv, Table, ProbesComplete, KeysUnique, Used
  <2> QED
    BY <1>1, <1>2, <1>3, <2>1 DEF RebuildFits, Taken
<1>7. IdleClean'
  BY <1>1, TableAssumption DEF IdleClean
<1> QED
  BY <1>3, <1>5, <1>6, <1>7 DEF Inv, Table

\* An entry that the loop moves is one that was live.
LEMMA MovedEntry ==
    ASSUME Inv, MoveSlot, previous[i].value \notin {Null, PseudoNull}
    PROVE  /\ i \in Used(previous, i + 1) /\ i \in Used(previous, prev_element_capacity)
           /\ previous[i].key \in Key /\ previous[i].value \in Value
<1>1. i \in 0 .. prev_element_capacity - 1 /\ pending # Nothing /\ i \in Nat
  BY DEF MoveSlot, Inv, Table, TypeOK
<1>2. previous[i] \in Entries
  BY <1>1 DEF Inv, Table, TypeOK
<1>3. i \in Used(previous, i + 1) /\ i \in Used(previous, prev_element_capacity)
  BY <1>1 DEF Used
<1> QED
  BY <1>1, <1>2, <1>3 DEF Inv, RebuildFits, KeysUnique, Entries

LEMMA MoveSlotKeeps ==
    ASSUME Inv, MoveSlot
    PROVE  /\ Inv'
           /\ \/ UNCHANGED fields /\ previous[i].value \in {Null, PseudoNull}
              \/ /\ previous[i].value \notin {Null, PseudoNull}
                 /\ OnlyEntryChanged(previous[i].key, previous[i].value)
<1>1. /\ pending # Nothing /\ i < prev_element_capacity /\ i' = i + 1
      /\ UNCHANGED <<element_capacity, previous, prev_element_capacity, pending>>
      /\ i \in Nat /\ prev_element_capacity \in Nat /\ element_count \in Nat
      /\ element_capacity \in Nat
  BY DEF MoveSlot, Inv, Table, TypeOK
<1>2. \A t \in Used(previous, i) : t \in Used(previous, i + 1)
  BY <1>1 DEF Used
<1>3. CASE previous[i].value \in {Null, PseudoNull}
  <2>1. UNCHANGED <<fields, element_count>>
    BY <1>3 DEF MoveSlot
  <2>2. Slots' = Slots
    BY <1>1 DEF Slots
  <2>3. TypeOK'
    BY <1>1, <2>1, <2>2 DEF Inv, Table, TypeOK
  <2>4. ProbesComplete' /\ CountIsExact'
    BY <1>1, <2>1, <2>2 DEF Inv, Table, ProbesComplete, CountIsExact, KeysUnique, Used, PrefIndex, Distance
  <2>5. \A s \in Taken : \E t \in Used(previous, i + 1) : previous[t].key = fields[s].key
    BY <1>1, <1>2 DEF Inv, RebuildFits, Taken
  <2>6. RebuildFits'
    BY <1>1, <2>1, <2>5 DEF Inv, RebuildFits, KeysUnique, Used, Taken
  <2>7. IdleClean'
    BY <1>1 DEF IdleClean
  <2> QED
    BY <1>3, <2>1, <2>3, <2>4, <2>6, <2>7 DEF Inv, Table
<1>4. CASE previous[i].value \notin {Null, PseudoNull}
  <2> DEFINE k == previous[i].key
             v == previous[i].value
  <2>1. Store(k, v) /\ k \in Key /\ v \in Value \cup {Null}
    BY <1>4, MovedEntry DEF MoveSlot
  <2>2. i \in Used(previous, i + 1)
    BY <1>4, MovedEntry
  <2> HIDE DEF v
  <2>3. /\ fields' \in [Slots -> Entries] /\ element_count' \in 0 .. element_capacity
        /\ element_count' \in {element_count, element_count + 1}
        /\ ProbesComplete' /\ CountIsExact' /\ OnlyEntryChanged(k, v)
    BY <1>1, <2>1, StoreKeeps DEF Inv
  <2>4. TypeOK'
    BY <1>1, <2>3 DEF Inv, Table, TypeOK, Slots
  <2>5. \A s \in Taken' : \E t \in Used(previous, i + 1) : previous[t].key = fields'[s].key
    <3> SUFFICES ASSUME NEW s \in Taken'
                 PROVE  \E t \in Used(previous, i + 1) : previous[t].key = fields'[s].key
      OBVIOUS
    <3>1. CASE fields'[s].key = k
      BY <3>1, <2>2
    <3>2. CASE s \in Taken /\ fields'[s].key = fields[s].key
      BY <3>2, <1>1, <1>2 DEF Inv, RebuildFits, Taken
    <3> QED
      BY <2>3, <3>1, <3>2 DEF OnlyEntryChanged
  <2>6. RebuildFits'
    <3>1. Used(previous, i)' = Used(previous, i + 1) /\ KeysUnique(previous, prev_element_capacity)'
      BY <1>1 DEF Inv, RebuildFits, KeysUnique, Used
    <3>2. element_count' <= i'
      BY <1>1, <2>3 DEF Inv, RebuildFits
    <3>3. prev_element_capacity' > 0 /\ element_capacity' = 2 * prev_element_capacity'
      BY <1>1 DEF Inv, RebuildFits
    <3>4. \A s \in Taken' : \E t \in Used(previous, i)' : previous'[t].key = fields'[s].key
      BY <1>1, <2>5, <3>1
    <3> QED
      BY <3>1, <3>2, <3>3, <3>4 DEF RebuildFits, Taken
  <2>7. IdleClean'
    BY <1>1 DEF IdleClean
  <2> QED
    BY <1>4, <2>3, <2>4, <2>6, <2>7 DEF Inv, Table, v
<1> QED
  BY <1>3, <1>4

LEMMA FinishPutKeeps ==
    ASSUME Inv, FinishPut
    PROVE  /\ Inv' /\ pending.key \in Key /\ pending.value \in Value \cup {Null}
           /\ OnlyEntryChanged(pending.key, pending.value)
<1>1. /\ pending # Nothing /\ Store(pending.key, pending.value)
      /\ previous' = Blank(0) /\ i' = 0 /\ prev_element_capacity' = 0 /\ pending' = Nothing
      /\ UNCHANGED element_capacity
  BY DEF FinishPut
<1>2. pending.key \in Key /\ pending.value \in Value \cup {Null}
  BY <1>1 DEF Inv, Table, TypeOK
<1>3. /\ fields' \in [Slots -> Entries] /\ element_count' \in 0 .. element_capacity
      /\ ProbesComplete' /\ CountIsExact' /\ OnlyEntryChanged(pending.key, pending.value)
  BY <1>1, <1>2, StoreKeeps DEF Inv
<1>4. previous' \in [0 .. -1 -> Entries]
  BY <1>1, BlankFields
<1>5. TypeOK'
  BY <1>1, <1>3, <1>4 DEF Inv, Table, TypeOK, Slots
<1> QED
  BY <1>1, <1>2, <1>3, <1>5 DEF Inv, Table, RebuildFits, IdleClean

LEMMA ResetKeeps == ASSUME Inv, ResetTable PROVE Inv' /\ Taken' = {}
<1>1. /\ pending = Nothing /\ element_count' = 0 /\ fields' = Blank(element_capacity)
      /\ UNCHANGED <<element_capacity, previous, i, prev_element_capacity, pending>>
  BY DEF ResetTable, moving
<1>2. fields' \in [Slots' -> Entries] /\ Taken' = {} /\ ProbesComplete' /\ CountIsExact'
  BY <1>1, EmptiedTable DEF Inv, Table, TypeOK
<1>3. TypeOK'
  BY <1>1, <1>2 DEF Inv, Table, TypeOK
<1> QED
  BY <1>1, <1>2, <1>3 DEF Inv, Table, RebuildFits, IdleClean

LEMMA StutterKeeps == ASSUME Inv, UNCHANGED vars PROVE Inv'
<1>1. /\ element_capacity' = element_capacity /\ element_count' = element_count
      /\ fields' = fields /\ previous' = previous /\ i' = i
      /\ prev_element_capacity' = prev_element_capacity /\ pending' = pending
  BY DEF vars, moving
<1>2. TypeOK' = TypeOK
  BY <1>1 DEF TypeOK, Slots
<1>3. ProbesComplete' = ProbesComplete
  BY <1>1 DEF ProbesComplete, KeysUnique, Used, Slots, PrefIndex, Distance
<1>4. CountIsExact' = CountIsExact
  BY <1>1 DEF CountIsExact, Used
<1>5. RebuildFits' = RebuildFits
  BY <1>1 DEF RebuildFits, KeysUnique, Used, Slots
<1>6. IdleClean' = IdleClean
  BY <1>1 DEF IdleClean
<1> QED
  BY <1>2, <1>3, <1>4, <1>5, <1>6 DEF Inv, Table

LEMMA InvKept == Spec => []Inv
<1>1. Inv /\ [Next]_vars => Inv'
  BY PutKeeps, StartRebuildKeeps, MoveSlotKeeps, FinishPutKeeps, ResetKeeps, StutterKeeps DEF Next
<1> QED
  BY InitTable, <1>1, PTL DEF Spec

\* Whatever is put, deleted and put again, fields, counters and the interrupted put
\* keep their shape.
THEOREM TableTyped == Spec => []TypeOK
<1>1. Inv => TypeOK
  BY DEF Inv, Table
<1> QED
  BY <1>1, InvKept, PTL

\* For any keys and hash codes: a search never comes to a slot that was never used
\* before it comes to the entry it looks for.
THEOREM SearchesComplete == Spec => []ProbesComplete
<1>1. Inv => ProbesComplete
  BY DEF Inv, Table
<1> QED
  BY <1>1, InvKept, PTL

\* The counter is the number of slots in use, deleted entries included.
THEOREM CountKept == Spec => []CountIsExact
<1>1. Inv => CountIsExact
  BY DEF Inv, Table
<1> QED
  BY <1>1, InvKept, PTL

\* For a table of any size, a rebuild has room for what it moves and for the put
\* that waits, so put never recurses into a second rebuild.
THEOREM RebuildsFit == Spec => []RebuildFits
<1>1. Inv => RebuildFits
  BY DEF Inv
<1> QED
  BY <1>1, InvKept, PTL

-----------------------------------------------------------------------------
(* The table implements the map.                                            *)

\* GetEntry of all keys, as a formula that can be primed.
GetsEntries ==
    \A k \in Key :
        /\ \A u \in Taken : fields[u].key = k =>
               get(k) = IF fields[u].value = PseudoNull THEN Null ELSE fields[u].value
        /\ (\A u \in Taken : fields[u].key # k) => get(k) = Null

LEMMA GetEntries == TypeOK /\ ProbesComplete => GetsEntries
BY GetEntry DEF GetsEntries

\* GetEntry, of the state after a step.
LEMMA GetEntryNext ==
    ASSUME TypeOK', ProbesComplete', NEW k \in Key
    PROVE  /\ \A u \in Taken' : fields'[u].key = k =>
                 get(k)' = IF fields'[u].value = PseudoNull THEN Null ELSE fields'[u].value
           /\ (\A u \in Taken' : fields'[u].key # k) => get(k)' = Null
<1>1. TypeOK' /\ ProbesComplete' => GetsEntries'
  BY GetEntries, PTL
<1> QED
  BY <1>1 DEF GetsEntries

LEMMA GetsAfterStore ==
    ASSUME Inv, Inv', NEW k \in Key, NEW v \in Value \cup {Null}, OnlyEntryChanged(k, v)
    PROVE  \A l \in Key : get(l)' = IF l = k THEN v ELSE get(l)
<1> SUFFICES ASSUME NEW l \in Key PROVE get(l)' = IF l = k THEN v ELSE get(l)
  OBVIOUS
<1> USE DEF Inv, Table
<1>1. v # PseudoNull /\ Null # PseudoNull
  BY TableAssumption
<1>2. CASE l = k
  <2>1. \A u \in Taken' : fields'[u].key = k => fields'[u].value = Kept(v)
    BY DEF OnlyEntryChanged
  <2>2. CASE \E u \in Taken' : fields'[u].key = k
    BY <1>1, <1>2, <2>1, <2>2, GetEntryNext DEF Kept
  <2>3. CASE \A u \in Taken' : fields'[u].key # k
    BY <1>2, <2>3, GetEntryNext DEF OnlyEntryChanged
  <2> QED
    BY <2>2, <2>3
<1>3. CASE l # k
  <2>1. CASE \E u \in Taken : fields[u].key = l
    <3>1. PICK u \in Taken : fields[u].key = l
      BY <2>1
    <3>2. u \in Taken' /\ fields'[u].key = l /\ fields'[u].value = fields[u].value
      BY <1>3, <3>1 DEF OnlyEntryChanged
    <3> QED
      BY <1>3, <3>1, <3>2, GetEntry, GetEntryNext
  <2>2. CASE \A u \in Taken : fields[u].key # l
    <3>1. \A u \in Taken' : fields'[u].key # l
      BY <1>3, <2>2 DEF OnlyEntryChanged
    <3> QED
      BY <1>3, <2>2, <3>1, GetEntry, GetEntryNext
  <2> QED
    BY <2>1, <2>2
<1> QED
  BY <1>2, <1>3

LEMMA GetsOfSameFields ==
    ASSUME Inv, Inv', UNCHANGED <<fields, element_capacity>>
    PROVE  \A l \in Key : get(l)' = get(l)
<1> SUFFICES ASSUME NEW l \in Key PROVE get(l)' = get(l)
  OBVIOUS
<1>1. Taken' = Taken
  BY DEF Taken, Used
<1>2. CASE \E u \in Taken : fields[u].key = l
  BY <1>1, <1>2, GetEntry, GetEntryNext DEF Inv, Table
<1>3. CASE \A u \in Taken : fields[u].key # l
  BY <1>1, <1>3, GetEntry, GetEntryNext DEF Inv, Table
<1> QED
  BY <1>2, <1>3

LEMMA GetsOfBlank ==
    ASSUME Inv', Taken' = {}
    PROVE  \A l \in Key : get(l)' = Null
BY GetEntryNext DEF Inv, Table

\* Between operations, what is stored is what get returns.
LooksIdle == \A l \in Key : i = prev_element_capacity => Lookup(l) = get(l)

LEMMA LookupIdle == Inv => LooksIdle
<1> SUFFICES ASSUME Inv, NEW l \in Key, i = prev_element_capacity PROVE Lookup(l) = get(l)
  BY DEF LooksIdle
<1>1. Unmoved(l) = {}
  BY DEF Unmoved, Inv, Table, TypeOK
<1> QED
  BY <1>1 DEF Lookup

LEMMA LookupIdleNext ==
    ASSUME Inv', i' = prev_element_capacity', NEW l \in Key
    PROVE  Lookup(l)' = get(l)'
<1>1. Inv' => LooksIdle'
  BY LookupIdle, PTL
<1> QED
  BY <1>1 DEF LooksIdle

LEMMA PutMaps ==
    ASSUME Inv, Inv', NEW k \in Key, NEW v \in Value \cup {Null}, Put(k, v)
    PROVE  AsMap!Put(k, v)
<1>1. i = prev_element_capacity /\ i' = prev_element_capacity'
  BY DEF Put, Inv, IdleClean, moving
<1>2. OnlyEntryChanged(k, v)
  BY PutKeeps
<1>3. \A l \in Key : Lookup(l)' = IF l = k THEN v ELSE Lookup(l)
  BY <1>1, <1>2, LookupIdle, LookupIdleNext, GetsAfterStore DEF LooksIdle
<1> QED
  BY <1>3 DEF AsMap!Put

LEMMA ResetMaps == ASSUME Inv, Inv', ResetTable PROVE AsMap!Clear
<1>1. i' = prev_element_capacity' /\ Taken' = {}
  BY ResetKeeps DEF ResetTable, Inv, IdleClean, moving
<1>2. \A l \in Key : Lookup(l)' = Null
  BY <1>1, LookupIdleNext, GetsOfBlank
<1> QED
  BY <1>2 DEF AsMap!Clear

LEMMA FinishPutMaps == ASSUME Inv, Inv', FinishPut PROVE AsMap!Put(pending.key, pending.value)
<1>1. i = prev_element_capacity /\ i' = prev_element_capacity'
  BY DEF FinishPut
<1>2. /\ pending.key \in Key /\ pending.value \in Value \cup {Null}
      /\ OnlyEntryChanged(pending.key, pending.value)
  BY FinishPutKeeps
<1>3. \A l \in Key : Lookup(l)' = IF l = pending.key THEN pending.value ELSE Lookup(l)
  BY <1>1, <1>2, LookupIdle, LookupIdleNext, GetsAfterStore DEF LooksIdle
<1> QED
  BY <1>3 DEF AsMap!Put

\* Starting a rebuild hides every live entry from get and shows it to Lookup.
LEMMA StartRebuildMaps ==
    ASSUME Inv, Inv', NEW k \in Key, NEW v \in Value \cup {Null}, StartRebuild(k, v)
    PROVE  \A l \in Key : Lookup(l)' = Lookup(l)
<1> SUFFICES ASSUME NEW l \in Key PROVE Lookup(l)' = get(l)
  <2>1. i = prev_element_capacity
    BY DEF StartRebuild, Inv, IdleClean
  <2> QED
    BY <2>1, LookupIdle DEF LooksIdle
<1>1. /\ previous' = fields /\ i' = 0 /\ prev_element_capacity' = element_capacity
      /\ Taken' = {}
  BY StartRebuildKeeps DEF StartRebuild
<1>2. Unmoved(l)' = {s \in Taken : fields[s].value # PseudoNull /\ fields[s].key = l}
  BY <1>1 DEF Unmoved, Taken, Used
<1>3. CASE Unmoved(l)' = {}
  <2>1. get(l)' = Null
    BY <1>1, GetsOfBlank
  <2>2. get(l) = Null
    <3>1. CASE \E u \in Taken : fields[u].key = l
      BY <1>2, <1>3, <3>1, GetEntry DEF Inv, Table
    <3>2. CASE \A u \in Taken : fields[u].key # l
      BY <3>2, GetEntry DEF Inv, Table
    <3> QED
      BY <3>1, <3>2
  <2> QED
    BY <1>3, <2>1, <2>2 DEF Lookup
<1>4. CASE Unmoved(l)' # {}
  <2> DEFINE u == CHOOSE s \in Unmoved(l)' : TRUE
  <2>1. u \in Taken /\ fields[u].value # PseudoNull /\ fields[u].key = l
    BY <1>2, <1>4
  <2>2. Lookup(l)' = fields[u].value
    BY <1>1, <1>4 DEF Lookup
  <2> HIDE DEF u
  <2>3. get(l) = fields[u].value
    BY <2>1, GetEntry DEF Inv, Table
  <2> QED
    BY <2>2, <2>3
<1> QED
  BY <1>3, <1>4

LEMMA MoveSlotMaps ==
    ASSUME Inv, Inv', MoveSlot
    PROVE  \A l \in Key : Lookup(l)' = Lookup(l)
<1> SUFFICES ASSUME NEW l \in Key PROVE Lookup(l)' = Lookup(l)
  OBVIOUS
<1>1. /\ i' = i + 1 /\ i \in 0 .. prev_element_capacity - 1 /\ prev_element_capacity \in Nat
      /\ UNCHANGED <<element_capacity, previous, prev_element_capacity>>
  BY DEF MoveSlot, Inv, Table, TypeOK
<1>2. \A s \in Int : s \in i .. prev_element_capacity - 1 <=>
                        s = i \/ s \in i + 1 .. prev_element_capacity - 1
  BY <1>1
<1>3. CASE previous[i].value \in {Null, PseudoNull}
  <2>1. Unmoved(l)' = Unmoved(l)
    BY <1>1, <1>2, <1>3 DEF Unmoved
  <2>2. UNCHANGED fields
    BY <1>3, MoveSlotKeeps
  <2>3. get(l)' = get(l)
    BY <1>1, <2>2, GetsOfSameFields
  <2> QED
    BY <1>1, <2>1, <2>3 DEF Lookup
<1>4. CASE previous[i].value \notin {Null, PseudoNull}
  <2>1. /\ OnlyEntryChanged(previous[i].key, previous[i].value)
        /\ previous[i].key \in Key /\ previous[i].value \in Value
        /\ i \in Used(previous, prev_element_capacity)
    BY <1>4, MoveSlotKeeps, MovedEntry
  <2>2. get(l)' = IF l = previous[i].key THEN previous[i].value ELSE get(l)
    BY <2>1, GetsAfterStore
  <2>3. CASE l = previous[i].key
    <3>1. \A s \in i .. prev_element_capacity - 1 :
             previous[s].value \notin {Null, PseudoNull} /\ previous[s].key = l => s = i
      <4> SUFFICES ASSUME NEW s \in i .. prev_element_capacity - 1,
                          previous[s].value # Null, previous[s].key = l
                   PROVE  s = i
        OBVIOUS
      <4>1. s \in Used(previous, prev_element_capacity)
        BY <1>1 DEF Used
      <4>2. KeysUnique(previous, prev_element_capacity)
        BY DEF MoveSlot, Inv, RebuildFits
      <4> QED
        BY <2>1, <2>3, <4>1, <4>2 DEF KeysUnique
    <3>2. Unmoved(l) = {i}
      BY <1>1, <1>4, <2>3, <3>1 DEF Unmoved
    <3>3. Unmoved(l)' = {}
      BY <1>1, <1>2, <3>1 DEF Unmoved
    <3>4. Lookup(l)' = previous[i].value
      BY <2>2, <2>3, <3>3 DEF Lookup
    <3>5. Lookup(l) = previous[i].value
      BY <3>2 DEF Lookup
    <3> QED
      BY <3>4, <3>5
  <2>4. CASE l # previous[i].key
    <3>1. Unmoved(l)' = Unmoved(l)
      BY <1>1, <1>2, <2>4 DEF Unmoved
    <3> QED
      BY <1>1, <2>2, <2>4, <3>1 DEF Lookup
  <2> QED
    BY <2>3, <2>4
<1> QED
  BY <1>3, <1>4

\* A table made for any keys behaves as a map from keys to values: each step is
\* one of the map's, or changes nothing that get or a finished rebuild would show.
THEOREM TableIsMap == Spec => ImplementsMap
<1>1. Init => AsMap!Init
  <2> SUFFICES ASSUME Init, NEW l \in Key PROVE Lookup(l) = Null
    BY DEF AsMap!Init
  <2>1. Inv /\ i = prev_element_capacity
    BY InitTable DEF Init
  <2>2. Taken = {}
    BY TableAssumption, BlankFields DEF Init, Taken
  <2> QED
    BY <2>1, <2>2, LookupIdle, GetEntry DEF Inv, Table, LooksIdle
<1>2. Inv /\ Inv' /\ [Next]_vars => [AsMap!Next]_([k \in Key |-> Lookup(k)])
  <2> SUFFICES ASSUME Inv, Inv', [Next]_vars
               PROVE  AsMap!Next \/ UNCHANGED [k \in Key |-> Lookup(k)]
    OBVIOUS
  <2>1. ASSUME NEW k \in Key, NEW v \in Value \cup {Null}, Put(k, v) PROVE AsMap!Next
    BY <2>1, PutMaps DEF AsMap!Next
  <2>2. ASSUME NEW k \in Key, NEW v \in Value \cup {Null}, StartRebuild(k, v)
        PROVE  UNCHANGED [l \in Key |-> Lookup(l)]
    BY <2>2, StartRebuildMaps
  <2>3. CASE MoveSlot
    BY <2>3, MoveSlotMaps
  <2>4. CASE FinishPut
    BY <2>4, FinishPutMaps, FinishPutKeeps DEF AsMap!Next
  <2>5. CASE ResetTable
    BY <2>5, ResetMaps DEF AsMap!Next
  <2>6. CASE UNCHANGED vars
    <3>1. UNCHANGED <<fields, element_capacity, previous, i, prev_element_capacity>>
      BY <2>6 DEF vars, moving
    <3>2. \A l \in Key : get(l)' = get(l) /\ Unmoved(l)' = Unmoved(l)
      BY <3>1, GetsOfSameFields DEF Unmoved
    <3>3. ASSUME NEW l \in Key PROVE Lookup(l)' = Lookup(l)
      <4>1. get(l)' = get(l) /\ Unmoved(l)' = Unmoved(l) /\ previous' = previous
        BY <3>1, <3>2
      <4> QED
        BY <4>1 DEF Lookup
    <3> QED
      BY <3>3
  <2> QED
    BY <2>1, <2>2, <2>3, <2>4, <2>5, <2>6 DEF Next
<1> QED
  BY <1>1, <1>2, InvKept, PTL DEF Spec, ImplementsMap, AsMap!Spec
=============================================================================
