-------------------------- MODULE DBlockPoolProofs --------------------------
(***************************************************************************)
(* What the operations on a pool of blocks return and preserve, for any    *)
(* capacity and any contents: no block is handed out twice, what a block   *)
(* refers to lives as long as it does, and lists end.                      *)
(***************************************************************************)
EXTENDS DBlockPool, FiniteSetTheorems, SequenceTheorems, WellFoundedInduction, TLAPS

Fields == [key : Blocks, value : Nat]

\* A block whose contents are elements of V.
WellShaped(d) ==
    /\ d.type = "NONE" => d = Disposed
    /\ d.type \in {"STRING", "EXTERNAL"} => d.content # <<>>
    /\ d.type = "TABLE" => d.content \in Seq(Fields)
BlocksOf(V) ==
    {d \in [type : {"NONE", "STRING", "EXTERNAL", "UNSPECIFIED", "TABLE"}, persistence_code : Nat,
            self_managed : BOOLEAN, content : Seq(V), next : Blocks \cup {Null}, child : Blocks \cup {Null},
            token : Blocks \cup {Null}, store : Blocks \cup {Null}] : WellShaped(d)}
PoolsOf(V) == [db : [Blocks -> BlocksOf(V)], stack : Seq(Blocks)]

Live(p, b) == p.db[b].type # "NONE"

\* The stack of free blocks, without counting.
FreeStack(p) ==
    /\ \A i, j \in 1 .. Len(p.stack) : p.stack[i] = p.stack[j] => i = j
    /\ \A b \in Blocks : ~Live(p, b) <=> \E i \in 1 .. Len(p.stack) : p.stack[i] = b

LinksLive(p) == \A b \in Blocks : \A c \in Linked(p, b) \cup Keys(p, b) : Live(p, c)

\* No list of blocks returns to where it was: a rank decreases along it.
ListsEnd(p) ==
    \E rank \in [Blocks -> Nat], m \in Nat : \A b \in Blocks :
        /\ rank[b] <= m
        /\ p.db[b].next # Null => rank[p.db[b].next] < rank[b]

Sound(V, p) == p \in PoolsOf(V) /\ FreeStack(p) /\ LinksLive(p) /\ LinksSurvive(p) /\ ListsEnd(p)

\* A block that an operation leaves alone, save for its persistence code.
Stays(p, q, b) ==
    /\ q.db[b].type = p.db[b].type /\ q.db[b].content = p.db[b].content /\ q.db[b].self_managed = p.db[b].self_managed
    /\ q.db[b].next = p.db[b].next /\ q.db[b].child = p.db[b].child
    /\ q.db[b].token = p.db[b].token /\ q.db[b].store = p.db[b].store
    /\ q.db[b].persistence_code >= p.db[b].persistence_code

-----------------------------------------------------------------------------
\* A pool of blocks is made of blocks.
LEMMA BlockTypes ==
    ASSUME NEW V, NEW p \in PoolsOf(V)
    PROVE  /\ \A b \in Blocks :
                /\ p.db[b] \in BlocksOf(V) /\ WellShaped(p.db[b])
                /\ p.db[b].type \in {"NONE", "STRING", "EXTERNAL", "UNSPECIFIED", "TABLE"}
                /\ p.db[b].persistence_code \in Nat
                /\ p.db[b].content \in Seq(V)
                /\ p.db[b].next \in Blocks \cup {Null}
                /\ Linked(p, b) \in SUBSET Blocks
                /\ Keys(p, b) \in SUBSET Blocks
           /\ p.stack \in Seq(Blocks)
           /\ Len(p.stack) \in Nat
           /\ \A i \in 1 .. Len(p.stack) : p.stack[i] \in Blocks
  <1>1. p.db \in [Blocks -> BlocksOf(V)] /\ p.stack \in Seq(Blocks)
    BY DEF PoolsOf
  <1>2. ASSUME NEW b \in Blocks
        PROVE  /\ p.db[b] \in BlocksOf(V) /\ WellShaped(p.db[b])
               /\ p.db[b].type \in {"NONE", "STRING", "EXTERNAL", "UNSPECIFIED", "TABLE"}
               /\ p.db[b].persistence_code \in Nat
               /\ p.db[b].content \in Seq(V)
               /\ p.db[b].next \in Blocks \cup {Null} /\ p.db[b].child \in Blocks \cup {Null}
               /\ p.db[b].token \in Blocks \cup {Null} /\ p.db[b].store \in Blocks \cup {Null}
    <2>1. p.db[b] \in BlocksOf(V)
      BY <1>1
    <2>2. QED
      BY <2>1 DEF BlocksOf
  <1>3. ASSUME NEW b \in Blocks
        PROVE  Keys(p, b) \in SUBSET Blocks
    <2>1. CASE p.db[b].type = "TABLE"
      <3>1. p.db[b].content \in Seq(Fields)
        BY <2>1, <1>2 DEF WellShaped
      <3>2. ASSUME NEW i \in DOMAIN p.db[b].content
            PROVE  p.db[b].content[i].key \in Blocks
        <4>1. p.db[b].content[i] \in Fields
          BY <3>1, LenProperties, ElementOfSeq
        <4>2. QED
          BY <4>1 DEF Fields
      <3>3. QED
        BY <3>2, <2>1 DEF Keys
    <2>2. QED
      BY <2>1 DEF Keys
  <1>4. QED
    BY <1>1, <1>2, <1>3, LenProperties, ElementOfSeq DEF Linked

\* Counting the free blocks and listing them each once come to the same.
LEMMA StackIsExact ==
    ASSUME NEW V, NEW p \in PoolsOf(V), FreeStack(p)
    PROVE  StackExact(p)
  <1> DEFINE D == 1 .. Len(p.stack)
             R == {p.stack[i] : i \in DOMAIN p.stack}
  <1>1. Len(p.stack) \in Nat /\ DOMAIN p.stack = D /\ p.stack \in [D -> Blocks]
    BY BlockTypes, LenProperties
  <1>2. p.stack \in Surjection(D, R) /\ p.stack \in Injection(D, R)
    <2>1. p.stack \in [D -> R]
      BY <1>1
    <2>2. \A i, j \in D : p.stack[i] = p.stack[j] => i = j
      BY DEF FreeStack
    <2>3. \A r \in R : \E i \in D : p.stack[i] = r
      BY <1>1
    <2>4. p.stack \in Surjection(D, R)
      BY <2>1, <2>3 DEF Surjection
    <2>5. QED
      BY <2>1, <2>2, <2>4, ZenonT(40) DEF Injection, IsInjective
  <1>3. IsFiniteSet(D) /\ Cardinality(D) = Len(p.stack)
    <2>1. IsFiniteSet(D) /\ Cardinality(D) = IF 1 > Len(p.stack) THEN 0 ELSE Len(p.stack) - 1 + 1
      BY <1>1, FS_Interval
    <2>2. QED
      BY <2>1, <1>1
  <1>4. Cardinality(R) = Len(p.stack)
    BY <1>2, <1>3, FS_Surjection
  <1>5. R = {b \in Blocks : p.db[b].type = "NONE"}
    BY <1>1 DEF FreeStack, Live
  <1>6. QED
    BY <1>4, <1>5 DEF StackExact

\* An allocation returns blocks that were free, each once.
LEMMA TopIsFree ==
    ASSUME NEW V, NEW p \in PoolsOf(V), FreeStack(p), NEW n \in Nat, Room(p, n)
    PROVE  /\ \A i \in 1 .. n : Top(p, i) \in Blocks /\ ~Live(p, Top(p, i)) /\ Top(p, i) # Null
           /\ \A i, j \in 1 .. n : Top(p, i) = Top(p, j) => i = j
  <1>1. Len(p.stack) \in Nat /\ \A i \in 1 .. Len(p.stack) : p.stack[i] \in Blocks
    BY BlockTypes
  <1>2. \A i \in 1 .. n : Len(p.stack) + 1 - i \in 1 .. Len(p.stack)
    BY <1>1 DEF Room
  <1>3. \A b \in Blocks : b # Null
    BY CapacityAssumption DEF Blocks, Null
  <1>4. \A i \in 1 .. n : Top(p, i) \in Blocks /\ ~Live(p, Top(p, i)) /\ Top(p, i) # Null
    BY <1>1, <1>2, <1>3 DEF FreeStack, Top
  <1>5. ASSUME NEW i \in 1 .. n, NEW j \in 1 .. n, Top(p, i) = Top(p, j)
        PROVE  i = j
    <2>1. Len(p.stack) + 1 - i = Len(p.stack) + 1 - j
      BY <1>2, <1>5 DEF FreeStack, Top
    <2>2. QED
      BY <2>1, <1>1
  <1>6. QED
    BY <1>4, <1>5

\* Taking blocks takes them off the top of the stack and fills exactly those.
LEMMA TakeResult ==
    ASSUME NEW V, NEW p \in PoolsOf(V), FreeStack(p), NEW new \in Seq(BlocksOf(V)), Room(p, Len(new)),
           \A i \in 1 .. Len(new) : new[i].type # "NONE"
    PROVE  /\ Take(p, new) \in PoolsOf(V)
           /\ FreeStack(Take(p, new))
           /\ \A i \in 1 .. Len(new) : Take(p, new).db[Top(p, i)] = new[i]
           /\ \A b \in Blocks : (\A i \in 1 .. Len(new) : b # Top(p, i)) => Take(p, new).db[b] = p.db[b]
           /\ \A b \in Blocks : Live(p, b) => Take(p, new).db[b] = p.db[b]
           /\ Len(Take(p, new).stack) = Len(p.stack) - Len(new)
           /\ \A i \in 1 .. Len(p.stack) - Len(new) : Top(Take(p, new), i) = Top(p, Len(new) + i)
  <1> DEFINE q == Take(p, new)
             n == Len(new)
             len == Len(p.stack)
  <1>1. n \in Nat /\ DOMAIN new = 1 .. n /\ \A i \in 1 .. n : new[i] \in BlocksOf(V)
    BY LenProperties, ElementOfSeq
  <1>2. len \in Nat /\ n <= len /\ p.stack \in Seq(Blocks) /\ \A i \in 1 .. len : p.stack[i] \in Blocks
    BY BlockTypes DEF Room
  <1>3. /\ \A i \in 1 .. n : Top(p, i) \in Blocks /\ ~Live(p, Top(p, i))
        /\ \A i, j \in 1 .. n : Top(p, i) = Top(p, j) => i = j
    BY <1>1, TopIsFree
  <1>4. /\ q.db = [b \in Blocks |-> IF \E i \in 1 .. n : b = Top(p, i)
                                    THEN new[CHOOSE i \in 1 .. n : b = Top(p, i)] ELSE p.db[b]]
        /\ q.stack = SubSeq(p.stack, 1, len - n)
        /\ q = [db |-> q.db, stack |-> q.stack]
    BY <1>1 DEF Take
  <1>5. ASSUME NEW i \in 1 .. n
        PROVE  q.db[Top(p, i)] = new[i]
    <2>1. (CHOOSE j \in 1 .. n : Top(p, i) = Top(p, j)) = i
      BY <1>3
    <2>2. QED
      BY <2>1, <1>3, <1>4
  <1>6. \A b \in Blocks : (\A i \in 1 .. n : b # Top(p, i)) => q.db[b] = p.db[b]
    BY <1>4
  <1>7. q.db \in [Blocks -> BlocksOf(V)]
    <2>1. ASSUME NEW b \in Blocks
          PROVE  q.db[b] \in BlocksOf(V)
      <3>1. CASE \E i \in 1 .. n : b = Top(p, i)
        BY <3>1, <1>5, <1>1
      <3>2. CASE \A i \in 1 .. n : b # Top(p, i)
        BY <3>2, <1>6, BlockTypes
      <3>3. QED
        BY <3>1, <3>2
    <2>2. QED
      BY <2>1, <1>4
  <1>8. /\ q.stack \in Seq(Blocks) /\ Len(q.stack) = len - n
        /\ \A i \in 1 .. len - n : q.stack[i] = p.stack[i]
    <2>1. \A i \in 1 .. len - n : p.stack[i] \in Blocks
      BY <1>1, <1>2
    <2>2. PICK k \in Nat : k = len - n
      <3>1. len - n \in Nat
        BY <1>1, <1>2
      <3>2. QED
        BY <3>1
    <2>3. \A i \in 1 .. k : p.stack[i] \in Blocks
      BY <2>1, <2>2
    <2>4. /\ SubSeq(p.stack, 1, k) \in Seq(Blocks)
          /\ Len(SubSeq(p.stack, 1, k)) = IF 1 <= k THEN k - 1 + 1 ELSE 0
          /\ \A i \in 1 .. k - 1 + 1 : SubSeq(p.stack, 1, k)[i] = p.stack[1 + i - 1]
      BY <2>3, SubSeqProperties
    <2>5. q.stack = SubSeq(p.stack, 1, k)
      BY <2>2, <1>4
    <2> HIDE DEF q, len, n
    <2>6. QED
      BY <2>2, <2>4, <2>5
  <1>9. FreeStack(q)
    <2>1. \A i, j \in 1 .. Len(q.stack) : q.stack[i] = q.stack[j] => i = j
      <3>1. \A i \in 1 .. len - n : i \in 1 .. len
        BY <1>1, <1>2
      <3>2. \A i, j \in 1 .. len : p.stack[i] = p.stack[j] => i = j
        BY DEF FreeStack
      <3> HIDE DEF q, len, n
      <3>3. QED
        BY <1>8, <3>1, <3>2
    <2>2. ASSUME NEW b \in Blocks
          PROVE  ~Live(q, b) <=> \E i \in 1 .. Len(q.stack) : q.stack[i] = b
      <3> HIDE DEF q
      <3>1. CASE \E i \in 1 .. n : b = Top(p, i)
        <4> PICK i \in 1 .. n : b = Top(p, i)
          BY <3>1
        <4>1. Live(q, b)
          BY <1>5 DEF Live
        <4>2. PICK k \in 1 .. len : k = len + 1 - i
          <5>1. len + 1 - i \in 1 .. len
            BY <1>1, <1>2
          <5>2. QED
            BY <5>1
        <4>3. b = p.stack[k] /\ k \notin 1 .. len - n
          BY <4>2, <1>1, <1>2 DEF Top
        <4>4. \A j \in 1 .. len - n : j \in 1 .. len /\ q.stack[j] = p.stack[j]
          BY <1>1, <1>2, <1>8
        <4>5. \A j \in 1 .. len - n : q.stack[j] # b
          BY <4>2, <4>3, <4>4 DEF FreeStack
        <4>6. QED
          BY <4>1, <4>5, <1>8
      <3>2. CASE \A i \in 1 .. n : b # Top(p, i)
        <4>1. Live(q, b) <=> Live(p, b)
          BY <3>2, <1>6 DEF Live
        <4>2. ASSUME NEW i \in 1 .. len, p.stack[i] = b
              PROVE  i \in 1 .. len - n
          <5>1. CASE i > len - n
            <6>1. len + 1 - i \in 1 .. n /\ len + 1 - (len + 1 - i) = i
              BY <5>1, <1>1, <1>2
            <6>2. Top(p, len + 1 - i) = b
              BY <6>1, <4>2 DEF Top
            <6>3. QED
              BY <6>1, <6>2, <3>2
          <5>2. QED
            BY <5>1, <1>1, <1>2
        <4>3. (\E i \in 1 .. len : p.stack[i] = b) <=> (\E i \in 1 .. len - n : q.stack[i] = b)
          <5>1. \A j \in 1 .. len - n : j \in 1 .. len /\ q.stack[j] = p.stack[j]
            BY <1>1, <1>2, <1>8
          <5> HIDE DEF q, len, n
          <5>2. QED
            BY <5>1, <4>2
        <4>4. QED
          BY <4>1, <4>3, <1>8 DEF FreeStack
      <3>3. QED
        BY <3>1, <3>2
    <2>3. QED
      BY <2>1, <2>2 DEF FreeStack
  <1>10. q \in PoolsOf(V)
    BY <1>4, <1>7, <1>8 DEF PoolsOf
  <1>11. \A b \in Blocks : Live(p, b) => q.db[b] = p.db[b]
    BY <1>3, <1>6
  <1>12. \A i \in 1 .. len - n : Top(q, i) = Top(p, n + i)
    <2> TAKE i \in 1 .. len - n
    <2> HIDE DEF q
    <2>1. Len(q.stack) + 1 - i = len + 1 - (n + i) /\ len + 1 - (n + i) \in 1 .. len - n
      BY <1>8, <1>1, <1>2
    <2>2. QED
      BY <2>1, <1>8 DEF Top
  <1>13. QED
    BY <1>5, <1>6, <1>8, <1>9, <1>10, <1>11, <1>12

\* Blocks that can be taken: they refer to live blocks, or to each other, forwards.
Refers(d) == {d.child, d.next, d.token, d.store} \ {Null}
Takeable(V, p, new) ==
    /\ new \in Seq(BlocksOf(V))
    /\ Room(p, Len(new))
    /\ \A i \in 1 .. Len(new) :
         /\ new[i].type # "NONE"
         /\ new[i].type = "TABLE" => new[i].content = <<>>
         /\ new[i].persistence_code = 0 \/ Refers(new[i]) = {}
         /\ \A c \in Refers(new[i]) : Live(p, c) \/ \E j \in 1 .. Len(new) : c = Top(p, j)
         /\ new[i].next = Null \/ Live(p, new[i].next) \/ \E j \in i + 1 .. Len(new) : new[i].next = Top(p, j)

\* Lists still end: the blocks taken rank above all others, each above the next.
LEMMA TakeListsEnd ==
    ASSUME NEW V, NEW p, NEW new, Sound(V, p), Takeable(V, p, new)
    PROVE  ListsEnd(Take(p, new))
  <1> DEFINE q == Take(p, new)
             n == Len(new)
  <1>1. /\ p \in PoolsOf(V) /\ FreeStack(p) /\ new \in Seq(BlocksOf(V)) /\ Room(p, n)
        /\ n \in Nat /\ \A i \in 1 .. n : new[i].type # "NONE"
    BY LenProperties DEF Sound, Takeable
  <1>2. /\ \A i \in 1 .. n : q.db[Top(p, i)] = new[i]
        /\ \A b \in Blocks : (\A i \in 1 .. n : b # Top(p, i)) => q.db[b] = p.db[b]
    BY <1>1, TakeResult
  <1>3. /\ \A i \in 1 .. n : Top(p, i) \in Blocks /\ ~Live(p, Top(p, i))
        /\ \A i, j \in 1 .. n : Top(p, i) = Top(p, j) => i = j
    BY <1>1, TopIsFree
  <1>4. PICK rank \in [Blocks -> Nat], m \in Nat :
               \A b \in Blocks : rank[b] <= m /\ (p.db[b].next # Null => rank[p.db[b].next] < rank[b])
    BY DEF Sound, ListsEnd
  <1> DEFINE place(b) == CHOOSE i \in 1 .. n : b = Top(p, i)
             fresh(b) == \E i \in 1 .. n : b = Top(p, i)
             rank2 == [b \in Blocks |-> IF fresh(b) THEN m + 1 + n - place(b) ELSE rank[b]]
  <1>5. \A i \in 1 .. n : place(Top(p, i)) = i
    BY <1>3
  <1> HIDE DEF place, q
  <1>6. \A i \in 1 .. n : rank2[Top(p, i)] = m + 1 + n - i
    BY <1>3, <1>5
  <1>7. \A b \in Blocks : ~fresh(b) => rank2[b] = rank[b]
    OBVIOUS
  <1>8. rank2 \in [Blocks -> Nat] /\ \A b \in Blocks : rank2[b] <= m + 1 + n
    <2>1. ASSUME NEW b \in Blocks
          PROVE  rank2[b] \in Nat /\ rank2[b] <= m + 1 + n
      <3>1. CASE fresh(b)
        <4> PICK i \in 1 .. n : b = Top(p, i)
          BY <3>1
        <4>1. rank2[b] = m + 1 + n - i
          BY <1>6
        <4>2. QED
          BY <4>1, <1>1, <1>4
      <3>2. CASE ~fresh(b)
        BY <3>2, <1>1, <1>4, <1>7
      <3>3. QED
        BY <3>1, <3>2
    <2>2. QED
      BY <2>1
  <1>9. ASSUME NEW b \in Blocks, q.db[b].next # Null
        PROVE  rank2[q.db[b].next] < rank2[b]
    <2>1. CASE fresh(b)
      <3> PICK i \in 1 .. n : b = Top(p, i)
        BY <2>1
      <3>1. q.db[b].next = new[i].next /\ rank2[b] = m + 1 + n - i
        BY <1>2, <1>6
      <3>2. CASE Live(p, new[i].next)
        <4>1. new[i].next \in Blocks
          <5>1. new[i] \in BlocksOf(V)
            BY <1>1, ElementOfSeq
          <5>2. QED
            BY <5>1, <3>1, <1>9 DEF BlocksOf
        <4>2. ~fresh(new[i].next)
          BY <3>2, <1>3
        <4>3. rank2[new[i].next] = rank[new[i].next] /\ rank[new[i].next] \in Nat /\ rank[new[i].next] <= m
          BY <4>1, <4>2, <1>4, <1>7
        <4>4. QED
          BY <4>3, <3>1, <1>1
      <3>3. CASE \E j \in i + 1 .. n : new[i].next = Top(p, j)
        <4> PICK j \in i + 1 .. n : new[i].next = Top(p, j)
          BY <3>3
        <4>1. j \in 1 .. n /\ i < j
          BY <1>1
        <4>2. rank2[new[i].next] = m + 1 + n - j
          BY <4>1, <1>6
        <4>3. QED
          BY <4>1, <4>2, <3>1, <1>1
      <3>4. QED
        BY <3>1, <3>2, <3>3, <1>9 DEF Takeable
    <2>2. CASE ~fresh(b)
      <3>1. q.db[b].next = p.db[b].next /\ p.db[b].next \in Linked(p, b)
        BY <2>2, <1>2, <1>9 DEF Linked
      <3>2. Live(p, p.db[b].next) /\ p.db[b].next \in Blocks
        BY <3>1, <1>1, BlockTypes DEF Sound, LinksLive
      <3>3. ~fresh(p.db[b].next)
        BY <3>2, <1>3
      <3>4. QED
        BY <3>1, <3>2, <3>3, <2>2, <1>4, <1>7, <1>9
    <2>3. QED
      BY <2>1, <2>2
  <1>10. m + 1 + n \in Nat
    BY <1>1
  <1> HIDE DEF rank2
  <1>11. ListsEnd(q)
    BY <1>8, <1>9, <1>10 DEF ListsEnd
  <1>12. QED
    BY <1>11 DEF q

\* What the new blocks refer to is live, for it was or is taken with them.
LEMMA TakeLinks ==
    ASSUME NEW V, NEW p, NEW new, Sound(V, p), Takeable(V, p, new)
    PROVE  LinksLive(Take(p, new)) /\ LinksSurvive(Take(p, new))
  <1> DEFINE q == Take(p, new)
             n == Len(new)
  <1>1. /\ p \in PoolsOf(V) /\ FreeStack(p) /\ new \in Seq(BlocksOf(V)) /\ Room(p, n)
        /\ n \in Nat /\ \A i \in 1 .. n : new[i].type # "NONE"
    BY LenProperties DEF Sound, Takeable
  <1>2. /\ q \in PoolsOf(V)
        /\ \A i \in 1 .. n : q.db[Top(p, i)] = new[i]
        /\ \A b \in Blocks : (\A i \in 1 .. n : b # Top(p, i)) => q.db[b] = p.db[b]
        /\ \A b \in Blocks : Live(p, b) => q.db[b] = p.db[b]
    BY <1>1, TakeResult
  <1>3. \A i \in 1 .. n : Top(p, i) \in Blocks /\ ~Live(p, Top(p, i))
    BY <1>1, TopIsFree
  <1>4. \A c \in Blocks : Live(p, c) \/ (\E i \in 1 .. n : c = Top(p, i)) => Live(q, c)
    <2>1. \A c \in Blocks : \A i \in 1 .. n : c = Top(p, i) => Live(q, c)
      BY <1>1, <1>2 DEF Live
    <2>2. \A c \in Blocks : Live(p, c) => Live(q, c)
      BY <1>2 DEF Live
    <2>3. QED
      BY <2>1, <2>2
  <1> HIDE DEF q
  <1>5. ASSUME NEW i \in 1 .. n
        PROVE  Linked(q, Top(p, i)) = Refers(new[i]) /\ Keys(q, Top(p, i)) = {}
    <2>1. Linked(q, Top(p, i)) = Refers(new[i])
      BY <1>2 DEF Linked, Refers
    <2>2. PICK d : d = q.db[Top(p, i)] /\ d = new[i]
      BY <1>2
    <2>3. Keys(q, Top(p, i)) = {}
      BY <2>2 DEF Keys, Takeable
    <2>4. QED
      BY <2>1, <2>3
  <1>6. ASSUME NEW b \in Blocks, \A i \in 1 .. n : b # Top(p, i)
        PROVE  Linked(q, b) = Linked(p, b) /\ Keys(q, b) = Keys(p, b) /\ q.db[b] = p.db[b]
    BY <1>2, <1>6 DEF Linked, Keys
  <1>7. LinksLive(q)
    <2> SUFFICES ASSUME NEW b \in Blocks, NEW c \in Linked(q, b) \cup Keys(q, b)
                 PROVE  Live(q, c)
      BY DEF LinksLive
    <2>1. c \in Blocks
      BY <1>2, BlockTypes
    <2>2. CASE \E i \in 1 .. n : b = Top(p, i)
      <3> PICK i \in 1 .. n : b = Top(p, i)
        BY <2>2
      <3>1. c \in Refers(new[i])
        BY <1>5
      <3>2. QED
        BY <3>1, <2>1, <1>4 DEF Takeable
    <2>3. CASE \A i \in 1 .. n : b # Top(p, i)
      BY <2>1, <2>3, <1>4, <1>6 DEF Sound, LinksLive
    <2>4. QED
      BY <2>2, <2>3
  <1>8. LinksSurvive(q)
    <2> SUFFICES ASSUME NEW b \in Blocks, q.db[b].persistence_code > 0, NEW c \in Linked(q, b) \cup Keys(q, b)
                 PROVE  q.db[c].persistence_code >= q.db[b].persistence_code
      BY <1>7 DEF LinksSurvive, LinksLive, Live
    <2>1. c \in Blocks
      BY <1>2, BlockTypes
    <2>2. CASE \E i \in 1 .. n : b = Top(p, i)
      <3> PICK i \in 1 .. n : b = Top(p, i)
        BY <2>2
      <3>1. c \in Refers(new[i]) /\ new[i].persistence_code > 0
        BY <1>2, <1>5
      <3>2. new[i].persistence_code = 0 \/ Refers(new[i]) = {}
        BY DEF Takeable
      <3>3. QED
        BY <3>1, <3>2
    <2>3. CASE \A i \in 1 .. n : b # Top(p, i)
      <3>1. c \in Linked(p, b) \cup Keys(p, b) /\ p.db[b].persistence_code > 0 /\ q.db[b] = p.db[b]
        BY <2>3, <1>6
      <3>2. Live(p, c) /\ p.db[c].persistence_code >= p.db[b].persistence_code
        BY <3>1 DEF Sound, LinksLive, LinksSurvive
      <3>3. QED
        BY <3>1, <3>2, <2>1, <1>2
    <2>4. QED
      BY <2>2, <2>3
  <1>9. QED
    BY <1>7, <1>8 DEF q

\* Taking blocks keeps the pool sound.
LEMMA TakeSound ==
    ASSUME NEW V, NEW p, NEW new, Sound(V, p), Takeable(V, p, new)
    PROVE  Sound(V, Take(p, new))
  <1>1. /\ p \in PoolsOf(V) /\ FreeStack(p) /\ new \in Seq(BlocksOf(V)) /\ Room(p, Len(new))
        /\ \A i \in 1 .. Len(new) : new[i].type # "NONE"
    BY DEF Sound, Takeable
  <1>2. Take(p, new) \in PoolsOf(V) /\ FreeStack(Take(p, new))
    BY <1>1, TakeResult
  <1>3. QED
    BY <1>2, TakeLinks, TakeListsEnd DEF Sound

-----------------------------------------------------------------------------
\* A block with the same contents has the same keys.
LEMMA SameKeys ==
    ASSUME NEW p, NEW q, NEW x, q.db[x].type = p.db[x].type, q.db[x].content = p.db[x].content
    PROVE  Keys(q, x) = Keys(p, x)
  BY Zenon DEF Keys

\* Setting the next block changes nothing else.
LEMMA LinkResult ==
    ASSUME NEW V, NEW p \in PoolsOf(V), NEW b \in Blocks, NEW c \in Blocks, Live(p, b)
    PROVE  /\ Link(p, b, c) \in PoolsOf(V)
           /\ Link(p, b, c).stack = p.stack
           /\ \A x \in Blocks : x # b => Link(p, b, c).db[x] = p.db[x]
           /\ Link(p, b, c).db[b].next = c
           /\ Link(p, b, c).db[b].type = p.db[b].type /\ Link(p, b, c).db[b].content = p.db[b].content
           /\ Link(p, b, c).db[b].self_managed = p.db[b].self_managed
           /\ Link(p, b, c).db[b].child = p.db[b].child /\ Link(p, b, c).db[b].token = p.db[b].token
           /\ Link(p, b, c).db[b].store = p.db[b].store
           /\ Link(p, b, c).db[b].persistence_code = p.db[b].persistence_code
  <1>1. p.db \in [Blocks -> BlocksOf(V)] /\ p.stack \in Seq(Blocks) /\ DOMAIN p = {"db", "stack"}
    BY DEF PoolsOf
  <1>2. p.db[b] \in BlocksOf(V) /\ p.db[b].type # "NONE"
    BY <1>1 DEF Live
  <1>3. [p.db[b] EXCEPT !.next = c] \in BlocksOf(V)
    BY <1>2 DEF BlocksOf, WellShaped
  <1>4. Link(p, b, c) = [p EXCEPT !.db = [p.db EXCEPT ![b] = [p.db[b] EXCEPT !.next = c]]]
    BY DEF Link
  <1>5. Link(p, b, c) \in PoolsOf(V)
    BY <1>3, <1>4 DEF PoolsOf
  <1>6. Link(p, b, c).db = [p.db EXCEPT ![b] = [p.db[b] EXCEPT !.next = c]] /\ Link(p, b, c).stack = p.stack
    BY <1>1, <1>4
  <1>7. /\ [p.db[b] EXCEPT !.next = c].next = c
        /\ [p.db[b] EXCEPT !.next = c].type = p.db[b].type /\ [p.db[b] EXCEPT !.next = c].content = p.db[b].content
        /\ [p.db[b] EXCEPT !.next = c].self_managed = p.db[b].self_managed
        /\ [p.db[b] EXCEPT !.next = c].child = p.db[b].child /\ [p.db[b] EXCEPT !.next = c].token = p.db[b].token
        /\ [p.db[b] EXCEPT !.next = c].store = p.db[b].store
        /\ [p.db[b] EXCEPT !.next = c].persistence_code = p.db[b].persistence_code
    BY <1>2 DEF BlocksOf
  <1>8. Link(p, b, c).db[b] = [p.db[b] EXCEPT !.next = c] /\ \A x \in Blocks : x # b => Link(p, b, c).db[x] = p.db[x]
    BY <1>1, <1>6
  <1>9. QED
    BY <1>5, <1>6, <1>7, <1>8

\* A block may be linked to the head of a list that does not lead back to it.
LEMMA LinkSound ==
    ASSUME NEW V, NEW p, Sound(V, p), NEW b \in Blocks, NEW c \in Blocks, Live(p, b), Live(p, c),
           p.db[b].persistence_code = 0,
           NEW S \in SUBSET Blocks, c \in S, b \notin S, \A x \in S : p.db[x].next \in S \cup {Null}
    PROVE  Sound(V, Link(p, b, c))
  <1> DEFINE q == Link(p, b, c)
  <1>1. p \in PoolsOf(V)
    BY DEF Sound
  <1>2. /\ q \in PoolsOf(V) /\ q.stack = p.stack /\ q.db[b].next = c /\ \A x \in Blocks : x # b => q.db[x] = p.db[x]
        /\ q.db[b].type = p.db[b].type /\ q.db[b].content = p.db[b].content /\ q.db[b].child = p.db[b].child
        /\ q.db[b].token = p.db[b].token /\ q.db[b].store = p.db[b].store
        /\ q.db[b].persistence_code = p.db[b].persistence_code
    <2>1. q \in PoolsOf(V) /\ q.stack = p.stack
      BY <1>1, LinkResult
    <2>2. \A x \in Blocks : x # b => q.db[x] = p.db[x]
      BY <1>1, LinkResult
    <2>3. /\ q.db[b].next = c
          /\ q.db[b].type = p.db[b].type /\ q.db[b].content = p.db[b].content /\ q.db[b].child = p.db[b].child
          /\ q.db[b].token = p.db[b].token /\ q.db[b].store = p.db[b].store
          /\ q.db[b].persistence_code = p.db[b].persistence_code
      BY <1>1, LinkResult
    <2>4. QED
      BY <2>1, <2>2, <2>3
  <1> HIDE DEF q
  <1>3. \A x \in Blocks : (Live(q, x) <=> Live(p, x)) /\ q.db[x].persistence_code = p.db[x].persistence_code
    BY <1>2 DEF Live
  <1>4. FreeStack(q)
    BY <1>2, <1>3 DEF FreeStack, Sound
  <1>5. ASSUME NEW x \in Blocks
        PROVE  Keys(q, x) = Keys(p, x) /\ Linked(q, x) \subseteq Linked(p, x) \cup {c} /\ (x # b => Linked(q, x) = Linked(p, x))
    <2>1. q.db[x].type = p.db[x].type /\ q.db[x].content = p.db[x].content
      BY <1>2
    <2>2. Keys(q, x) = Keys(p, x)
      BY <2>1, SameKeys
    <2>3. QED
      BY <2>2, <1>2 DEF Linked
  <1>6. \A x \in Blocks : Linked(q, x) \in SUBSET Blocks /\ Keys(q, x) \in SUBSET Blocks
    BY <1>2, BlockTypes
  <1>7. LinksLive(q)
    BY <1>3, <1>5, <1>6 DEF LinksLive, Sound
  <1>8. LinksSurvive(q)
    <2> SUFFICES ASSUME NEW x \in Blocks, q.db[x].persistence_code > 0, NEW y \in Linked(q, x) \cup Keys(q, x)
                 PROVE  q.db[y].persistence_code >= q.db[x].persistence_code
      BY <1>7 DEF LinksSurvive, LinksLive, Live
    <2>1. x # b
      BY <1>3
    <2>2. y \in Linked(p, x) \cup Keys(p, x) /\ y \in Blocks
      BY <2>1, <1>5, <1>6
    <2>3. p.db[y].persistence_code >= p.db[x].persistence_code
      BY <2>2, <1>3 DEF Sound, LinksSurvive
    <2>4. QED
      BY <2>2, <2>3, <1>3
  <1>9. ListsEnd(q)
    <2>1. PICK rank \in [Blocks -> Nat], m \in Nat :
               \A x \in Blocks : rank[x] <= m /\ (p.db[x].next # Null => rank[p.db[x].next] < rank[x])
      BY DEF Sound, ListsEnd
    <2> DEFINE rank2 == [x \in Blocks |-> IF x \in S THEN rank[x] ELSE rank[x] + m + 1]
    <2>2. rank2 \in [Blocks -> Nat] /\ 2 * m + 1 \in Nat /\ \A x \in Blocks : rank2[x] <= 2 * m + 1
      BY <2>1
    <2>3. ASSUME NEW x \in Blocks, q.db[x].next # Null
          PROVE  rank2[q.db[x].next] < rank2[x]
      <3>1. CASE x = b
        <4>1. rank2[c] = rank[c] /\ rank2[b] = rank[b] + m + 1 /\ rank[c] <= m /\ rank[b] \in Nat /\ rank[c] \in Nat
          BY <2>1
        <4>2. QED
          BY <4>1, <3>1, <1>2, <2>1
      <3>2. CASE x # b
        <4>1. q.db[x].next = p.db[x].next /\ p.db[x].next \in Blocks
          BY <3>2, <1>1, <1>2, <2>3, BlockTypes
        <4>2. rank[p.db[x].next] < rank[x] /\ rank[p.db[x].next] <= m /\ rank[x] \in Nat /\ rank[p.db[x].next] \in Nat
          BY <4>1, <2>1, <2>3
        <4>3. x \in S => p.db[x].next \in S
          BY <4>1, <2>3
        <4>4. QED
          BY <4>1, <4>2, <4>3, <2>1
      <3>3. QED
        BY <3>1, <3>2
    <2> HIDE DEF rank2
    <2>4. QED
      BY <2>2, <2>3 DEF ListsEnd
  <1>10. Sound(V, q)
    BY <1>2, <1>4, <1>7, <1>8, <1>9 DEF Sound
  <1>11. QED
    BY <1>10 DEF q

-----------------------------------------------------------------------------
\* new_object appends an element and changes nothing else.
LEMMA NewObjectResult ==
    ASSUME NEW V, NEW p \in PoolsOf(V), NEW b \in Blocks, NEW object \in V, p.db[b].type = "UNSPECIFIED"
    PROVE  /\ NewObject(p, b, object) \in PoolsOf(V)
           /\ NewObject(p, b, object).stack = p.stack
           /\ \A x \in Blocks : x # b => NewObject(p, b, object).db[x] = p.db[x]
           /\ NewObject(p, b, object).db[b].content = Append(p.db[b].content, object)
           /\ NewObject(p, b, object).db[b].next = p.db[b].next
           /\ NewObject(p, b, object).db[b].type = p.db[b].type
           /\ NewObject(p, b, object).db[b].self_managed = p.db[b].self_managed
           /\ NewObject(p, b, object).db[b].child = p.db[b].child
           /\ NewObject(p, b, object).db[b].token = p.db[b].token
           /\ NewObject(p, b, object).db[b].store = p.db[b].store
           /\ NewObject(p, b, object).db[b].persistence_code = p.db[b].persistence_code
  <1> DEFINE d == [p.db[b] EXCEPT !.content = Append(p.db[b].content, object)]
             q == NewObject(p, b, object)
  <1>1. p.db \in [Blocks -> BlocksOf(V)] /\ p.stack \in Seq(Blocks) /\ DOMAIN p = {"db", "stack"}
    BY DEF PoolsOf
  <1>2. p.db[b] \in BlocksOf(V)
    BY <1>1
  <1>3. Append(p.db[b].content, object) \in Seq(V)
    BY <1>2, AppendProperties DEF BlocksOf
  <1>4. d \in BlocksOf(V)
    BY <1>2, <1>3 DEF BlocksOf, WellShaped
  <1>5. q = [p EXCEPT !.db = [p.db EXCEPT ![b] = d]]
    BY DEF NewObject
  <1>6. /\ d.content = Append(p.db[b].content, object) /\ d.next = p.db[b].next /\ d.type = p.db[b].type
        /\ d.self_managed = p.db[b].self_managed /\ d.child = p.db[b].child /\ d.token = p.db[b].token
        /\ d.store = p.db[b].store /\ d.persistence_code = p.db[b].persistence_code
    BY <1>2 DEF BlocksOf
  <1> HIDE DEF d
  <1>7. q \in PoolsOf(V)
    BY <1>4, <1>5 DEF PoolsOf
  <1>8. q.db = [p.db EXCEPT ![b] = d] /\ q.stack = p.stack
    BY <1>1, <1>5
  <1>9. q.db[b] = d /\ \A x \in Blocks : x # b => q.db[x] = p.db[x]
    BY <1>1, <1>8
  <1>10. QED
    BY <1>6, <1>7, <1>8, <1>9

\* Soundness is about links, keys, codes and the stack.
LEMMA SameLinksSound ==
    ASSUME NEW V, NEW p, NEW q \in PoolsOf(V), Sound(V, p), q.stack = p.stack,
           \A x \in Blocks : /\ Live(q, x) <=> Live(p, x)
                             /\ Linked(q, x) = Linked(p, x) /\ q.db[x].next = p.db[x].next
                             /\ Keys(q, x) = Keys(p, x)
                             /\ q.db[x].persistence_code = p.db[x].persistence_code
    PROVE  Sound(V, q)
  <1>1. p \in PoolsOf(V)
    BY DEF Sound
  <1>2. \A x \in Blocks : Linked(p, x) \in SUBSET Blocks /\ Keys(p, x) \in SUBSET Blocks
    BY <1>1, BlockTypes
  <1>3. FreeStack(q) /\ LinksLive(q)
    BY <1>2 DEF Sound, FreeStack, LinksLive
  <1>4. LinksSurvive(q)
    <2> SUFFICES ASSUME NEW x \in Blocks, q.db[x].persistence_code > 0, NEW y \in Linked(q, x) \cup Keys(q, x)
                 PROVE  q.db[y].type # "NONE" /\ q.db[y].persistence_code >= q.db[x].persistence_code
      BY DEF LinksSurvive
    <2>1. y \in Linked(p, x) \cup Keys(p, x) /\ y \in Blocks
      BY <1>2
    <2>2. p.db[y].type # "NONE" /\ p.db[y].persistence_code >= p.db[x].persistence_code
      BY <2>1 DEF Sound, LinksSurvive
    <2>3. QED
      BY <2>1, <2>2 DEF Live
  <1>5. ListsEnd(q)
    BY DEF Sound, ListsEnd
  <1>6. QED
    BY <1>3, <1>4, <1>5 DEF Sound

\* new_object keeps the pool sound.
LEMMA NewObjectSound ==
    ASSUME NEW V, NEW p, Sound(V, p), NEW b \in Blocks, NEW object \in V, p.db[b].type = "UNSPECIFIED"
    PROVE  Sound(V, NewObject(p, b, object))
  <1> DEFINE q == NewObject(p, b, object)
  <1>1. p \in PoolsOf(V)
    BY DEF Sound
  <1>2. /\ q \in PoolsOf(V) /\ q.stack = p.stack /\ \A x \in Blocks : x # b => q.db[x] = p.db[x]
        /\ q.db[b].next = p.db[b].next /\ q.db[b].type = p.db[b].type /\ q.db[b].child = p.db[b].child
        /\ q.db[b].token = p.db[b].token /\ q.db[b].store = p.db[b].store
        /\ q.db[b].persistence_code = p.db[b].persistence_code
    BY <1>1, NewObjectResult
  <1> HIDE DEF q
  <1>3. \A x \in Blocks : /\ Live(q, x) <=> Live(p, x)
                          /\ Linked(q, x) = Linked(p, x) /\ q.db[x].next = p.db[x].next
                          /\ Keys(q, x) = Keys(p, x)
                          /\ q.db[x].persistence_code = p.db[x].persistence_code
    <2> TAKE x \in Blocks
    <2>1. CASE x = b
      <3>1. Live(q, x) <=> Live(p, x)
        BY <2>1, <1>2 DEF Live
      <3>2. Linked(q, x) = Linked(p, x)
        BY <2>1, <1>2 DEF Linked
      <3>3. Keys(q, x) = Keys(p, x)
        BY <2>1, <1>2 DEF Keys
      <3>4. QED
        BY <3>1, <3>2, <3>3, <2>1, <1>2
    <2>2. CASE x # b
      <3>1. q.db[x] = p.db[x]
        BY <2>2, <1>2
      <3>2. QED
        BY <3>1 DEF Live, Keys, Linked
    <2>3. QED
      BY <2>1, <2>2
  <1>4. QED
    BY <1>2, <1>3, SameLinksSound, ZenonT(40) DEF q

-----------------------------------------------------------------------------
\* Induction by the least counterexample.
LEMMA LeastNumber ==
    ASSUME NEW D \in SUBSET Nat, D # {}
    PROVE  \E x \in D : \A y \in D : x <= y
  <1>1. IsWellFoundedOn(OpToRel(<, Nat), Nat)
    BY NatLessThanWellFounded
  <1>2. \E x \in D : \A y \in D : ~ (<<y, x>> \in OpToRel(<, Nat))
    BY <1>1, WFMin, Zenon
  <1>3. \E x \in D : \A y \in D : ~ (y < x)
    BY <1>2, Zenon DEF OpToRel
  <1>4. QED
    BY <1>3

\* One turn of the walk of set_persistence_code, and the sets at which it ends.
Low(p, S, code) == {x \in S : p.db[x].persistence_code < code}
Onward(p, S, code) == S \cup Low(p, UNION {Linked(p, x) \cup Keys(p, x) : x \in S}, code)
WalkFrom(p, S, code) ==
    {x \in Blocks : \A C \in SUBSET Blocks : S \subseteq C /\ Onward(p, C, code) = C => x \in C}

\* Raised is what a walk along the links collects.
LEMMA RaisedByWalk ==
    ASSUME NEW p, NEW b, NEW code
    PROVE  Raised(p, b, code)
             = (CHOOSE walk : walk = [S \in SUBSET Blocks |->
                  IF Onward(p, S, code) = S THEN S ELSE walk[Onward(p, S, code)]])[Low(p, {b}, code)]
  BY DEF Raised, Low, Onward

\* A step of the walk loses nothing and stays inside of the pool.
LEMMA OnwardGrows ==
    ASSUME NEW V, NEW p \in PoolsOf(V), NEW S \in SUBSET Blocks, NEW code
    PROVE  /\ S \subseteq Onward(p, S, code)
           /\ Onward(p, S, code) \in SUBSET Blocks
           /\ \A C \in SUBSET Blocks : S \subseteq C => Onward(p, S, code) \subseteq Onward(p, C, code)
  <1>1. \A x \in Blocks : Linked(p, x) \in SUBSET Blocks /\ Keys(p, x) \in SUBSET Blocks
    BY BlockTypes
  <1>2. QED
    BY <1>1 DEF Onward, Low

\* What the recursion needs to be well defined: the least set that is closed.
LEMMA WalkStep ==
    ASSUME NEW V, NEW p \in PoolsOf(V), NEW S \in SUBSET Blocks, NEW code
    PROVE  WalkFrom(p, S, code) = IF Onward(p, S, code) = S THEN S ELSE WalkFrom(p, Onward(p, S, code), code)
  <1>1. CASE Onward(p, S, code) = S
    BY <1>1 DEF WalkFrom
  <1>2. CASE Onward(p, S, code) # S
    <2>1. ASSUME NEW C \in SUBSET Blocks, Onward(p, C, code) = C
          PROVE  S \subseteq C <=> Onward(p, S, code) \subseteq C
      BY <2>1, OnwardGrows
    <2>2. QED
      BY <2>1, <1>2 DEF WalkFrom
  <1>3. QED
    BY <1>1, <1>2

\* The least set that is closed: a step further finds nothing new.
LEMMA WalkClosed ==
    ASSUME NEW V, NEW p \in PoolsOf(V), NEW code, NEW S \in SUBSET Blocks
    PROVE  Onward(p, WalkFrom(p, S, code), code) = WalkFrom(p, S, code)
  <1> DEFINE W == WalkFrom(p, S, code)
  <1>1. W \in SUBSET Blocks
    BY DEF WalkFrom
  <1>2. ASSUME NEW C \in SUBSET Blocks, S \subseteq C, Onward(p, C, code) = C
        PROVE  Onward(p, W, code) \subseteq C
    <2>1. W \subseteq C
      BY <1>2 DEF WalkFrom
    <2>2. Onward(p, W, code) \subseteq Onward(p, C, code)
      <3> HIDE DEF W
      <3>1. QED
        BY <1>1, <2>1, OnwardGrows
    <2>3. QED
      BY <2>2, <1>2
  <1>3. W \subseteq Onward(p, W, code) /\ Onward(p, W, code) \in SUBSET Blocks
    <2> HIDE DEF W
    <2>1. QED
      BY <1>1, OnwardGrows
  <1>4. Onward(p, W, code) \subseteq W
    BY <1>2, <1>3 DEF WalkFrom
  <1>5. QED
    BY <1>3, <1>4

\* The recursive walk returns the least closed set.
LEMMA RaisedIsLeast ==
    ASSUME NEW V, NEW p \in PoolsOf(V), NEW b \in Blocks, NEW code
    PROVE  Raised(p, b, code) = WalkFrom(p, Low(p, {b}, code), code)
  <1> DEFINE Step(walk, S) == IF Onward(p, S, code) = S THEN S ELSE walk[Onward(p, S, code)]
             least == [S \in SUBSET Blocks |-> WalkFrom(p, S, code)]
             chosen == CHOOSE walk : walk = [S \in SUBSET Blocks |-> Step(walk, S)]
  <1>1. least = [S \in SUBSET Blocks |-> Step(least, S)]
    <2>1. ASSUME NEW S \in SUBSET Blocks
          PROVE  WalkFrom(p, S, code) = Step(least, S)
      BY WalkStep, OnwardGrows
    <2>2. QED
      BY <2>1
  <1>2. chosen = [S \in SUBSET Blocks |-> Step(chosen, S)]
    <2> HIDE DEF least, Step
    <2>1. QED
      BY <1>1
  <1>3. \A S \in SUBSET Blocks : chosen[S] = Step(chosen, S)
    <2> HIDE DEF chosen
    <2>1. QED
      BY <1>2
  <1> DEFINE Bad == {S \in SUBSET Blocks : chosen[S] # WalkFrom(p, S, code)}
             D == {Cardinality(Blocks \ S) : S \in Bad}
  <1> HIDE DEF chosen
  <1>4. IsFiniteSet(Blocks)
    BY FS_Interval, CapacityAssumption DEF Blocks
  <1>5. \A S \in SUBSET Blocks : IsFiniteSet(Blocks \ S) /\ Cardinality(Blocks \ S) \in Nat
    BY <1>4, FS_Subset, FS_CardinalityType
  <1>6. Bad = {}
    <2> SUFFICES ASSUME Bad # {}
                 PROVE  FALSE
      OBVIOUS
    <2>1. D \in SUBSET Nat /\ D # {}
      BY <1>5
    <2>2. PICK S \in Bad : \A T \in Bad : Cardinality(Blocks \ S) <= Cardinality(Blocks \ T)
      <3>1. \E x \in D : \A y \in D : x <= y
        BY <2>1, LeastNumber
      <3>2. QED
        BY <3>1
    <2> DEFINE T == Onward(p, S, code)
    <2>3. S \subseteq T /\ T \in SUBSET Blocks
      BY OnwardGrows
    <2>4. WalkFrom(p, S, code) = IF T = S THEN S ELSE WalkFrom(p, T, code)
      BY WalkStep
    <2>5. chosen[S] = IF T = S THEN S ELSE chosen[T]
      BY <1>3
    <2>6. T # S /\ T \in Bad
      BY <2>3, <2>4, <2>5
    <2>7. Cardinality(Blocks \ S) <= Cardinality(Blocks \ T)
      BY <2>2, <2>6
    <2>8. Blocks \ T \subseteq Blocks \ S /\ Blocks \ T # Blocks \ S
      BY <2>3, <2>6
    <2> HIDE DEF T, Bad
    <2>9. Cardinality(Blocks \ T) <= Cardinality(Blocks \ S) /\ Cardinality(Blocks \ S) # Cardinality(Blocks \ T)
      BY <2>3, <2>8, <1>5, FS_Subset
    <2>10. QED
      BY <2>3, <2>7, <2>9, <1>5
  <1>7. Raised(p, b, code) = chosen[Low(p, {b}, code)]
    BY RaisedByWalk DEF chosen
  <1>8. Low(p, {b}, code) \in SUBSET Blocks
    BY DEF Low
  <1>9. QED
    BY <1>6, <1>7, <1>8

\* Raised contains the block it starts at and is closed under links and keys.
LEMMA RaisedResult ==
    ASSUME NEW V, NEW p \in PoolsOf(V), NEW b \in Blocks, NEW code \in Nat
    PROVE  /\ Raised(p, b, code) \in SUBSET Blocks
           /\ p.db[b].persistence_code < code => b \in Raised(p, b, code)
           /\ \A x \in Raised(p, b, code) :
                /\ p.db[x].persistence_code < code
                /\ \A c \in Linked(p, x) \cup Keys(p, x) :
                     p.db[c].persistence_code < code => c \in Raised(p, b, code)
           /\ \A C \in SUBSET Blocks :
                /\ b \in C
                /\ \A x \in C : Linked(p, x) \cup Keys(p, x) \subseteq C
                => Raised(p, b, code) \subseteq C
  <1> DEFINE S == Low(p, {b}, code)
             R == WalkFrom(p, S, code)
  <1>1. S \in SUBSET Blocks /\ Raised(p, b, code) = R /\ R \in SUBSET Blocks
    BY RaisedIsLeast DEF Low, WalkFrom
  <1>2. S \subseteq R
    BY <1>1 DEF WalkFrom
  <1>3. Onward(p, R, code) = R
    BY <1>1, WalkClosed
  <1>4. \A C \in SUBSET Blocks : S \subseteq C /\ Onward(p, C, code) = C => R \subseteq C
    BY DEF WalkFrom
  <1> HIDE DEF R
  <1>5. \A x \in R, c \in Blocks : c \in Linked(p, x) \cup Keys(p, x) /\ p.db[c].persistence_code < code => c \in R
    BY <1>3 DEF Onward, Low
  <1>6. \A x \in R : Linked(p, x) \cup Keys(p, x) \in SUBSET Blocks
    BY <1>1, BlockTypes
  <1>7. R \subseteq {x \in Blocks : p.db[x].persistence_code < code}
    <2> DEFINE C == {x \in Blocks : p.db[x].persistence_code < code}
    <2>1. Onward(p, C, code) = C
      <3>1. \A x \in C : Linked(p, x) \cup Keys(p, x) \in SUBSET Blocks
        BY BlockTypes
      <3>2. QED
        BY <3>1 DEF Onward, Low
    <2>2. S \subseteq C
      BY DEF Low
    <2> HIDE DEF C
    <2>3. C \in SUBSET Blocks
      BY DEF C
    <2>4. QED
      BY <2>1, <2>2, <2>3, <1>4 DEF C
  <1>8. ASSUME NEW C \in SUBSET Blocks, b \in C, \A x \in C : Linked(p, x) \cup Keys(p, x) \subseteq C
        PROVE  R \subseteq C
    <2>1. Onward(p, C, code) = C
      BY <1>8 DEF Onward, Low
    <2>2. S \subseteq C
      BY <1>8 DEF Low
    <2>3. QED
      BY <2>1, <2>2, <1>4
  <1>9. p.db[b].persistence_code < code => b \in R
    BY <1>2 DEF Low
  <1> HIDE DEF S
  <1>10. QED
    BY <1>1, <1>5, <1>6, <1>7, <1>8, <1>9

\* set_persistence_code changes codes only.
LEMMA SetCodeResult ==
    ASSUME NEW V, NEW p, Sound(V, p), NEW b \in Blocks, Live(p, b), NEW code \in Nat
    PROVE  /\ SetPersistenceCode(p, b, code) \in PoolsOf(V)
           /\ SetPersistenceCode(p, b, code).stack = p.stack
           /\ \A x \in Blocks : Stays(p, SetPersistenceCode(p, b, code), x)
           /\ SetPersistenceCode(p, b, code).db[b].persistence_code >= code
           /\ \A x \in Blocks : SetPersistenceCode(p, b, code).db[x].persistence_code
                                  = IF x \in Raised(p, b, code) THEN code ELSE p.db[x].persistence_code
  <1> DEFINE R == Raised(p, b, code)
             q == SetPersistenceCode(p, b, code)
             d(x) == [p.db[x] EXCEPT !.persistence_code = code]
  <1>1. /\ p \in PoolsOf(V) /\ p.db \in [Blocks -> BlocksOf(V)] /\ p.stack \in Seq(Blocks)
        /\ DOMAIN p = {"db", "stack"}
    BY DEF Sound, PoolsOf
  <1>2. /\ R \in SUBSET Blocks
        /\ p.db[b].persistence_code < code => b \in R
        /\ \A x \in R : p.db[x].persistence_code < code
        /\ \A C \in SUBSET Blocks :
              b \in C /\ (\A x \in C : Linked(p, x) \cup Keys(p, x) \subseteq C) => R \subseteq C
    BY <1>1, RaisedResult
  <1> HIDE DEF R
  <1>3. \A x \in R : Live(p, x)
    <2> DEFINE C == {x \in Blocks : Live(p, x)}
    <2>1. \A x \in C : Linked(p, x) \cup Keys(p, x) \subseteq C
      <3>1. \A x \in C : Linked(p, x) \cup Keys(p, x) \in SUBSET Blocks
        BY <1>1, BlockTypes
      <3>2. QED
        BY <3>1 DEF Sound, LinksLive
    <2>2. QED
      BY <2>1, <1>2
  <1>4. q = [p EXCEPT !.db = [x \in Blocks |-> IF x \in R THEN d(x) ELSE p.db[x]]]
    BY DEF SetPersistenceCode, R
  <1>5. ASSUME NEW x \in R
        PROVE  d(x) \in BlocksOf(V)
    <2>1. p.db[x] \in BlocksOf(V) /\ p.db[x].type # "NONE"
      BY <1>1, <1>2, <1>3 DEF Live
    <2>2. QED
      BY <2>1 DEF BlocksOf, WellShaped
  <1>6. q.db = [x \in Blocks |-> IF x \in R THEN d(x) ELSE p.db[x]] /\ q.stack = p.stack
    BY <1>1, <1>4
  <1>7. q \in PoolsOf(V)
    <2> HIDE DEF d
    <2>1. \A x \in Blocks : (IF x \in R THEN d(x) ELSE p.db[x]) \in BlocksOf(V)
      BY <1>1, <1>5
    <2>2. [x \in Blocks |-> IF x \in R THEN d(x) ELSE p.db[x]] \in [Blocks -> BlocksOf(V)]
      BY <2>1
    <2> HIDE DEF q
    <2>3. QED
      BY <2>2, <1>1, <1>4 DEF PoolsOf
  <1>8. ASSUME NEW x \in Blocks
        PROVE  /\ q.db[x].type = p.db[x].type /\ q.db[x].content = p.db[x].content
               /\ q.db[x].self_managed = p.db[x].self_managed
               /\ q.db[x].next = p.db[x].next /\ q.db[x].child = p.db[x].child
               /\ q.db[x].token = p.db[x].token /\ q.db[x].store = p.db[x].store
               /\ q.db[x].persistence_code = IF x \in R THEN code ELSE p.db[x].persistence_code
    <2>1. p.db[x] \in BlocksOf(V)
      BY <1>1
    <2>2. /\ d(x).type = p.db[x].type /\ d(x).content = p.db[x].content /\ d(x).self_managed = p.db[x].self_managed
          /\ d(x).next = p.db[x].next /\ d(x).child = p.db[x].child /\ d(x).token = p.db[x].token
          /\ d(x).store = p.db[x].store /\ d(x).persistence_code = code
      BY <2>1 DEF BlocksOf
    <2>3. q.db[x] = IF x \in R THEN d(x) ELSE p.db[x]
      BY <1>6
    <2> HIDE DEF d, q
    <2>4. QED
      BY <2>2, <2>3
  <1> HIDE DEF q
  <1>9. \A x \in Blocks : Stays(p, q, x)
    <2>1. \A x \in Blocks : p.db[x].persistence_code \in Nat
      BY <1>1, BlockTypes
    <2>2. ASSUME NEW x \in Blocks
          PROVE  q.db[x].persistence_code >= p.db[x].persistence_code
      BY <2>1, <1>2, <1>8
    <2>3. QED
      BY <2>2, <1>8 DEF Stays
  <1>10. q.db[b].persistence_code >= code
    <2>1. p.db[b].persistence_code \in Nat
      BY <1>1, BlockTypes
    <2>2. QED
      BY <2>1, <1>2, <1>8
  <1>11. QED
    BY <1>6, <1>7, <1>8, <1>9, <1>10 DEF q, R

\* set_persistence_code leaves no block behind that a block with a code refers to.
LEMMA SetCodeSound ==
    ASSUME NEW V, NEW p, Sound(V, p), NEW b \in Blocks, Live(p, b), NEW code \in Nat
    PROVE  Sound(V, SetPersistenceCode(p, b, code))
  <1> DEFINE q == SetPersistenceCode(p, b, code)
             R == Raised(p, b, code)
  <1>1. /\ q \in PoolsOf(V) /\ q.stack = p.stack /\ \A x \in Blocks : Stays(p, q, x)
        /\ \A x \in Blocks : q.db[x].persistence_code = IF x \in R THEN code ELSE p.db[x].persistence_code
    BY SetCodeResult
  <1>2. p \in PoolsOf(V)
    BY DEF Sound
  <1>3. /\ R \in SUBSET Blocks
        /\ \A x \in R : \A c \in Linked(p, x) \cup Keys(p, x) : p.db[c].persistence_code < code => c \in R
    BY <1>2, RaisedResult
  <1> HIDE DEF q, R
  <1>4. ASSUME NEW x \in Blocks
        PROVE  /\ Live(q, x) <=> Live(p, x)
               /\ q.db[x].next = p.db[x].next
               /\ Linked(q, x) = Linked(p, x) /\ Keys(q, x) = Keys(p, x)
               /\ Linked(p, x) \in SUBSET Blocks /\ Keys(p, x) \in SUBSET Blocks
               /\ p.db[x].persistence_code \in Nat
    <2>1. Keys(q, x) = Keys(p, x)
      BY <1>1, SameKeys DEF Stays
    <2>2. Linked(q, x) = Linked(p, x) /\ q.db[x].next = p.db[x].next
      BY <1>1 DEF Stays, Linked
    <2>3. Live(q, x) <=> Live(p, x)
      BY <1>1 DEF Stays, Live
    <2>4. /\ Linked(p, x) \in SUBSET Blocks /\ Keys(p, x) \in SUBSET Blocks
          /\ p.db[x].persistence_code \in Nat
      BY <1>2, BlockTypes
    <2>5. QED
      BY <2>1, <2>2, <2>3, <2>4
  <1>5. FreeStack(q) /\ LinksLive(q) /\ ListsEnd(q)
    <2>1. FreeStack(q)
      BY <1>1, <1>4 DEF Sound, FreeStack
    <2>2. LinksLive(q)
      BY <1>4 DEF Sound, LinksLive
    <2>3. ListsEnd(q)
      BY <1>4 DEF Sound, ListsEnd
    <2>4. QED
      BY <2>1, <2>2, <2>3
  <1>6. LinksSurvive(q)
    <2> SUFFICES ASSUME NEW x \in Blocks, q.db[x].persistence_code > 0, NEW c \in Linked(p, x) \cup Keys(p, x)
                 PROVE  q.db[c].persistence_code >= q.db[x].persistence_code
      BY <1>4, <1>5 DEF LinksSurvive, LinksLive, Live
    <2>1. c \in Blocks
      BY <1>4
    <2>2. CASE x \in R
      <3>1. q.db[x].persistence_code = code
        BY <2>2, <1>1
      <3>2. CASE p.db[c].persistence_code < code
        BY <3>1, <3>2, <2>1, <2>2, <1>1, <1>3
      <3>3. CASE p.db[c].persistence_code >= code
        BY <3>1, <3>3, <2>1, <1>1, <1>4
      <3>4. QED
        BY <3>2, <3>3, <2>1, <1>4
    <2>3. CASE x \notin R
      <3>1. p.db[c].persistence_code >= p.db[x].persistence_code
        BY <2>3, <1>1 DEF Sound, LinksSurvive
      <3>2. q.db[c].persistence_code >= p.db[c].persistence_code
        BY <2>1, <1>1 DEF Stays
      <3>3. q.db[c].persistence_code \in Nat
        BY <2>1, <1>1, <1>4
      <3>4. QED
        BY <3>1, <3>2, <3>3, <2>1, <2>3, <1>1, <1>4
    <2>4. QED
      BY <2>2, <2>3
  <1>7. QED
    BY <1>1, <1>5, <1>6 DEF Sound, q

-----------------------------------------------------------------------------
\* The stack while a cull pushes the blocks up to n.
Pushed(p, culled, pushed, n) ==
    IF n = 0 THEN p.stack ELSE IF n \in culled THEN Append(pushed[n - 1], n) ELSE pushed[n - 1]

\* The order in which a cull pushes the blocks it frees enumerates them.
LEMMA PushingDefined ==
    ASSUME NEW p, NEW culled
    PROVE  \E pushed : /\ Freed(p, culled) = pushed[DBLOCKS_CAPACITY]
                       /\ \A n \in 0 .. DBLOCKS_CAPACITY : pushed[n] = Pushed(p, culled, pushed, n)
  <1> DEFINE Upto(n) == \E f : f = [k \in 0 .. n |-> Pushed(p, culled, f, k)]
             Bad == {n \in Nat : ~Upto(n)}
  <1>1. Bad = {}
    <2> SUFFICES ASSUME Bad # {}
                 PROVE  FALSE
      OBVIOUS
    <2>1. PICK n \in Bad : \A k \in Bad : n <= k
      BY LeastNumber
    <2>2. Upto(0)
      <3>1. [k \in 0 .. 0 |-> p.stack] = [k \in 0 .. 0 |-> Pushed(p, culled, [j \in 0 .. 0 |-> p.stack], k)]
        BY DEF Pushed
      <3>2. QED
        BY <3>1
    <2>3. n \in Nat /\ n # 0
      BY <2>2
    <2>4. n - 1 \in Nat /\ n - 1 \notin Bad
      BY <2>1, <2>3
    <2>5. PICK f : f = [k \in 0 .. n - 1 |-> Pushed(p, culled, f, k)]
      BY <2>4
    <2> DEFINE g == [k \in 0 .. n |-> IF k = n THEN Pushed(p, culled, f, n) ELSE f[k]]
    <2>6. \A k \in 0 .. n - 1 : g[k] = f[k]
      BY <2>3
    <2>7. ASSUME NEW k \in 0 .. n
          PROVE  g[k] = Pushed(p, culled, g, k)
      <3>1. k # 0 => k - 1 \in 0 .. n - 1
        BY <2>3
      <3>2. Pushed(p, culled, g, k) = Pushed(p, culled, f, k)
        <4> HIDE DEF g
        <4>1. QED
          BY <3>1, <2>6 DEF Pushed
      <3>3. CASE k = n
        BY <3>2, <3>3
      <3>4. CASE k # n
        <4>1. k \in 0 .. n - 1
          BY <3>4, <2>3
        <4>2. f[k] = Pushed(p, culled, f, k)
          BY <4>1, <2>5
        <4>3. QED
          BY <4>1, <4>2, <3>2, <2>6
      <3>5. QED
        BY <3>3, <3>4
    <2>8. g = [k \in 0 .. n |-> Pushed(p, culled, g, k)]
      BY <2>7
    <2>9. Upto(n)
      <3> HIDE DEF g
      <3>1. QED
        BY <2>8
    <2>10. QED
      BY <2>1, <2>9
  <1> DEFINE chosen == CHOOSE f : f = [k \in 0 .. DBLOCKS_CAPACITY |-> Pushed(p, culled, f, k)]
  <1>2. DBLOCKS_CAPACITY \in Nat
    BY CapacityAssumption
  <1>3. Upto(DBLOCKS_CAPACITY)
    BY <1>1, <1>2
  <1>4. chosen = [k \in 0 .. DBLOCKS_CAPACITY |-> Pushed(p, culled, chosen, k)]
    BY <1>3
  <1>5. Freed(p, culled) = chosen[DBLOCKS_CAPACITY]
    BY DEF Freed, Pushed
  <1> HIDE DEF chosen
  <1>6. \A n \in 0 .. DBLOCKS_CAPACITY : chosen[n] = Pushed(p, culled, chosen, n)
    BY <1>4
  <1>7. QED
    BY <1>5, <1>6

\* A sequence that lists the blocks of a set, each once.
Lists(s, S) ==
    /\ s \in Seq(Blocks)
    /\ \A i, j \in 1 .. Len(s) : s[i] = s[j] => i = j
    /\ \A b \in Blocks : b \in S <=> \E i \in 1 .. Len(s) : s[i] = b

\* A list of all of S without repetitions, with one more block at the end.
LEMMA AppendLists ==
    ASSUME NEW S, NEW s, Lists(s, S), NEW b \in Blocks, b \notin S
    PROVE  Lists(Append(s, b), S \cup {b})
  <1> DEFINE t == Append(s, b)
  <1>1. s \in Seq(Blocks) /\ Len(s) \in Nat
    BY LenProperties DEF Lists
  <1>2. /\ t \in Seq(Blocks) /\ Len(t) = Len(s) + 1
        /\ \A i \in 1 .. Len(s) : t[i] = s[i]
        /\ t[Len(s) + 1] = b
    BY <1>1, AppendProperties
  <1> HIDE DEF t
  <1>3. \A i \in 1 .. Len(s) : s[i] # b
    BY DEF Lists
  <1>4. \A i \in 1 .. Len(t) : i \in 1 .. Len(s) \/ i = Len(s) + 1
    BY <1>1, <1>2
  <1>5. \A i, j \in 1 .. Len(t) : t[i] = t[j] => i = j
    BY <1>2, <1>3, <1>4 DEF Lists
  <1>6. ASSUME NEW x \in Blocks
        PROVE  x \in S \cup {b} <=> \E i \in 1 .. Len(t) : t[i] = x
    <2>1. x = b => \E i \in 1 .. Len(t) : t[i] = x
      <3>1. Len(s) + 1 \in 1 .. Len(t)
        BY <1>1, <1>2
      <3>2. QED
        BY <3>1, <1>2
    <2>2. x \in S => \E i \in 1 .. Len(t) : t[i] = x
      <3>1. ASSUME NEW i \in 1 .. Len(s), s[i] = x
            PROVE  i \in 1 .. Len(t) /\ t[i] = x
        BY <3>1, <1>1, <1>2
      <3>2. QED
        BY <3>1 DEF Lists
    <2>3. ASSUME NEW i \in 1 .. Len(t), t[i] = x
          PROVE  x \in S \cup {b}
      BY <2>3, <1>2, <1>4 DEF Lists
    <2>4. QED
      BY <2>1, <2>2, <2>3
  <1>7. QED
    BY <1>2, <1>5, <1>6 DEF Lists, t

\* The stack after a cull holds what was free and what was culled.
LEMMA FreedResult ==
    ASSUME NEW V, NEW p \in PoolsOf(V), FreeStack(p), NEW culled \in SUBSET Blocks, \A b \in culled : Live(p, b)
    PROVE  Lists(Freed(p, culled), culled \cup {b \in Blocks : ~Live(p, b)})
  <1> DEFINE Held(n) == {b \in culled : b <= n} \cup {b \in Blocks : ~Live(p, b)}
  <1>0. \A b \in culled : b \in Blocks /\ b \in Nat /\ b >= 1 /\ b <= DBLOCKS_CAPACITY
    BY CapacityAssumption DEF Blocks
  <1>1. PICK pushed : /\ Freed(p, culled) = pushed[DBLOCKS_CAPACITY]
                      /\ \A n \in 0 .. DBLOCKS_CAPACITY : pushed[n] = Pushed(p, culled, pushed, n)
    BY PushingDefined
  <1> DEFINE Bad == {n \in 0 .. DBLOCKS_CAPACITY : ~Lists(pushed[n], Held(n))}
  <1>2. Bad = {}
    <2> SUFFICES ASSUME Bad # {}
                 PROVE  FALSE
      OBVIOUS
    <2>1. PICK n \in Bad : \A k \in Bad : n <= k
      <3>1. Bad \in SUBSET Nat
        OBVIOUS
      <3>2. QED
        BY <3>1, LeastNumber
    <2>2. Lists(pushed[0], Held(0))
      <3>1. 0 \in 0 .. DBLOCKS_CAPACITY
        BY CapacityAssumption
      <3>2. pushed[0] = p.stack
        BY <3>1, <1>1 DEF Pushed
      <3>3. {b \in culled : b <= 0} = {}
        BY <1>0
      <3>4. QED
        BY <3>2, <3>3, BlockTypes DEF Lists, FreeStack
    <2>3. n \in 1 .. DBLOCKS_CAPACITY /\ n - 1 \in 0 .. DBLOCKS_CAPACITY /\ n - 1 \notin Bad
      <3>1. n # 0 /\ n \in 0 .. DBLOCKS_CAPACITY
        BY <2>2
      <3>2. n - 1 \in 0 .. DBLOCKS_CAPACITY /\ n \in 1 .. DBLOCKS_CAPACITY
        BY <3>1, CapacityAssumption
      <3>3. ~(n <= n - 1)
        BY <3>1
      <3> HIDE DEF Bad
      <3>4. QED
        BY <2>1, <3>2, <3>3
    <2>4. Lists(pushed[n - 1], Held(n - 1))
      BY <2>3
    <2>5. pushed[n] = IF n \in culled THEN Append(pushed[n - 1], n) ELSE pushed[n - 1]
      BY <2>3, <1>1 DEF Pushed
    <2>6. {b \in culled : b <= n} = {b \in culled : b <= n - 1} \cup (IF n \in culled THEN {n} ELSE {})
      <3>1. \A b \in culled : b \in Nat /\ (b <= n <=> b <= n - 1 \/ b = n)
        BY <2>3, <1>0
      <3>2. n <= n
        BY <2>3
      <3>3. QED
        BY <3>1, <3>2
    <2>7. n \in Blocks
      BY <2>3 DEF Blocks
    <2>8. CASE n \in culled
      <3>1. n \notin Held(n - 1) /\ Held(n) = Held(n - 1) \cup {n}
        BY <2>3, <2>6, <2>8
      <3> HIDE DEF Held
      <3>2. Lists(pushed[n], Held(n))
        BY <2>4, <2>5, <2>7, <2>8, <3>1, AppendLists
      <3>3. QED
        BY <3>2, <2>1
    <2>9. CASE n \notin culled
      <3>1. Held(n) = Held(n - 1)
        BY <2>6, <2>9
      <3>2. QED
        BY <2>4, <2>5, <2>9, <3>1, <2>1
    <2>10. QED
      BY <2>8, <2>9
  <1>3. DBLOCKS_CAPACITY \in 0 .. DBLOCKS_CAPACITY /\ {b \in culled : b <= DBLOCKS_CAPACITY} = culled
    BY <1>0, CapacityAssumption
  <1>4. QED
    BY <1>1, <1>2, <1>3

\* A disposed block refers to nothing.
LEMMA DisposedBlock ==
    ASSUME NEW V
    PROVE  Disposed \in BlocksOf(V) /\ Refers(Disposed) = {}
  <1>1. <<>> \in Seq(V)
    BY EmptySeq
  <1>2. QED
    BY <1>1 DEF Disposed, BlocksOf, WellShaped, Refers

\* A cull of code 0 gives back the blocks without a code, and changes no other.
LEMMA CullSound ==
    ASSUME NEW V, NEW p, Sound(V, p)
    PROVE  /\ Sound(V, Cull(p, 0))
           /\ \A b \in Blocks : p.db[b].persistence_code > 0 => Cull(p, 0).db[b] = p.db[b]
           /\ \A b \in Blocks : p.db[b].persistence_code = 0 => Cull(p, 0).db[b] = Disposed
  <1> DEFINE q == Cull(p, 0)
             K == Culled(p, 0)
  <1>1. p \in PoolsOf(V) /\ FreeStack(p) /\ p.db \in [Blocks -> BlocksOf(V)] /\ DOMAIN p = {"db", "stack"}
    BY DEF Sound, PoolsOf
  <1>2. K \in SUBSET Blocks /\ \A b \in Blocks : b \in K <=> p.db[b].persistence_code = 0 /\ Live(p, b)
    BY DEF Culled, Live
  <1>3. q = [db |-> [b \in Blocks |-> IF b \in K THEN Disposed ELSE p.db[b]], stack |-> Freed(p, K)]
    BY DEF Cull
  <1> HIDE DEF K
  <1>4. q.db = [b \in Blocks |-> IF b \in K THEN Disposed ELSE p.db[b]] /\ q.stack = Freed(p, K)
    BY <1>3
  <1>5. Lists(q.stack, K \cup {b \in Blocks : ~Live(p, b)})
    BY <1>1, <1>2, <1>4, FreedResult
  <1>6. q \in PoolsOf(V)
    <2>1. \A b \in Blocks : (IF b \in K THEN Disposed ELSE p.db[b]) \in BlocksOf(V)
      BY <1>1, DisposedBlock
    <2>2. [b \in Blocks |-> IF b \in K THEN Disposed ELSE p.db[b]] \in [Blocks -> BlocksOf(V)]
      BY <2>1
    <2>3. q.stack \in Seq(Blocks)
      BY <1>5 DEF Lists
    <2>4. QED
      BY <2>2, <2>3, <1>3, <1>4 DEF PoolsOf
  <1> HIDE DEF q
  <1>7. \A b \in Blocks : ~Live(p, b) => p.db[b] = Disposed
    BY <1>1, BlockTypes DEF WellShaped, Live
  <1>8. \A b \in Blocks : q.db[b] = IF p.db[b].persistence_code = 0 THEN Disposed ELSE p.db[b]
    BY <1>2, <1>4, <1>7
  <1>9. \A b \in Blocks : Live(q, b) <=> p.db[b].persistence_code > 0
    <2> TAKE b \in Blocks
    <2>1. p.db[b].persistence_code \in Nat
      BY <1>1, BlockTypes
    <2>2. Disposed.type = "NONE" /\ Disposed.persistence_code = 0
      BY DEF Disposed
    <2>3. p.db[b].persistence_code > 0 => Live(p, b)
      BY <2>2, <1>7
    <2>4. QED
      BY <2>1, <2>2, <2>3, <1>8 DEF Live
  <1>10. FreeStack(q)
    <2>1. \A b \in Blocks : ~Live(q, b) <=> b \in K \cup {x \in Blocks : ~Live(p, x)}
      BY <1>1, <1>2, <1>4, <1>7, <1>8 DEF Live, Disposed
    <2>2. QED
      BY <2>1, <1>5 DEF FreeStack, Lists
  <1>11. ASSUME NEW b \in Blocks
         PROVE  IF p.db[b].persistence_code = 0
                THEN Linked(q, b) = {} /\ Keys(q, b) = {} /\ q.db[b].next = Null
                ELSE Linked(q, b) = Linked(p, b) /\ Keys(q, b) = Keys(p, b) /\ q.db[b].next = p.db[b].next
    <2>1. CASE p.db[b].persistence_code = 0
      <3>1. q.db[b] = Disposed
        BY <2>1, <1>8
      <3>2. QED
        BY <3>1, <2>1 DEF Disposed, Linked, Keys
    <2>2. CASE p.db[b].persistence_code # 0
      <3>1. q.db[b] = p.db[b]
        BY <2>2, <1>8
      <3>2. Keys(q, b) = Keys(p, b)
        BY <3>1, SameKeys
      <3>3. QED
        BY <3>1, <3>2, <2>2 DEF Linked
    <2>3. QED
      BY <2>1, <2>2
  <1>12. \A b \in Blocks : /\ p.db[b].persistence_code \in Nat
                           /\ Linked(p, b) \in SUBSET Blocks /\ Keys(p, b) \in SUBSET Blocks
    BY <1>1, BlockTypes
  <1>13. ASSUME NEW b \in Blocks, NEW c \in Linked(q, b) \cup Keys(q, b)
         PROVE  /\ p.db[b].persistence_code > 0 /\ q.db[b] = p.db[b] /\ c \in Blocks
                /\ p.db[c].persistence_code >= p.db[b].persistence_code
                /\ Live(q, c) /\ q.db[c] = p.db[c]
    <2>1. p.db[b].persistence_code > 0 /\ q.db[b] = p.db[b] /\ c \in Linked(p, b) \cup Keys(p, b) /\ c \in Blocks
      BY <1>8, <1>11, <1>12, <1>13
    <2>2. p.db[c].persistence_code >= p.db[b].persistence_code
      BY <2>1 DEF Sound, LinksSurvive
    <2>3. p.db[c].persistence_code > 0
      BY <2>1, <2>2, <1>12
    <2>4. QED
      BY <2>1, <2>2, <2>3, <1>8, <1>9
  <1>14. LinksLive(q) /\ LinksSurvive(q)
    BY <1>13 DEF LinksLive, LinksSurvive, Live
  <1>15. ListsEnd(q)
    <2>1. PICK rank \in [Blocks -> Nat], m \in Nat :
               \A b \in Blocks : rank[b] <= m /\ (p.db[b].next # Null => rank[p.db[b].next] < rank[b])
      BY DEF Sound, ListsEnd
    <2>2. \A b \in Blocks : q.db[b].next # Null => q.db[b].next = p.db[b].next
      BY <1>11
    <2>3. QED
      BY <2>1, <2>2 DEF ListsEnd
  <1>16. \A b \in Blocks : p.db[b].persistence_code > 0 => p.db[b].persistence_code # 0
    BY <1>12
  <1>17. Sound(V, q)
    BY <1>6, <1>10, <1>14, <1>15 DEF Sound
  <1>18. QED
    BY <1>8, <1>16, <1>17 DEF q

-----------------------------------------------------------------------------
\* A table with other fields.
WithFields(p, table, fields) == [p EXCEPT !.db[table].content = fields]

\* Replacing the fields of a table changes nothing else.
LEMMA WithFieldsResult ==
    ASSUME NEW V, Fields \subseteq V, NEW p \in PoolsOf(V), NEW table \in Blocks, p.db[table].type = "TABLE",
           NEW fields \in Seq(Fields)
    PROVE  /\ WithFields(p, table, fields) \in PoolsOf(V)
           /\ WithFields(p, table, fields).stack = p.stack
           /\ \A x \in Blocks : x # table => WithFields(p, table, fields).db[x] = p.db[x]
           /\ WithFields(p, table, fields).db[table].content = fields
           /\ WithFields(p, table, fields).db[table].type = "TABLE"
           /\ WithFields(p, table, fields).db[table].self_managed = p.db[table].self_managed
           /\ WithFields(p, table, fields).db[table].next = p.db[table].next
           /\ WithFields(p, table, fields).db[table].child = p.db[table].child
           /\ WithFields(p, table, fields).db[table].token = p.db[table].token
           /\ WithFields(p, table, fields).db[table].store = p.db[table].store
           /\ WithFields(p, table, fields).db[table].persistence_code = p.db[table].persistence_code
  <1> DEFINE d == [p.db[table] EXCEPT !.content = fields]
             q == WithFields(p, table, fields)
  <1>1. p.db \in [Blocks -> BlocksOf(V)] /\ p.stack \in Seq(Blocks) /\ DOMAIN p = {"db", "stack"}
    BY DEF PoolsOf
  <1>2. p.db[table] \in BlocksOf(V)
    BY <1>1
  <1>3. fields \in Seq(V)
    BY SeqMonotonic
  <1>4. /\ d.content = fields /\ d.next = p.db[table].next /\ d.type = p.db[table].type
        /\ d.self_managed = p.db[table].self_managed /\ d.child = p.db[table].child /\ d.token = p.db[table].token
        /\ d.store = p.db[table].store /\ d.persistence_code = p.db[table].persistence_code
    BY <1>2 DEF BlocksOf
  <1>5. d \in BlocksOf(V)
    <2>1. WellShaped(d)
      BY <1>4 DEF WellShaped
    <2>2. QED
      BY <2>1, <1>2, <1>3 DEF BlocksOf
  <1>6. q = [p EXCEPT !.db = [p.db EXCEPT ![table] = d]]
    BY DEF WithFields
  <1> HIDE DEF d
  <1>7. q \in PoolsOf(V)
    BY <1>5, <1>6 DEF PoolsOf
  <1>8. q.db = [p.db EXCEPT ![table] = d] /\ q.stack = p.stack
    BY <1>1, <1>6
  <1>9. q.db[table] = d /\ \A x \in Blocks : x # table => q.db[x] = p.db[x]
    BY <1>1, <1>8
  <1>10. QED
    BY <1>4, <1>7, <1>8, <1>9

\* The keys of a table are those of its fields.
LEMMA KeysOfFields ==
    ASSUME NEW p, NEW b, p.db[b].type = "TABLE"
    PROVE  \A c : c \in Keys(p, b) <=> \E i \in DOMAIN p.db[b].content : c = p.db[b].content[i].key
  BY DEF Keys

\* Fields with live keys that survive the table keep the pool sound.
LEMMA WithFieldsSound ==
    ASSUME NEW V, Fields \subseteq V, NEW p, Sound(V, p), NEW table \in Blocks, p.db[table].type = "TABLE",
           NEW fields \in Seq(Fields),
           \A i \in 1 .. Len(fields) :
             /\ Live(p, fields[i].key)
             /\ p.db[fields[i].key].persistence_code >= p.db[table].persistence_code
    PROVE  Sound(V, WithFields(p, table, fields))
  <1> DEFINE q == WithFields(p, table, fields)
  <1>1. p \in PoolsOf(V)
    BY DEF Sound
  <1>2. /\ q \in PoolsOf(V) /\ q.stack = p.stack /\ \A x \in Blocks : x # table => q.db[x] = p.db[x]
        /\ q.db[table].content = fields /\ q.db[table].next = p.db[table].next /\ q.db[table].type = "TABLE"
        /\ q.db[table].child = p.db[table].child /\ q.db[table].token = p.db[table].token
        /\ q.db[table].store = p.db[table].store
        /\ q.db[table].persistence_code = p.db[table].persistence_code
    BY <1>1, WithFieldsResult
  <1> HIDE DEF q
  <1>3. \A x \in Blocks : (Live(q, x) <=> Live(p, x)) /\ q.db[x].persistence_code = p.db[x].persistence_code
                          /\ Linked(q, x) = Linked(p, x) /\ q.db[x].next = p.db[x].next
    <2> TAKE x \in Blocks
    <2>1. CASE x = table
      BY <2>1, <1>2 DEF Live, Linked
    <2>2. CASE x # table
      BY <2>2, <1>2 DEF Live, Linked
    <2>3. QED
      BY <2>1, <2>2
  <1>4. \A x \in Blocks : x # table => Keys(q, x) = Keys(p, x)
    BY <1>2, SameKeys
  <1>5. \A x \in Blocks : Linked(p, x) \in SUBSET Blocks /\ Keys(q, x) \in SUBSET Blocks
    BY <1>1, <1>2, BlockTypes
  <1>6. \A c \in Keys(q, table) :
          Live(p, c) /\ p.db[c].persistence_code >= p.db[table].persistence_code
    <2> TAKE c \in Keys(q, table)
    <2>1. PICK i \in DOMAIN fields : c = fields[i].key
      BY <1>2, KeysOfFields
    <2>2. DOMAIN fields = 1 .. Len(fields)
      BY LenProperties
    <2>3. QED
      BY <2>1, <2>2
  <1>7. FreeStack(q)
    BY <1>2, <1>3 DEF FreeStack, Sound
  <1>8. LinksLive(q)
    <2> SUFFICES ASSUME NEW x \in Blocks, NEW c \in Linked(q, x) \cup Keys(q, x)
                 PROVE  Live(q, c)
      BY DEF LinksLive
    <2>1. c \in Blocks
      BY <1>3, <1>5
    <2>2. c \in Linked(p, x) => Live(p, c)
      BY DEF Sound, LinksLive
    <2>3. x # table /\ c \in Keys(p, x) => Live(p, c)
      BY DEF Sound, LinksLive
    <2>4. QED
      BY <2>1, <2>2, <2>3, <1>3, <1>4, <1>6
  <1>9. LinksSurvive(q)
    <2> SUFFICES ASSUME NEW x \in Blocks, q.db[x].persistence_code > 0, NEW c \in Linked(q, x) \cup Keys(q, x)
                 PROVE  q.db[c].persistence_code >= q.db[x].persistence_code
      BY <1>8 DEF LinksSurvive, LinksLive, Live
    <2>1. c \in Blocks
      BY <1>3, <1>5
    <2>2. p.db[x].persistence_code > 0
      BY <1>3
    <2>3. c \in Linked(p, x) \cup Keys(p, x) => p.db[c].persistence_code >= p.db[x].persistence_code
      BY <2>2 DEF Sound, LinksSurvive
    <2>4. CASE x = table /\ c \in Keys(q, x)
      BY <2>1, <2>4, <1>3, <1>6
    <2>5. CASE x # table \/ c \notin Keys(q, x)
      BY <2>1, <2>3, <2>5, <1>3, <1>4
    <2>6. QED
      BY <2>4, <2>5
  <1>10. ListsEnd(q)
    BY <1>3 DEF ListsEnd, Sound
  <1>11. QED
    BY <1>2, <1>7, <1>8, <1>9, <1>10 DEF Sound, q

\* Names: strings that manage their text and refer to nothing.
Name(p, b) == /\ b \in Blocks /\ p.db[b].type = "STRING" /\ p.db[b].self_managed
              /\ Linked(p, b) = {}

\* Taking one block.
LEMMA SingleTake ==
    ASSUME NEW V, NEW p, Sound(V, p), NEW d \in BlocksOf(V), Room(p, 1),
           d.type # "NONE", d.type # "TABLE", d.persistence_code = 0 \/ Refers(d) = {},
           \A c \in Refers(d) : Live(p, c)
    PROVE  /\ Sound(V, Take(p, <<d>>))
           /\ Top(p, 1) \in Blocks /\ ~Live(p, Top(p, 1)) /\ Top(p, 1) # Null
           /\ Take(p, <<d>>).db[Top(p, 1)] = d
           /\ \A x \in Blocks : x # Top(p, 1) => Take(p, <<d>>).db[x] = p.db[x]
           /\ \A x \in Blocks : Live(p, x) => Take(p, <<d>>).db[x] = p.db[x]
           /\ Len(Take(p, <<d>>).stack) = Len(p.stack) - 1
           /\ \A i \in 1 .. Len(p.stack) - 1 : Top(Take(p, <<d>>), i) = Top(p, 1 + i)
  <1> DEFINE new == <<d>>
  <1>1. new \in Seq(BlocksOf(V)) /\ Len(new) = 1 /\ \A i \in 1 .. 1 : new[i] = d
    OBVIOUS
  <1> HIDE DEF new
  <1>2. p \in PoolsOf(V) /\ FreeStack(p)
    BY DEF Sound
  <1>3. d.next = Null \/ Live(p, d.next)
    BY DEF Refers
  <1>4. Takeable(V, p, new)
    BY <1>1, <1>3 DEF Takeable
  <1>5. Sound(V, Take(p, new))
    BY <1>4, TakeSound
  <1>6. /\ \A i \in 1 .. Len(new) : Take(p, new).db[Top(p, i)] = new[i]
        /\ \A b \in Blocks : (\A i \in 1 .. Len(new) : b # Top(p, i)) => Take(p, new).db[b] = p.db[b]
        /\ \A b \in Blocks : Live(p, b) => Take(p, new).db[b] = p.db[b]
        /\ Len(Take(p, new).stack) = Len(p.stack) - Len(new)
        /\ \A i \in 1 .. Len(p.stack) - Len(new) : Top(Take(p, new), i) = Top(p, Len(new) + i)
    <2>1. new \in Seq(BlocksOf(V)) /\ Room(p, Len(new)) /\ \A i \in 1 .. Len(new) : new[i].type # "NONE"
      BY <1>4 DEF Takeable
    <2>2. QED
      BY <2>1, <1>2, TakeResult
  <1>7. Top(p, 1) \in Blocks /\ ~Live(p, Top(p, 1)) /\ Top(p, 1) # Null
    <2>1. 1 \in Nat /\ 1 \in 1 .. 1
      OBVIOUS
    <2>2. QED
      BY <2>1, <1>2, TopIsFree
  <1>8. \A i \in 1 .. 1 : i = 1
    OBVIOUS
  <1>9. QED
    BY <1>1, <1>5, <1>6, <1>7, <1>8 DEF new

\* The key that a table gets of a name: a copy, with the code of the table.
LEMMA WithKeyResult ==
    ASSUME NEW V, NEW p, Sound(V, p), NEW table \in Blocks, Live(p, table), NEW key, Name(p, key), Room(p, 1)
    PROVE  /\ Sound(V, WithKey(p, table, key))
           /\ KeyTaken(p, key) = Top(p, 1) /\ Top(p, 1) \in Blocks /\ ~Live(p, Top(p, 1)) /\ Top(p, 1) # Null
           /\ \A x \in Blocks : x # Top(p, 1) => Stays(p, WithKey(p, table, key), x)
                                  /\ WithKey(p, table, key).db[x].persistence_code = p.db[x].persistence_code
           /\ WithKey(p, table, key).db[Top(p, 1)].type = "STRING"
           /\ WithKey(p, table, key).db[Top(p, 1)].content = p.db[key].content
           /\ WithKey(p, table, key).db[Top(p, 1)].next = Null
           /\ WithKey(p, table, key).db[Top(p, 1)].persistence_code >= p.db[table].persistence_code
           /\ Len(WithKey(p, table, key).stack) = Len(p.stack) - 1
           /\ \A i \in 1 .. Len(p.stack) - 1 : Top(WithKey(p, table, key), i) = Top(p, 1 + i)
  <1> DEFINE d == [p.db[key] EXCEPT !.persistence_code = 0]
             c == Take(p, <<d>>)
             k == Top(p, 1)
             code == p.db[table].persistence_code
             q == SetPersistenceCode(c, k, code)
  <1>1. /\ p \in PoolsOf(V) /\ key \in Blocks /\ p.db[key] \in BlocksOf(V) /\ code \in Nat
        /\ p.db[key].type = "STRING" /\ p.db[key].self_managed /\ Linked(p, key) = {}
    BY BlockTypes DEF Sound, Name
  <1>2. /\ d.type = "STRING" /\ d.persistence_code = 0 /\ d.content = p.db[key].content
        /\ d.next = p.db[key].next /\ d.child = p.db[key].child /\ d.token = p.db[key].token
        /\ d.store = p.db[key].store
    BY <1>1 DEF BlocksOf
  <1>3. d \in BlocksOf(V)
    BY <1>1 DEF BlocksOf, WellShaped
  <1>4. Refers(d) = {} /\ d.next = Null
    BY <1>1, <1>2 DEF Refers, Linked
  <1>5. WithKey(p, table, key) = q /\ KeyTaken(p, key) = k
    BY <1>1 DEF WithKey, KeyTaken
  <1> HIDE DEF d
  <1>6. /\ Sound(V, c) /\ k \in Blocks /\ ~Live(p, k) /\ k # Null /\ c.db[k] = d
        /\ \A x \in Blocks : x # k => c.db[x] = p.db[x]
        /\ Len(c.stack) = Len(p.stack) - 1
        /\ \A i \in 1 .. Len(p.stack) - 1 : Top(c, i) = Top(p, 1 + i)
    BY <1>2, <1>3, <1>4, SingleTake
  <1> HIDE DEF c, k
  <1>7. Live(c, k) /\ Linked(c, k) = {} /\ Keys(c, k) = {}
    BY <1>2, <1>4, <1>6 DEF Live, Linked, Refers, Keys
  <1>8. /\ q.stack = c.stack /\ \A x \in Blocks : Stays(c, q, x)
        /\ q.db[k].persistence_code >= code
        /\ \A x \in Blocks : q.db[x].persistence_code = IF x \in Raised(c, k, code) THEN code ELSE c.db[x].persistence_code
        /\ Sound(V, q)
    BY <1>1, <1>6, <1>7, SetCodeResult, SetCodeSound
  <1> HIDE DEF code
  <1>9. Raised(c, k, code) \subseteq {k}
    <2>1. c \in PoolsOf(V) /\ {k} \in SUBSET Blocks /\ \A x \in {k} : Linked(c, x) \cup Keys(c, x) \subseteq {k}
      BY <1>6, <1>7 DEF Sound
    <2>2. \A C \in SUBSET Blocks : k \in C /\ (\A x \in C : Linked(c, x) \cup Keys(c, x) \subseteq C)
            => Raised(c, k, code) \subseteq C
      BY <2>1, <1>1, <1>6, RaisedResult
    <2>3. QED
      BY <2>1, <2>2
  <1> HIDE DEF q
  <1>10. \A x \in Blocks : x # k => Stays(p, q, x) /\ q.db[x].persistence_code = p.db[x].persistence_code
    BY <1>6, <1>8, <1>9 DEF Stays
  <1>11. q.db[k].type = "STRING" /\ q.db[k].content = p.db[key].content /\ q.db[k].next = Null
    BY <1>2, <1>4, <1>6, <1>8 DEF Stays
  <1>12. \A i \in 1 .. Len(p.stack) - 1 : Top(q, i) = Top(p, 1 + i)
    BY <1>6, <1>8 DEF Top
  <1>13. QED
    BY <1>5, <1>6, <1>8, <1>10, <1>11, <1>12 DEF k, code

-----------------------------------------------------------------------------
\* From p to q, blocks that are live stay what they are.  Those in W may get
\* another next block, or more content where they are containers or tables.
Touches(p, q, W) ==
    \A x \in Blocks : Live(p, x) =>
      /\ x \notin W => q.db[x] = p.db[x]
      /\ q.db[x].type = p.db[x].type /\ q.db[x].persistence_code = p.db[x].persistence_code
      /\ q.db[x].token = p.db[x].token /\ q.db[x].store = p.db[x].store
      /\ p.db[x].type \in {"STRING", "EXTERNAL"} => q.db[x].content = p.db[x].content

\* One operation after another.
LEMMA TouchesBoth ==
    ASSUME NEW p, NEW q, NEW r, NEW W, NEW U, Touches(p, q, W), Touches(q, r, U)
    PROVE  Touches(p, r, W \cup U)
  <1> SUFFICES ASSUME NEW x \in Blocks, Live(p, x)
               PROVE  /\ x \notin W \cup U => r.db[x] = p.db[x]
                      /\ r.db[x].type = p.db[x].type /\ r.db[x].persistence_code = p.db[x].persistence_code
                      /\ r.db[x].token = p.db[x].token /\ r.db[x].store = p.db[x].store
                      /\ p.db[x].type \in {"STRING", "EXTERNAL"} => r.db[x].content = p.db[x].content
    BY DEF Touches
  <1>1. Live(q, x)
    BY DEF Touches, Live
  <1>2. QED
    BY <1>1 DEF Touches

\* The text of a block that is live stays.
LEMMA TextStays ==
    ASSUME NEW p, NEW q, NEW W, Touches(p, q, W), NEW x \in Blocks, Live(p, x)
    PROVE  Live(q, x) /\ TextOf(q, x) = TextOf(p, x)
  BY DEF Touches, Live, TextOf

\* What a table has it has in any pool with the same table and texts.
LEMMA HasStays ==
    ASSUME NEW V, NEW p, Sound(V, p), NEW q, NEW W, Touches(p, q, W),
           NEW table \in Blocks, p.db[table].type = "TABLE", q.db[table].content = p.db[table].content, NEW text
    PROVE  FieldsWith(q, table, text) = FieldsWith(p, table, text) /\ Has(q, table, text) = Has(p, table, text)
  <1>1. \A i \in DOMAIN p.db[table].content : p.db[table].content[i].key \in Keys(p, table)
    BY DEF Keys
  <1>2. Live(p, table) /\ p \in PoolsOf(V) /\ LinksLive(p)
    BY DEF Sound, Live
  <1>3. \A c \in Keys(p, table) : c \in Blocks /\ Live(p, c)
    BY <1>2, BlockTypes DEF LinksLive
  <1>4. \A i \in DOMAIN p.db[table].content :
           TextOf(q, q.db[table].content[i].key) = TextOf(p, p.db[table].content[i].key)
    BY <1>1, <1>3, TextStays
  <1>5. FieldsWith(q, table, text) = FieldsWith(p, table, text)
    BY <1>4 DEF FieldsWith
  <1>6. QED
    BY <1>5 DEF Has

\* A block is all of its fields.
LEMMA SameBlock ==
    ASSUME NEW V, NEW p \in PoolsOf(V), NEW q \in PoolsOf(V), NEW x \in Blocks, Stays(p, q, x),
           q.db[x].persistence_code = p.db[x].persistence_code
    PROVE  q.db[x] = p.db[x]
  <1>1. p.db[x] \in BlocksOf(V) /\ q.db[x] \in BlocksOf(V)
    BY BlockTypes
  <1>2. QED
    BY <1>1 DEF BlocksOf, Stays

\* Blocks have no code below 0, so code 0 is never passed on.
LEMMA SetCodeZero ==
    ASSUME NEW V, NEW p \in PoolsOf(V), NEW b \in Blocks
    PROVE  SetPersistenceCode(p, b, 0) = p
  <1>1. \A x \in Blocks : p.db[x].persistence_code \in Nat
    BY BlockTypes
  <1>2. Raised(p, b, 0) = {}
    <2>1. Raised(p, b, 0) \in SUBSET Blocks /\ \A x \in Raised(p, b, 0) : p.db[x].persistence_code < 0
      BY RaisedResult
    <2>2. QED
      BY <2>1, <1>1
  <1>3. p.db = [x \in Blocks |-> p.db[x]] /\ p \in [db : [Blocks -> BlocksOf(V)], stack : Seq(Blocks)]
    BY DEF PoolsOf
  <1>4. SetPersistenceCode(p, b, 0) = [p EXCEPT !.db = [x \in Blocks |-> p.db[x]]]
    BY <1>2 DEF SetPersistenceCode
  <1>5. QED
    BY <1>3, <1>4

\* Taking one block touches nothing that is live.
LEMMA TakeTouches ==
    ASSUME NEW V, NEW p, Sound(V, p), NEW d \in BlocksOf(V), Room(p, 1),
           d.type # "NONE", d.type # "TABLE", d.persistence_code = 0 \/ Refers(d) = {},
           \A c \in Refers(d) : Live(p, c)
    PROVE  Touches(p, Take(p, <<d>>), {})
  BY SingleTake DEF Touches

\* new_object touches the container.
LEMMA NewObjectTouches ==
    ASSUME NEW V, NEW p, Sound(V, p), NEW b \in Blocks, NEW object \in V, p.db[b].type = "UNSPECIFIED"
    PROVE  Touches(p, NewObject(p, b, object), {b})
  <1>1. p \in PoolsOf(V)
    BY DEF Sound
  <1> DEFINE q == NewObject(p, b, object)
  <1>2. /\ \A x \in Blocks : x # b => q.db[x] = p.db[x]
        /\ q.db[b].type = p.db[b].type /\ q.db[b].persistence_code = p.db[b].persistence_code
        /\ q.db[b].token = p.db[b].token /\ q.db[b].store = p.db[b].store
    BY <1>1, NewObjectResult
  <1> HIDE DEF q
  <1>3. Touches(p, q, {b})
    <2> SUFFICES ASSUME NEW x \in Blocks, Live(p, x)
                 PROVE  /\ x \notin {b} => q.db[x] = p.db[x]
                        /\ q.db[x].type = p.db[x].type /\ q.db[x].persistence_code = p.db[x].persistence_code
                        /\ q.db[x].token = p.db[x].token /\ q.db[x].store = p.db[x].store
                        /\ p.db[x].type \in {"STRING", "EXTERNAL"} => q.db[x].content = p.db[x].content
      BY DEF Touches
    <2>1. CASE x = b
      BY <2>1, <1>2
    <2>2. CASE x # b
      BY <2>2, <1>2
    <2>3. QED
      BY <2>1, <2>2
  <1>4. QED
    BY <1>3 DEF q

\* Setting the next block touches the block.
LEMMA LinkTouches ==
    ASSUME NEW V, NEW p, Sound(V, p), NEW b \in Blocks, NEW c \in Blocks, Live(p, b)
    PROVE  Touches(p, Link(p, b, c), {b})
  <1>1. p \in PoolsOf(V)
    BY DEF Sound
  <1> DEFINE q == Link(p, b, c)
  <1>2. /\ \A x \in Blocks : x # b => q.db[x] = p.db[x]
        /\ q.db[b].type = p.db[b].type /\ q.db[b].persistence_code = p.db[b].persistence_code
        /\ q.db[b].token = p.db[b].token /\ q.db[b].store = p.db[b].store
        /\ q.db[b].content = p.db[b].content
    BY <1>1, LinkResult
  <1> HIDE DEF q
  <1>3. Touches(p, q, {b})
    <2> SUFFICES ASSUME NEW x \in Blocks, Live(p, x)
                 PROVE  /\ x \notin {b} => q.db[x] = p.db[x]
                        /\ q.db[x].type = p.db[x].type /\ q.db[x].persistence_code = p.db[x].persistence_code
                        /\ q.db[x].token = p.db[x].token /\ q.db[x].store = p.db[x].store
                        /\ p.db[x].type \in {"STRING", "EXTERNAL"} => q.db[x].content = p.db[x].content
      BY DEF Touches
    <2>1. CASE x = b
      BY <2>1, <1>2
    <2>2. CASE x # b
      BY <2>2, <1>2
    <2>3. QED
      BY <2>1, <2>2
  <1>4. QED
    BY <1>3 DEF q

\* Replacing the fields touches the table.
LEMMA WithFieldsTouches ==
    ASSUME NEW V, Fields \subseteq V, NEW p \in PoolsOf(V), NEW table \in Blocks, p.db[table].type = "TABLE",
           NEW fields \in Seq(Fields), NEW q, q = WithFields(p, table, fields)
    PROVE  Touches(p, q, {table}) /\ q.db[table].next = p.db[table].next
  <1>1. /\ \A x \in Blocks : x # table => q.db[x] = p.db[x]
        /\ q.db[table].type = p.db[table].type /\ q.db[table].persistence_code = p.db[table].persistence_code
        /\ q.db[table].token = p.db[table].token /\ q.db[table].store = p.db[table].store
        /\ q.db[table].next = p.db[table].next
    BY WithFieldsResult
  <1>2. Touches(p, q, {table})
    <2> SUFFICES ASSUME NEW x \in Blocks, Live(p, x)
                 PROVE  /\ x \notin {table} => q.db[x] = p.db[x]
                        /\ q.db[x].type = p.db[x].type /\ q.db[x].persistence_code = p.db[x].persistence_code
                        /\ q.db[x].token = p.db[x].token /\ q.db[x].store = p.db[x].store
                        /\ p.db[x].type \in {"STRING", "EXTERNAL"} => q.db[x].content = p.db[x].content
      BY DEF Touches
    <2>1. CASE x = table
      BY <2>1, <1>1
    <2>2. CASE x # table
      BY <2>2, <1>1
    <2>3. QED
      BY <2>1, <2>2
  <1>3. QED
    BY <1>1, <1>2

\* The fields of a table.
LEMMA TableFields ==
    ASSUME NEW V, NEW p, Sound(V, p), NEW table \in Blocks, p.db[table].type = "TABLE"
    PROVE  /\ p \in PoolsOf(V) /\ Live(p, table)
           /\ p.db[table].content \in Seq(Fields)
           /\ DOMAIN p.db[table].content = 1 .. Len(p.db[table].content)
           /\ Len(p.db[table].content) \in Nat
           /\ \A i \in 1 .. Len(p.db[table].content) :
                LET field == p.db[table].content[i]
                IN  /\ field \in Fields /\ field.key \in Blocks /\ field.value \in Nat
                    /\ field.key \in Keys(p, table) /\ Live(p, field.key)
                    /\ p.db[field.key].persistence_code >= p.db[table].persistence_code
  <1> DEFINE content == p.db[table].content
  <1>1. p \in PoolsOf(V) /\ content \in Seq(Fields) /\ Live(p, table) /\ DOMAIN content = 1 .. Len(content)
    <2>1. p \in PoolsOf(V)
      BY DEF Sound
    <2>2. content \in Seq(Fields)
      BY <2>1, BlockTypes DEF WellShaped
    <2>3. QED
      BY <2>1, <2>2, LenProperties DEF Live
  <1>2. ASSUME NEW i \in 1 .. Len(content)
        PROVE  /\ content[i] \in Fields /\ content[i].key \in Blocks /\ content[i].value \in Nat
               /\ content[i].key \in Keys(p, table) /\ Live(p, content[i].key)
               /\ p.db[content[i].key].persistence_code >= p.db[table].persistence_code
    <2>1. content[i] \in Fields
      BY <1>1, ElementOfSeq
    <2>2. content[i].key \in Keys(p, table)
      BY <1>1, KeysOfFields
    <2>3. Live(p, content[i].key)
      BY <2>2 DEF Sound, LinksLive
    <2>4. p.db[table].persistence_code > 0
            => p.db[content[i].key].persistence_code >= p.db[table].persistence_code
      BY <2>2 DEF Sound, LinksSurvive
    <2>5. p.db[table].persistence_code \in Nat /\ p.db[content[i].key].persistence_code \in Nat
      BY <1>1, <2>1, BlockTypes DEF Fields
    <2>6. content[i].key \in Blocks /\ content[i].value \in Nat
      BY <2>1 DEF Fields
    <2>7. p.db[content[i].key].persistence_code >= p.db[table].persistence_code
      BY <2>4, <2>5
    <2>8. QED
      BY <2>1, <2>2, <2>3, <2>6, <2>7
  <1>3. Len(content) \in Nat
    BY <1>1, LenProperties
  <1>4. QED
    BY <1>1, <1>2, <1>3

\* From p to q, the table has value for text: in a field that it had, or in a new
\* one whose key is a block of its own.
FieldPut(p, q, table, text, value) ==
    LET old == p.db[table].content
        new == q.db[table].content
    IN  \/ /\ Has(p, table, text)
           /\ \E i \in FieldsWith(p, table, text) :
                /\ i = CHOOSE j \in FieldsWith(p, table, text) : TRUE
                /\ i \in 1 .. Len(old) /\ Len(new) = Len(old)
                /\ \A j \in 1 .. Len(old) :
                     new[j] = IF j = i THEN [key |-> old[i].key, value |-> value] ELSE old[j]
        \/ /\ ~Has(p, table, text)
           /\ \E k \in Blocks : /\ ~Live(p, k) /\ Live(q, k) /\ TextOf(q, k) = text
                                /\ new = Append(old, [key |-> k, value |-> value])

\* A put of a key that the table has replaces the value of a field.
LEMMA PutAgain ==
    ASSUME NEW V, Fields \subseteq V, NEW p, Sound(V, p), NEW table \in Blocks, p.db[table].type = "TABLE",
           NEW key, Name(p, key), NEW value \in Nat, Has(p, table, TextOf(p, key)),
           NEW q, q = Put(p, table, key, value)
    PROVE  /\ Sound(V, q)
           /\ Touches(p, q, {table})
           /\ q.db[table].next = p.db[table].next
           /\ q.stack = p.stack
           /\ FieldPut(p, q, table, TextOf(p, key), value)
  <1> DEFINE text == TextOf(p, key)
             content == p.db[table].content
             found == FieldsWith(p, table, text)
  <1>0. /\ p \in PoolsOf(V) /\ content \in Seq(Fields) /\ Live(p, table)
        /\ DOMAIN content = 1 .. Len(content) /\ Len(content) \in Nat
        /\ \A i \in 1 .. Len(content) :
             /\ content[i] \in Fields /\ content[i].key \in Blocks
             /\ content[i].key \in Keys(p, table) /\ Live(p, content[i].key)
             /\ p.db[content[i].key].persistence_code >= p.db[table].persistence_code
    BY TableFields
  <1>1. (CHOOSE j \in found : TRUE) \in found
    BY DEF Has
  <1>2. PICK n \in 1 .. Len(content) : n \in found /\ n = CHOOSE j \in found : TRUE
    BY <1>1, <1>0 DEF FieldsWith
  <1> DEFINE field == [key |-> content[n].key, value |-> value]
             fields == [content EXCEPT ![n] = field]
  <1>3. content[n] = [key |-> content[n].key, value |-> content[n].value] /\ field \in Fields
    BY <1>0 DEF Fields
  <1>4. [content[n] EXCEPT !.value = value] = field
    BY <1>3
  <1>5. q = WithFields(p, table, fields)
    <2>1. q = [p EXCEPT !.db[table].content[n].value = value]
      BY <1>2 DEF Put, Has
    <2>2. [p EXCEPT !.db[table].content[n].value = value]
            = [p EXCEPT !.db[table].content = [content EXCEPT ![n] = [content[n] EXCEPT !.value = value]]]
      OBVIOUS
    <2>3. QED
      BY <2>1, <2>2, <1>4 DEF WithFields
  <1> HIDE DEF field
  <1>6. /\ fields \in Seq(Fields) /\ Len(fields) = Len(content)
        /\ \A j \in 1 .. Len(content) : fields[j] = IF j = n THEN field ELSE content[j]
    <2> HIDE DEF content
    <2>1. QED
      BY <1>3, <1>0, ExceptSeq
  <1> HIDE DEF fields
  <1>7. \A j \in 1 .. Len(fields) : fields[j].key = content[j].key
    BY <1>6 DEF field
  <1>8. Sound(V, q)
    BY <1>5, <1>6, <1>7, <1>0, WithFieldsSound
  <1>9. q.stack = p.stack /\ q.db[table].content = fields
    BY <1>5, <1>6, <1>0, WithFieldsResult
  <1>10. Touches(p, q, {table}) /\ q.db[table].next = p.db[table].next
    BY <1>5, <1>6, <1>0, WithFieldsTouches
  <1>11. /\ n \in found /\ n = (CHOOSE j \in found : TRUE)
         /\ n \in 1 .. Len(content)
         /\ Len(q.db[table].content) = Len(content)
         /\ \A j \in 1 .. Len(content) : q.db[table].content[j]
              = IF j = n THEN [key |-> content[n].key, value |-> value] ELSE content[j]
    BY <1>2, <1>6, <1>9 DEF field
  <1> HIDE DEF found, content, text
  <1>12. FieldPut(p, q, table, text, value)
    <2>1. Has(p, table, text)
      BY DEF text
    <2>2. QED
      BY <2>1, <1>11, Zenon DEF found, content, FieldPut
  <1>13. QED
    BY <1>8, <1>9, <1>10, <1>12 DEF text
Taken(p, q, n) == Len(q.stack) = Len(p.stack) - n

\* A put of another key takes a block for it and adds a field.
LEMMA PutNew ==
    ASSUME NEW V, Fields \subseteq V, NEW p, Sound(V, p), NEW table \in Blocks, p.db[table].type = "TABLE",
           NEW key, Name(p, key), NEW value \in Nat, ~Has(p, table, TextOf(p, key)), Room(p, 1),
           NEW q, q = Put(p, table, key, value)
    PROVE  /\ Sound(V, q)
           /\ Touches(p, q, {table})
           /\ q.db[table].next = p.db[table].next
           /\ FieldPut(p, q, table, TextOf(p, key), value)
           /\ Taken(p, q, 1)
  <1> DEFINE text == TextOf(p, key)
             content == p.db[table].content
             found == FieldsWith(p, table, text)
  <1>0. /\ p \in PoolsOf(V) /\ content \in Seq(Fields) /\ Live(p, table)
        /\ DOMAIN content = 1 .. Len(content) /\ Len(content) \in Nat
        /\ \A i \in 1 .. Len(content) :
             /\ content[i] \in Fields /\ content[i].key \in Blocks
             /\ content[i].key \in Keys(p, table) /\ Live(p, content[i].key)
             /\ p.db[content[i].key].persistence_code >= p.db[table].persistence_code
    BY TableFields
  <1> DEFINE w == WithKey(p, table, key)
             k == Top(p, 1)
             fields == Append(content, [key |-> k, value |-> value])
  <1>1. /\ Sound(V, w) /\ KeyTaken(p, key) = k /\ k \in Blocks /\ ~Live(p, k) /\ k # Null
        /\ \A x \in Blocks : x # k => Stays(p, w, x) /\ w.db[x].persistence_code = p.db[x].persistence_code
        /\ w.db[k].type = "STRING" /\ w.db[k].content = p.db[key].content /\ w.db[k].next = Null
        /\ w.db[k].persistence_code >= p.db[table].persistence_code
        /\ Len(w.stack) = Len(p.stack) - 1
        /\ \A i \in 1 .. Len(p.stack) - 1 : Top(w, i) = Top(p, 1 + i)
    BY <1>0, WithKeyResult
  <1>2. q = [w EXCEPT !.db[table].content = Append(@, [key |-> k, value |-> value])]
    BY <1>1 DEF Put, Has
  <1> HIDE DEF w, k
  <1>3. table # k /\ w \in PoolsOf(V)
    BY <1>1, <1>0 DEF Sound
  <1>4. \A x \in Blocks : x # k => w.db[x] = p.db[x]
    BY <1>0, <1>1, <1>3, SameBlock
  <1>5. w.db[table].content = content /\ w.db[table].type = "TABLE" /\ w.db[table].next = p.db[table].next
    BY <1>3, <1>4
  <1>6. q = WithFields(w, table, fields)
    BY <1>2, <1>5 DEF WithFields
  <1>7. [key |-> k, value |-> value] \in Fields
    BY <1>1 DEF Fields
  <1>8. /\ fields \in Seq(Fields) /\ Len(fields) = Len(content) + 1
        /\ \A i \in 1 .. Len(content) : fields[i] = content[i]
        /\ fields[Len(content) + 1] = [key |-> k, value |-> value]
    <2>1. content \in Seq(Fields)
      BY <1>0
    <2> HIDE DEF content
    <2>2. QED
      BY <1>7, <2>1, AppendProperties
  <1>9. ASSUME NEW i \in 1 .. Len(fields)
        PROVE  /\ Live(w, fields[i].key)
               /\ w.db[fields[i].key].persistence_code >= w.db[table].persistence_code
    <2> HIDE DEF fields
    <2>1. CASE i = Len(content) + 1
      <3>1. fields[i].key = k
        BY <2>1, <1>8
      <3>2. w.db[table].persistence_code = p.db[table].persistence_code
        BY <1>3, <1>4
      <3>3. QED
        BY <3>1, <3>2, <1>1 DEF Live
    <2>2. CASE i # Len(content) + 1
      <3>1. i \in 1 .. Len(content)
        BY <1>0, <2>2, <1>8
      <3>2. fields[i].key = content[i].key /\ content[i].key # k /\ content[i].key \in Blocks
        BY <3>1, <1>1, <1>8, <1>0
      <3>3. w.db[content[i].key] = p.db[content[i].key] /\ w.db[table] = p.db[table]
        BY <3>2, <1>3, <1>4
      <3>4. Live(p, content[i].key) /\ p.db[content[i].key].persistence_code >= p.db[table].persistence_code
        BY <3>1, <1>0
      <3>5. QED
        BY <3>2, <3>3, <3>4 DEF Live
    <2>3. QED
      BY <2>1, <2>2
  <1> HIDE DEF fields
  <1>10. Sound(V, q)
    BY <1>1, <1>5, <1>6, <1>8, <1>9, WithFieldsSound
  <1>11. /\ q.stack = w.stack /\ \A x \in Blocks : x # table => q.db[x] = w.db[x]
         /\ q.db[table].content = fields /\ q.db[table].next = w.db[table].next
    BY <1>3, <1>5, <1>6, <1>8, WithFieldsResult
  <1>12. Touches(p, q, {table})
    <2>1. Touches(w, q, {table})
      BY <1>3, <1>5, <1>6, <1>8, WithFieldsTouches
    <2>2. Touches(p, w, {})
      BY <1>1, <1>4 DEF Touches
    <2>3. {} \cup {table} = {table}
      OBVIOUS
    <2>4. QED
      BY <2>1, <2>2, <2>3, TouchesBoth
  <1>13. q.db[k].type = "STRING" /\ q.db[k].content = p.db[key].content /\ Len(q.stack) = Len(p.stack) - 1
    BY <1>1, <1>3, <1>11
  <1>14. q.db[table].content = Append(content, [key |-> k, value |-> value])
    BY <1>11 DEF fields
  <1>15. Live(q, k) /\ TextOf(q, k) = text
    BY <1>13 DEF Live, TextOf, Name
  <1> HIDE DEF content, text
  <1>16. FieldPut(p, q, table, text, value)
    <2>1. ~Has(p, table, text)
      BY DEF text
    <2>2. QED
      BY <2>1, <1>1, <1>14, <1>15, Zenon DEF content, FieldPut
  <1>17. QED
    BY <1>5, <1>10, <1>11, <1>12, <1>13, <1>16 DEF text, Taken
\* Either way: the table alone is touched, and a block is taken for a new key only.
One(b) == IF b THEN 1 ELSE 0

\* put keeps the pool sound and touches the table, whichever of its ways it takes.
LEMMA PutKeeps ==
    ASSUME NEW V, Fields \subseteq V, NEW p, Sound(V, p), NEW table \in Blocks, p.db[table].type = "TABLE",
           NEW key, Name(p, key), NEW text, text = TextOf(p, key), NEW value \in Nat,
           Has(p, table, text) \/ Room(p, 1), NEW q, q = Put(p, table, key, value)
    PROVE  /\ Sound(V, q) /\ Touches(p, q, {table})
           /\ FieldPut(p, q, table, text, value)
           /\ Has(p, table, text) => Taken(p, q, 0)
           /\ ~Has(p, table, text) => Taken(p, q, 1)
  <1>1. Len(p.stack) \in Nat
    <2>1. p \in PoolsOf(V)
      BY DEF Sound
    <2>2. QED
      BY <2>1, BlockTypes
  <1>2. CASE Has(p, table, text)
    <2>1. Sound(V, q) /\ Touches(p, q, {table}) /\ q.stack = p.stack /\ FieldPut(p, q, table, text, value)
      BY <1>2, PutAgain
    <2>2. QED
      BY <1>1, <1>2, <2>1 DEF Taken
  <1>3. CASE ~Has(p, table, text)
    <2>1. Room(p, 1)
      BY <1>3
    <2>2. ~Has(p, table, TextOf(p, key))
      BY <1>3
    <2>3. /\ Sound(V, q) /\ Touches(p, q, {table}) /\ Taken(p, q, 1)
          /\ FieldPut(p, q, table, TextOf(p, key), value)
      BY <2>1, <2>2, PutNew
    <2>4. QED
      BY <1>3, <2>3
  <1>4. QED
    BY <1>2, <1>3

-----------------------------------------------------------------------------
\* Lists of blocks.
LEMMA ChainStep ==
    ASSUME NEW V, NEW p \in PoolsOf(V), ListsEnd(p)
    PROVE  /\ Chain(p, Null) = <<>>
           /\ \A b \in Blocks : Chain(p, b) = <<b>> \o Chain(p, p.db[b].next)
  <1> DEFINE next(x) == p.db[x].next
             Step(f, x) == IF x = Null THEN <<>> ELSE <<x>> \o f[next(x)]
  <1>1. PICK rank \in [Blocks -> Nat], m \in Nat :
             \A b \in Blocks : rank[b] <= m /\ (next(b) # Null => rank[next(b)] < rank[b])
    BY DEF ListsEnd
  <1>2. \A b \in Blocks : next(b) \in Blocks \cup {Null} /\ b # Null
    BY BlockTypes, CapacityAssumption DEF Blocks, Null
  <1>3. Null \notin Blocks
    BY <1>2
  <1> DEFINE Below(n) == {b \in Blocks : rank[b] < n} \cup {Null}
             Upto(n) == \E f : f = [x \in Below(n) |-> Step(f, x)]
             Bad == {n \in Nat : ~Upto(n)}
  <1> HIDE DEF next
  <1>4. Bad = {}
    <2> SUFFICES ASSUME Bad # {}
                 PROVE  FALSE
      OBVIOUS
    <2>1. PICK n \in Bad : \A k \in Bad : n <= k
      BY LeastNumber
    <2>2. Upto(0)
      <3>1. Below(0) = {Null}
        BY <1>1
      <3>2. [x \in Below(0) |-> <<>>] = [x \in Below(0) |-> Step([y \in Below(0) |-> <<>>], x)]
        BY <3>1
      <3>3. QED
        BY <3>2
    <2>3. n \in Nat /\ n # 0
      BY <2>2
    <2>4. n - 1 \in Nat /\ n - 1 \notin Bad
      <3>1. n - 1 \in Nat /\ ~(n <= n - 1)
        BY <2>3
      <3> HIDE DEF Bad
      <3>2. QED
        BY <3>1, <2>1
    <2>5. PICK f : f = [x \in Below(n - 1) |-> Step(f, x)]
      BY <2>4
    <2> DEFINE g == [x \in Below(n) |-> IF x \in Below(n - 1) THEN f[x] ELSE Step(f, x)]
    <2>6. \A x \in Below(n) : x = Null \/ next(x) \in Below(n - 1)
      BY <1>1, <1>2, <2>3
    <2>7. \A x \in Below(n - 1) : x \in Below(n) /\ g[x] = f[x]
      BY <1>1, <2>3
    <2>8. ASSUME NEW x \in Below(n)
          PROVE  g[x] = Step(g, x)
      <3>1. Step(g, x) = Step(f, x)
        <4> HIDE DEF g, Below
        <4>1. QED
          BY <2>6, <2>7
      <3>2. x \in Below(n - 1) => f[x] = Step(f, x)
        BY <2>5
      <3>3. QED
        BY <3>1, <3>2
    <2>9. g = [x \in Below(n) |-> Step(g, x)]
      BY <2>8
    <2>10. Upto(n)
      <3> HIDE DEF g, Below
      <3>1. QED
        BY <2>9
    <2>11. QED
      BY <2>1, <2>10
  <1>5. Below(m + 1) = Blocks \cup {Null} /\ m + 1 \in Nat
    BY <1>1
  <1> DEFINE chosen == CHOOSE f : f = [x \in Blocks \cup {Null} |-> Step(f, x)]
  <1>6. \E f : f = [x \in Blocks \cup {Null} |-> Step(f, x)]
    <2>1. Upto(m + 1)
      <3> HIDE DEF Upto
      <3>1. QED
        BY <1>4, <1>5
    <2>2. QED
      BY <2>1, <1>5
  <1>7. chosen = [x \in Blocks \cup {Null} |-> Step(chosen, x)]
    BY <1>6
  <1>8. \A b : Chain(p, b) = chosen[b]
    BY DEF Chain, next
  <1> HIDE DEF chosen
  <1>9. \A x \in Blocks \cup {Null} : chosen[x] = Step(chosen, x)
    BY <1>7
  <1>10. QED
    BY <1>2, <1>3, <1>8, <1>9 DEF next

\* A list stays in a set that the links do not leave.
LEMMA ChainInside ==
    ASSUME NEW V, NEW p \in PoolsOf(V), ListsEnd(p), NEW K \in SUBSET Blocks,
           \A x \in K : p.db[x].next \in K \cup {Null},
           NEW b \in K \cup {Null}
    PROVE  Chain(p, b) \in Seq(K)
  <1>1. PICK rank \in [Blocks -> Nat], m \in Nat :
             \A x \in Blocks : rank[x] <= m /\ (p.db[x].next # Null => rank[p.db[x].next] < rank[x])
    BY DEF ListsEnd
  <1>2. Chain(p, Null) = <<>> /\ \A x \in Blocks : Chain(p, x) = <<x>> \o Chain(p, p.db[x].next)
    BY ChainStep
  <1> DEFINE Bad == {x \in K : Chain(p, x) \notin Seq(K)}
             D == {rank[x] : x \in Bad}
  <1>3. Bad = {}
    <2> SUFFICES ASSUME Bad # {}
                 PROVE  FALSE
      OBVIOUS
    <2>1. D \in SUBSET Nat /\ D # {}
      OBVIOUS
    <2>2. PICK x \in Bad : \A y \in Bad : rank[x] <= rank[y]
      <3>1. \E n \in D : \A k \in D : n <= k
        BY <2>1, LeastNumber
      <3>2. QED
        BY <3>1
    <2>3. x \in K /\ x \in Blocks /\ p.db[x].next \in K \cup {Null}
      OBVIOUS
    <2>4. Chain(p, p.db[x].next) \in Seq(K)
      <3>1. CASE p.db[x].next = Null
        BY <3>1, <1>2, EmptySeq
      <3>2. CASE p.db[x].next # Null
        <4>1. rank[p.db[x].next] < rank[x] /\ rank[x] \in Nat /\ rank[p.db[x].next] \in Nat
          BY <3>2, <2>3, <1>1
        <4>2. p.db[x].next \notin Bad
          BY <4>1, <2>2
        <4>3. QED
          BY <4>2, <3>2, <2>3
      <3>3. QED
        BY <3>1, <3>2
    <2>5. <<x>> \in Seq(K)
      BY <2>3
    <2>6. Chain(p, x) \in Seq(K)
      <3>1. PICK t \in Seq(K) : t = Chain(p, p.db[x].next)
        BY <2>4
      <3>2. <<x>> \o t \in Seq(K)
        BY <2>5, ConcatProperties
      <3>3. Chain(p, x) = <<x>> \o t
        BY <2>3, <3>1, <1>2
      <3>4. QED
        BY <3>2, <3>3
    <2>7. QED
      BY <2>6
  <1>4. QED
    BY <1>2, <1>3, EmptySeq

\* A list is the same in another pool that has the same links along it.
LEMMA ChainFrame ==
    ASSUME NEW V, NEW p \in PoolsOf(V), ListsEnd(p), NEW q \in PoolsOf(V), ListsEnd(q),
           NEW K \in SUBSET Blocks,
           \A x \in K : p.db[x].next \in K \cup {Null} /\ q.db[x].next = p.db[x].next,
           NEW b \in K \cup {Null}
    PROVE  Chain(q, b) = Chain(p, b)
  <1>1. PICK rank \in [Blocks -> Nat], m \in Nat :
             \A x \in Blocks : rank[x] <= m /\ (p.db[x].next # Null => rank[p.db[x].next] < rank[x])
    BY DEF ListsEnd
  <1>2. /\ Chain(p, Null) = <<>> /\ \A x \in Blocks : Chain(p, x) = <<x>> \o Chain(p, p.db[x].next)
        /\ Chain(q, Null) = <<>> /\ \A x \in Blocks : Chain(q, x) = <<x>> \o Chain(q, q.db[x].next)
    BY ChainStep
  <1> DEFINE Bad == {x \in K : Chain(q, x) # Chain(p, x)}
             D == {rank[x] : x \in Bad}
  <1>3. Bad = {}
    <2> SUFFICES ASSUME Bad # {}
                 PROVE  FALSE
      OBVIOUS
    <2>1. D \in SUBSET Nat /\ D # {}
      OBVIOUS
    <2>2. PICK x \in Bad : \A y \in Bad : rank[x] <= rank[y]
      <3>1. \E n \in D : \A k \in D : n <= k
        BY <2>1, LeastNumber
      <3>2. QED
        BY <3>1
    <2>3. x \in K /\ x \in Blocks /\ p.db[x].next \in K \cup {Null} /\ q.db[x].next = p.db[x].next
      OBVIOUS
    <2>4. Chain(q, p.db[x].next) = Chain(p, p.db[x].next)
      <3>1. CASE p.db[x].next = Null
        BY <3>1, <1>2
      <3>2. CASE p.db[x].next # Null
        <4>1. rank[p.db[x].next] < rank[x] /\ rank[x] \in Nat /\ rank[p.db[x].next] \in Nat
          BY <3>2, <2>3, <1>1
        <4>2. p.db[x].next \notin Bad
          BY <4>1, <2>2
        <4>3. QED
          BY <4>2, <3>2, <2>3
      <3>3. QED
        BY <3>1, <3>2
    <2>5. Chain(q, x) = Chain(p, x)
      BY <2>3, <2>4, <1>2
    <2>6. QED
      BY <2>5
  <1>4. QED
    BY <1>2, <1>3

\* Concatenation is associative.
LEMMA ConcatThree ==
    \A h, s, t \in Seq(Blocks) : h \o (s \o t) = (h \o s) \o t
  OBVIOUS

\* A block becomes the next of another, the last of its list, and lists are joined.
LinkedTo(p, q, last, first) == p.db[last].next = Null /\ q.db[last].next = first
Joined(p, q, b, c) == Chain(q, b) = Chain(p, b) \o Chain(q, c)

\* A list that goes on at its last block is the list and what it goes on with.
LEMMA ChainLink ==
    ASSUME NEW V, NEW p \in PoolsOf(V), ListsEnd(p), NEW q \in PoolsOf(V), ListsEnd(q),
           NEW A \in SUBSET Blocks, NEW last \in A, NEW c \in Blocks, LinkedTo(p, q, last, c),
           \A x \in A : x # last => p.db[x].next \in A /\ q.db[x].next = p.db[x].next,
           NEW b \in A
    PROVE  Joined(p, q, b, c)
  <1>1. PICK rank \in [Blocks -> Nat], m \in Nat :
             \A x \in Blocks : rank[x] <= m /\ (p.db[x].next # Null => rank[p.db[x].next] < rank[x])
    BY DEF ListsEnd
  <1>2. /\ Chain(p, Null) = <<>> /\ \A x \in Blocks : Chain(p, x) = <<x>> \o Chain(p, p.db[x].next)
        /\ \A x \in Blocks : Chain(q, x) = <<x>> \o Chain(q, q.db[x].next)
    BY ChainStep
  <1>3. /\ \A x \in Blocks \cup {Null} : Chain(p, x) \in Seq(Blocks)
        /\ Chain(q, c) \in Seq(Blocks)
    BY BlockTypes, ChainInside
  <1> DEFINE Bad == {x \in A : Chain(q, x) # Chain(p, x) \o Chain(q, c)}
             D == {rank[x] : x \in Bad}
  <1>4. Bad = {}
    <2> SUFFICES ASSUME Bad # {}
                 PROVE  FALSE
      OBVIOUS
    <2>1. D \in SUBSET Nat /\ D # {}
      OBVIOUS
    <2>2. PICK x \in Bad : \A y \in Bad : rank[x] <= rank[y]
      <3>1. \E n \in D : \A k \in D : n <= k
        BY <2>1, LeastNumber
      <3>2. QED
        BY <3>1
    <2>3. x \in A /\ x \in Blocks
      OBVIOUS
    <2>4. PICK t \in Seq(Blocks) : t = Chain(q, c)
      BY <1>3
    <2>5. Chain(q, x) = Chain(p, x) \o t
      <3>1. CASE x = last
        <4>1. Chain(q, x) = <<x>> \o t
          BY <3>1, <2>3, <2>4, <1>2 DEF LinkedTo
        <4>2. Chain(p, x) = <<x>> \o <<>>
          BY <3>1, <2>3, <1>2 DEF LinkedTo
        <4>3. <<x>> \in Seq(Blocks)
          BY <2>3
        <4>4. <<x>> \o <<>> = <<x>>
          BY <4>3, ConcatEmptySeq
        <4>5. QED
          BY <4>1, <4>2, <4>4
      <3>2. CASE x # last
        <4>1. PICK y \in A : y = p.db[x].next /\ y = q.db[x].next /\ y # Null
          <5>1. \A z \in A : z # Null
            BY CapacityAssumption DEF Blocks, Null
          <5>2. QED
            BY <5>1, <3>2, <2>3
        <4>2. rank[y] < rank[x] /\ rank[x] \in Nat /\ rank[y] \in Nat
          BY <4>1, <2>3, <1>1
        <4>3. y \notin Bad
          BY <4>2, <2>2
        <4>4. Chain(q, y) = Chain(p, y) \o t
          BY <4>3, <2>4
        <4>5. PICK s \in Seq(Blocks) : s = Chain(p, y)
          BY <4>1, <1>3
        <4>6. PICK h \in Seq(Blocks) : h = <<x>>
          <5>1. <<x>> \in Seq(Blocks)
            BY <2>3
          <5>2. QED
            BY <5>1
        <4>7. Chain(q, x) = h \o Chain(q, y) /\ Chain(p, x) = h \o s
          BY <4>1, <4>5, <4>6, <2>3, <1>2
        <4>8. Chain(q, y) = s \o t
          BY <4>4, <4>5
        <4>9. h \o (s \o t) = (h \o s) \o t
          BY <2>4, <4>5, <4>6, ConcatThree
        <4>10. Chain(q, x) = (h \o s) \o t
          BY <4>7, <4>8, <4>9
        <4>11. QED
          BY <4>7, <4>10
      <3>3. QED
        BY <3>1, <3>2
    <2>6. QED
      BY <2>4, <2>5
  <1>5. QED
    BY <1>4 DEF Joined

\* The blocks of a list: its first, and with each the one it is linked to.
OnChain(p, b, x) == \E i \in 1 .. Len(Chain(p, b)) : Chain(p, b)[i] = x

\* A list begins with its first block.
LEMMA ChainFirst ==
    ASSUME NEW V, NEW p \in PoolsOf(V), ListsEnd(p), NEW b \in Blocks, NEW x
    PROVE  OnChain(p, b, x) <=> x = b \/ OnChain(p, p.db[b].next, x)
  <1>1. PICK c \in Blocks \cup {Null} : c = p.db[b].next
    BY BlockTypes
  <1>2. Chain(p, c) \in Seq(Blocks) /\ Chain(p, b) = <<b>> \o Chain(p, c)
    <2>1. Blocks \in SUBSET Blocks /\ \A y \in Blocks : p.db[y].next \in Blocks \cup {Null}
      BY BlockTypes
    <2>2. Chain(p, c) \in Seq(Blocks)
      BY <2>1, ChainInside
    <2>3. QED
      BY <2>2, <1>1, ChainStep
  <1>3. PICK s, t : s \in Seq(Blocks) /\ s = Chain(p, c) /\ t = Chain(p, b)
    BY <1>2
  <1>4. PICK n \in Nat : n = Len(s)
    BY <1>3, LenProperties
  <1>5. /\ Len(t) = n + 1 /\ t[1] = b /\ \A i \in 1 .. n : t[i + 1] = s[i]
    <2>1. PICK h \in Seq(Blocks) : h = <<b>>
      <3>1. <<b>> \in Seq(Blocks)
        OBVIOUS
      <3>2. QED
        BY <3>1
    <2>2. Len(h) = 1 /\ h[1] = b
      BY <2>1
    <2>3. /\ Len(h \o s) = Len(h) + Len(s)
          /\ \A i \in 1 .. Len(h) + Len(s) : (h \o s)[i] = IF i <= Len(h) THEN h[i] ELSE s[i - Len(h)]
      BY ConcatProperties
    <2>4. t = h \o s
      BY <1>2, <1>3, <2>1
    <2>5. Len(t) = 1 + n /\ \A i \in 1 .. 1 + n : t[i] = IF i <= 1 THEN h[i] ELSE s[i - 1]
      BY <1>4, <2>2, <2>3, <2>4
    <2>6. t[1] = b
      BY <2>2, <2>5
    <2>7. ASSUME NEW i \in 1 .. n
          PROVE  t[i + 1] = s[i]
      <3>1. PICK k : k = i + 1
        OBVIOUS
      <3>2. k \in 1 .. 1 + n /\ ~(k <= 1) /\ k - 1 = i
        BY <3>1
      <3>3. t[k] = s[k - 1]
        BY <3>2, <2>5
      <3>4. QED
        BY <3>1, <3>2, <3>3
    <2>8. QED
      BY <2>5, <2>6, <2>7
  <1>6. ASSUME NEW k \in 1 .. n + 1, t[k] = x, x # b
        PROVE  \E i \in 1 .. n : s[i] = x
    <2>1. k # 1
      BY <1>5, <1>6
    <2>2. PICK i \in 1 .. n : k = i + 1
      <3>1. k - 1 \in 1 .. n /\ k = (k - 1) + 1
        BY <2>1
      <3>2. QED
        BY <3>1
    <2>3. QED
      BY <2>2, <1>5, <1>6
  <1>7. ASSUME NEW i \in 1 .. n, s[i] = x
        PROVE  \E k \in 1 .. n + 1 : t[k] = x
    <2>1. i + 1 \in 1 .. n + 1
      OBVIOUS
    <2>2. QED
      BY <2>1, <1>5, <1>7
  <1>8. \E k \in 1 .. n + 1 : t[k] = b
    <2>1. 1 \in 1 .. n + 1
      OBVIOUS
    <2>2. QED
      BY <2>1, <1>5
  <1>9. OnChain(p, b, x) <=> \E k \in 1 .. n + 1 : t[k] = x
    BY <1>3, <1>5 DEF OnChain
  <1>10. OnChain(p, p.db[b].next, x) <=> \E i \in 1 .. n : s[i] = x
    BY <1>1, <1>3, <1>4 DEF OnChain
  <1>11. QED
    BY <1>6, <1>7, <1>8, <1>9, <1>10

\* A block on a list has the next one on it too.
LEMMA ChainGoesOn ==
    ASSUME NEW V, NEW p \in PoolsOf(V), ListsEnd(p), NEW b \in Blocks, NEW x \in Blocks, OnChain(p, b, x),
           NEW y \in Blocks, y = p.db[x].next
    PROVE  OnChain(p, b, y)
  <1>1. PICK rank \in [Blocks -> Nat], m \in Nat :
             \A z \in Blocks : rank[z] <= m /\ (p.db[z].next # Null => rank[p.db[z].next] < rank[z])
    BY DEF ListsEnd
  <1>2. \A z \in Blocks : z # Null
    BY CapacityAssumption DEF Blocks, Null
  <1> DEFINE Bad == {z \in Blocks : OnChain(p, z, x) /\ ~OnChain(p, z, y)}
             D == {rank[z] : z \in Bad}
  <1>3. Bad = {}
    <2> SUFFICES ASSUME Bad # {}
                 PROVE  FALSE
      OBVIOUS
    <2>1. D \in SUBSET Nat /\ D # {}
      OBVIOUS
    <2>2. PICK z \in Bad : \A w \in Bad : rank[z] <= rank[w]
      <3>1. \E n \in D : \A k \in D : n <= k
        BY <2>1, LeastNumber
      <3>2. QED
        BY <3>1
    <2>3. z \in Blocks /\ OnChain(p, z, x) /\ ~OnChain(p, z, y)
      OBVIOUS
    <2>4. CASE z = x
      <3>1. OnChain(p, y, y)
        BY ChainFirst
      <3>2. OnChain(p, z, y)
        BY <3>1, <2>4, ChainFirst
      <3>3. QED
        BY <3>2, <2>3
    <2>5. CASE z # x
      <3>1. PICK c : c = p.db[z].next
        OBVIOUS
      <3>2. OnChain(p, c, x) /\ ~OnChain(p, c, y)
        BY <3>1, <2>3, <2>5, ChainFirst
      <3>3. c \in Blocks
        <4>1. Chain(p, Null) = <<>>
          BY ChainStep
        <4>2. ~OnChain(p, Null, x)
          BY <4>1 DEF OnChain
        <4>3. c \in Blocks \cup {Null}
          BY <2>3, <3>1, BlockTypes
        <4>4. QED
          BY <3>2, <4>2, <4>3
      <3>4. rank[c] < rank[z] /\ rank[c] \in Nat /\ rank[z] \in Nat
        BY <1>1, <1>2, <2>3, <3>1, <3>3
      <3>5. c \in Bad
        BY <3>2, <3>3
      <3>6. QED
        BY <2>2, <3>4, <3>5
    <2>6. QED
      BY <2>4, <2>5
  <1>4. QED
    BY <1>3

=============================================================================
