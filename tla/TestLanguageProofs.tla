-------------------------- MODULE TestLanguageProofs --------------------------
(***************************************************************************)
(* Theorems about the interpreter of test scripts, for any scripts and any *)
(* programs they run.                                                      *)
(*                                                                         *)
(* First part: what the folds over lines compute.  Second part: the links  *)
(* that stratify sets are those of the indentation.  Third part: which     *)
(* steps of the lists of commands the actions amount to, and what these    *)
(* keep: the order of the commands, the answers to errors, and a place     *)
(* for every line that is left.  Last part: what TEST does to the copy of  *)
(* the machine, on which it depends how a command may end.                 *)
(***************************************************************************)
EXTENDS TestExpectations, SequenceTheorems, WellFoundedInduction, TLAPS

\* Induction by the least counterexample.
LEMMA LeastNumber ==
    ASSUME NEW D \in SUBSET Nat, D # {}
    PROVE  \E x \in D : \A y \in D : x <= y
<1>1. PICK x \in D : \A y \in D : ~(<<y, x>> \in OpToRel(<, Nat))
  BY NatLessThanWellFounded, WFMin, Zenon
<1>2. \A y \in D : ~(y < x)
  BY <1>1 DEF OpToRel
<1>3. QED
  BY <1>2

\* The greatest of some of the first numbers.
LEMMA Greatest ==
    ASSUME NEW k \in Nat, NEW s \in SUBSET (1 .. k), s # {}
    PROVE  Max(s) \in s /\ \A y \in s : y <= Max(s)
  <1> DEFINE D == {n \in Nat : \A y \in s : y <= n}
  <1>1. k \in D
    OBVIOUS
  <1>2. PICK m \in D : \A n \in D : m <= n
    BY <1>1, LeastNumber
  <1>3. m \in s
    <2> SUFFICES ASSUME m \notin s
                 PROVE  FALSE
      OBVIOUS
    <2>1. m \in Nat /\ \A y \in s : y <= m
      BY <1>2
    <2>2. m > 0
      <3>1. PICK y \in s : TRUE
        OBVIOUS
      <3>2. y \in 1 .. k /\ y <= m
        BY <2>1, <3>1
      <3>3. QED
        BY <2>1, <3>2
    <2>3. m - 1 \in D
      BY <2>1, <2>2
    <2>4. QED
      BY <1>2, <2>1, <2>3
  <1>4. \E x \in s : \A y \in s : x >= y
    BY <1>2, <1>3
  <1>5. QED
    BY <1>4 DEF Max

\* The greatest of the first k + 1 numbers, and what is left without it.
LEMMA WithoutGreatest ==
    ASSUME NEW k \in Nat, NEW s \in SUBSET (1 .. k), s # {}
    PROVE  /\ Max(s) \in 1 .. k /\ s \ {Max(s)} \in SUBSET (1 .. k)
           /\ k \in s => Max(s) = k /\ s \ {Max(s)} \in SUBSET (1 .. k - 1)
           /\ k \notin s => s \in SUBSET (1 .. k - 1)
  <1>1. Max(s) \in s /\ \A y \in s : y <= Max(s)
    BY Greatest
  <1>2. Max(s) \in 1 .. k
    BY <1>1
  <1>3. k \in s => Max(s) = k
    BY <1>1, <1>2
  <1>4. s \ {Max(s)} \in SUBSET (1 .. k)
    OBVIOUS
  <1>5. ASSUME k \in s
        PROVE  s \ {Max(s)} \in SUBSET (1 .. k - 1)
    <2>1. \A y \in s \ {k} : y \in 1 .. k - 1
      OBVIOUS
    <2>2. QED
      BY <1>3, <1>5, <2>1
  <1>6. ASSUME k \notin s
        PROVE  s \in SUBSET (1 .. k - 1)
    <2>1. \A y \in s : y \in 1 .. k - 1
      BY <1>6
    <2>2. QED
      BY <2>1
  <1>7. QED
    BY <1>2, <1>3, <1>4, <1>5, <1>6

\* The greatest of the first numbers is the last.
LEMMA LastIsGreatest ==
    ASSUME NEW i \in Nat, i # 0
    PROVE  Max(1 .. i) = i
  <1>0. i \in 1 .. i
    OBVIOUS
  <1>1. PICK s \in SUBSET (1 .. i) : s = 1 .. i
    OBVIOUS
  <1>2. i \in s /\ s # {}
    BY <1>0, <1>1
  <1>3. Max(s) = i
    BY <1>2, WithoutGreatest
  <1>4. QED
    BY <1>1, <1>3

\* The folds of the model, as operators on their start and on the lines.
KeptAll(base, lines)  == FoldLeft(Kept, base, lines)
PlaceAll(base, lines) == FoldLeft(Place, base, lines)
ApplyAll(base, lines) == FoldLeft(Apply, base, lines)

\* remove_blanks goes through the lines one by one.
LEMMA FoldKept ==
    ASSUME NEW base, NEW lines, NEW n \in Nat, DOMAIN lines = 1 .. n
    PROVE  \E g : /\ g[0] = base /\ KeptAll(base, lines) = g[n]
                  /\ \A i \in 1 .. n : g[i] = Kept(g[i - 1], lines[i])
  <1> DEFINE Value(h, s) == IF s = {} THEN base ELSE Kept(h[s \ {Max(s)}], lines[Max(s)])
             Upto(k) == \E h : h = [s \in SUBSET (1 .. k) |-> Value(h, s)]
             Bad == {k \in Nat : ~Upto(k)}
  <1>1. Upto(0)
    <2> DEFINE h == [s \in SUBSET (1 .. 0) |-> base]
    <2>1. \A s \in SUBSET (1 .. 0) : s = {}
      OBVIOUS
    <2>2. h = [s \in SUBSET (1 .. 0) |-> Value(h, s)]
      BY <2>1
    <2> HIDE DEF h
    <2>3. QED
      BY <2>2
  <1>2. ASSUME NEW k \in Nat \ {0}, Upto(k - 1)
        PROVE  Upto(k)
    <2>1. PICK h : h = [s \in SUBSET (1 .. k - 1) |-> Value(h, s)]
      BY <1>2
    <2> DEFINE g == [s \in SUBSET (1 .. k) |-> IF k \in s THEN Kept(h[s \ {k}], lines[k]) ELSE h[s]]
    <2>2. \A s \in SUBSET (1 .. k - 1) : g[s] = h[s] /\ h[s] = Value(h, s)
      <3> SUFFICES ASSUME NEW s \in SUBSET (1 .. k - 1)
                   PROVE  g[s] = h[s] /\ h[s] = Value(h, s)
        OBVIOUS
      <3>1. k \notin s
        <4>1. \A y \in s : y \in 1 .. k - 1
          OBVIOUS
        <4>2. QED
          BY <4>1
      <3>2. s \in SUBSET (1 .. k)
        <4>1. \A y \in 1 .. k - 1 : y \in 1 .. k
          OBVIOUS
        <4>2. QED
          BY <4>1
      <3>3. g[s] = h[s]
        BY <3>1, <3>2
      <3> HIDE DEF g
      <3>4. QED
        BY <2>1, <3>3
    <2>3. ASSUME NEW s \in SUBSET (1 .. k)
          PROVE  g[s] = Value(g, s)
      <3>1. CASE k \in s
        <4>1. Max(s) = k /\ s \ {k} \in SUBSET (1 .. k - 1) /\ s # {}
          BY <3>1, WithoutGreatest
        <4>2. g[s] = Kept(h[s \ {k}], lines[k])
          BY <3>1
        <4>3. g[s \ {k}] = h[s \ {k}]
          BY <4>1, <2>2
        <4> HIDE DEF g
        <4>4. QED
          BY <4>1, <4>2, <4>3
      <3>2. CASE k \notin s /\ s # {}
        <4>1. s \in SUBSET (1 .. k - 1)
          BY <3>2, WithoutGreatest
        <4>2. s \ {Max(s)} \in SUBSET (1 .. k - 1)
          BY <4>1
        <4>3. g[s] = h[s] /\ h[s] = Value(h, s) /\ g[s \ {Max(s)}] = h[s \ {Max(s)}]
          BY <4>1, <4>2, <2>2
        <4> HIDE DEF g
        <4>4. QED
          BY <4>3, <3>2
      <3>3. CASE s = {}
        <4>1. s \in SUBSET (1 .. k - 1)
          BY <3>3
        <4>2. g[s] = h[s] /\ h[s] = Value(h, s)
          BY <4>1, <2>2
        <4> HIDE DEF g
        <4>3. QED
          BY <4>2, <3>3
      <3>4. QED
        BY <3>1, <3>2, <3>3
    <2>4. g = [s \in SUBSET (1 .. k) |-> Value(g, s)]
      <3>1. g = [s \in SUBSET (1 .. k) |-> g[s]]
        OBVIOUS
      <3> HIDE DEF g
      <3>2. QED
        BY <3>1, <2>3
    <2> HIDE DEF g
    <2>5. QED
      BY <2>4
  <1>3. Upto(n)
    <2> SUFFICES ASSUME Bad # {}
                 PROVE  FALSE
      OBVIOUS
    <2> HIDE DEF Upto
    <2>1. PICK k \in Bad : \A j \in Bad : k <= j
      BY LeastNumber
    <2>2. k \in Nat \ {0} /\ k - 1 \in Nat /\ k - 1 \notin Bad
      BY <2>1, <1>1
    <2>3. QED
      BY <2>1, <2>2, <1>2
  <1> DEFINE it == CHOOSE h : h = [s \in SUBSET DOMAIN lines |-> Value(h, s)]
  <1>4. KeptAll(base, lines) = it[DOMAIN lines]
    BY DEF FoldLeft, MapThenFoldSet, KeptAll
  <1>5. it = [s \in SUBSET (1 .. n) |-> Value(it, s)]
    BY <1>3
  <1> HIDE DEF it
  <1>6. it[{}] = base
    BY <1>5
  <1>7. ASSUME NEW i \in 1 .. n
        PROVE  it[1 .. i] = Kept(it[1 .. i - 1], lines[i])
    <2>1. /\ i \in Nat /\ i - 1 \in Nat /\ 1 .. i \in SUBSET (1 .. n) /\ 1 .. i # {}
          /\ i \in 1 .. i /\ (1 .. i) \ {i} = 1 .. i - 1
      <3>1. i \in Nat /\ i - 1 \in Nat /\ i \in 1 .. i
        OBVIOUS
      <3>2. \A y : y \in 1 .. i => y \in 1 .. n
        OBVIOUS
      <3>3. \A y : y \in (1 .. i) \ {i} <=> y \in 1 .. i - 1
        OBVIOUS
      <3>4. (1 .. i) \ {i} = 1 .. i - 1
        BY <3>3
      <3>5. 1 .. i \in SUBSET (1 .. n)
        BY <3>2
      <3>6. QED
        BY <3>1, <3>4, <3>5
    <2>2. Max(1 .. i) = i
      BY <2>1, LastIsGreatest
    <2>3. PICK S : S = 1 .. i
      OBVIOUS
    <2>4. it[S] = Value(it, S)
      BY <2>1, <2>3, <1>5
    <2>5. S # {} /\ Max(S) = i /\ S \ {i} = 1 .. i - 1
      BY <2>1, <2>2, <2>3
    <2>6. QED
      BY <2>3, <2>4, <2>5
  <1> DEFINE g == [i \in 0 .. n |-> it[1 .. i]]
  <1>8. 1 .. 0 = {}
    OBVIOUS
  <1>9. g[0] = base /\ KeptAll(base, lines) = g[n]
    BY <1>4, <1>6, <1>8
  <1>10. \A i \in 1 .. n : g[i] = Kept(g[i - 1], lines[i])
    BY <1>7
  <1> HIDE DEF g
  <1>11. QED
    BY <1>9, <1>10

\* So does stratify,
LEMMA FoldPlace ==
    ASSUME NEW base, NEW lines, NEW n \in Nat, DOMAIN lines = 1 .. n
    PROVE  \E g : /\ g[0] = base /\ PlaceAll(base, lines) = g[n]
                  /\ \A i \in 1 .. n : g[i] = Place(g[i - 1], lines[i])
  <1> DEFINE Value(h, s) == IF s = {} THEN base ELSE Place(h[s \ {Max(s)}], lines[Max(s)])
             Upto(k) == \E h : h = [s \in SUBSET (1 .. k) |-> Value(h, s)]
             Bad == {k \in Nat : ~Upto(k)}
  <1>1. Upto(0)
    <2> DEFINE h == [s \in SUBSET (1 .. 0) |-> base]
    <2>1. \A s \in SUBSET (1 .. 0) : s = {}
      OBVIOUS
    <2>2. h = [s \in SUBSET (1 .. 0) |-> Value(h, s)]
      BY <2>1
    <2> HIDE DEF h
    <2>3. QED
      BY <2>2
  <1>2. ASSUME NEW k \in Nat \ {0}, Upto(k - 1)
        PROVE  Upto(k)
    <2>1. PICK h : h = [s \in SUBSET (1 .. k - 1) |-> Value(h, s)]
      BY <1>2
    <2> DEFINE g == [s \in SUBSET (1 .. k) |-> IF k \in s THEN Place(h[s \ {k}], lines[k]) ELSE h[s]]
    <2>2. \A s \in SUBSET (1 .. k - 1) : g[s] = h[s] /\ h[s] = Value(h, s)
      <3> SUFFICES ASSUME NEW s \in SUBSET (1 .. k - 1)
                   PROVE  g[s] = h[s] /\ h[s] = Value(h, s)
        OBVIOUS
      <3>1. k \notin s
        <4>1. \A y \in s : y \in 1 .. k - 1
          OBVIOUS
        <4>2. QED
          BY <4>1
      <3>2. s \in SUBSET (1 .. k)
        <4>1. \A y \in 1 .. k - 1 : y \in 1 .. k
          OBVIOUS
        <4>2. QED
          BY <4>1
      <3>3. g[s] = h[s]
        BY <3>1, <3>2
      <3> HIDE DEF g
      <3>4. QED
        BY <2>1, <3>3
    <2>3. ASSUME NEW s \in SUBSET (1 .. k)
          PROVE  g[s] = Value(g, s)
      <3>1. CASE k \in s
        <4>1. Max(s) = k /\ s \ {k} \in SUBSET (1 .. k - 1) /\ s # {}
          BY <3>1, WithoutGreatest
        <4>2. g[s] = Place(h[s \ {k}], lines[k])
          BY <3>1
        <4>3. g[s \ {k}] = h[s \ {k}]
          BY <4>1, <2>2
        <4> HIDE DEF g
        <4>4. QED
          BY <4>1, <4>2, <4>3
      <3>2. CASE k \notin s /\ s # {}
        <4>1. s \in SUBSET (1 .. k - 1)
          BY <3>2, WithoutGreatest
        <4>2. s \ {Max(s)} \in SUBSET (1 .. k - 1)
          BY <4>1
        <4>3. g[s] = h[s] /\ h[s] = Value(h, s) /\ g[s \ {Max(s)}] = h[s \ {Max(s)}]
          BY <4>1, <4>2, <2>2
        <4> HIDE DEF g
        <4>4. QED
          BY <4>3, <3>2
      <3>3. CASE s = {}
        <4>1. s \in SUBSET (1 .. k - 1)
          BY <3>3
        <4>2. g[s] = h[s] /\ h[s] = Value(h, s)
          BY <4>1, <2>2
        <4> HIDE DEF g
        <4>3. QED
          BY <4>2, <3>3
      <3>4. QED
        BY <3>1, <3>2, <3>3
    <2>4. g = [s \in SUBSET (1 .. k) |-> Value(g, s)]
      <3>1. g = [s \in SUBSET (1 .. k) |-> g[s]]
        OBVIOUS
      <3> HIDE DEF g
      <3>2. QED
        BY <3>1, <2>3
    <2> HIDE DEF g
    <2>5. QED
      BY <2>4
  <1>3. Upto(n)
    <2> SUFFICES ASSUME Bad # {}
                 PROVE  FALSE
      OBVIOUS
    <2> HIDE DEF Upto
    <2>1. PICK k \in Bad : \A j \in Bad : k <= j
      BY LeastNumber
    <2>2. k \in Nat \ {0} /\ k - 1 \in Nat /\ k - 1 \notin Bad
      BY <2>1, <1>1
    <2>3. QED
      BY <2>1, <2>2, <1>2
  <1> DEFINE it == CHOOSE h : h = [s \in SUBSET DOMAIN lines |-> Value(h, s)]
  <1>4. PlaceAll(base, lines) = it[DOMAIN lines]
    BY DEF FoldLeft, MapThenFoldSet, PlaceAll
  <1>5. it = [s \in SUBSET (1 .. n) |-> Value(it, s)]
    BY <1>3
  <1> HIDE DEF it
  <1>6. it[{}] = base
    BY <1>5
  <1>7. ASSUME NEW i \in 1 .. n
        PROVE  it[1 .. i] = Place(it[1 .. i - 1], lines[i])
    <2>1. /\ i \in Nat /\ i - 1 \in Nat /\ 1 .. i \in SUBSET (1 .. n) /\ 1 .. i # {}
          /\ i \in 1 .. i /\ (1 .. i) \ {i} = 1 .. i - 1
      <3>1. i \in Nat /\ i - 1 \in Nat /\ i \in 1 .. i
        OBVIOUS
      <3>2. \A y : y \in 1 .. i => y \in 1 .. n
        OBVIOUS
      <3>3. \A y : y \in (1 .. i) \ {i} <=> y \in 1 .. i - 1
        OBVIOUS
      <3>4. (1 .. i) \ {i} = 1 .. i - 1
        BY <3>3
      <3>5. 1 .. i \in SUBSET (1 .. n)
        BY <3>2
      <3>6. QED
        BY <3>1, <3>4, <3>5
    <2>2. Max(1 .. i) = i
      BY <2>1, LastIsGreatest
    <2>3. PICK S : S = 1 .. i
      OBVIOUS
    <2>4. it[S] = Value(it, S)
      BY <2>1, <2>3, <1>5
    <2>5. S # {} /\ Max(S) = i /\ S \ {i} = 1 .. i - 1
      BY <2>1, <2>2, <2>3
    <2>6. QED
      BY <2>3, <2>4, <2>5
  <1> DEFINE g == [i \in 0 .. n |-> it[1 .. i]]
  <1>8. 1 .. 0 = {}
    OBVIOUS
  <1>9. g[0] = base /\ PlaceAll(base, lines) = g[n]
    BY <1>4, <1>6, <1>8
  <1>10. \A i \in 1 .. n : g[i] = Place(g[i - 1], lines[i])
    BY <1>7
  <1> HIDE DEF g
  <1>11. QED
    BY <1>9, <1>10

\* TEST through its items,
LEMMA FoldApply ==
    ASSUME NEW base, NEW lines, NEW n \in Nat, DOMAIN lines = 1 .. n
    PROVE  \E g : /\ g[0] = base /\ ApplyAll(base, lines) = g[n]
                  /\ \A i \in 1 .. n : g[i] = Apply(g[i - 1], lines[i])
  <1> DEFINE Value(h, s) == IF s = {} THEN base ELSE Apply(h[s \ {Max(s)}], lines[Max(s)])
             Upto(k) == \E h : h = [s \in SUBSET (1 .. k) |-> Value(h, s)]
             Bad == {k \in Nat : ~Upto(k)}
  <1>1. Upto(0)
    <2> DEFINE h == [s \in SUBSET (1 .. 0) |-> base]
    <2>1. \A s \in SUBSET (1 .. 0) : s = {}
      OBVIOUS
    <2>2. h = [s \in SUBSET (1 .. 0) |-> Value(h, s)]
      BY <2>1
    <2> HIDE DEF h
    <2>3. QED
      BY <2>2
  <1>2. ASSUME NEW k \in Nat \ {0}, Upto(k - 1)
        PROVE  Upto(k)
    <2>1. PICK h : h = [s \in SUBSET (1 .. k - 1) |-> Value(h, s)]
      BY <1>2
    <2> DEFINE g == [s \in SUBSET (1 .. k) |-> IF k \in s THEN Apply(h[s \ {k}], lines[k]) ELSE h[s]]
    <2>2. \A s \in SUBSET (1 .. k - 1) : g[s] = h[s] /\ h[s] = Value(h, s)
      <3> SUFFICES ASSUME NEW s \in SUBSET (1 .. k - 1)
                   PROVE  g[s] = h[s] /\ h[s] = Value(h, s)
        OBVIOUS
      <3>1. k \notin s
        <4>1. \A y \in s : y \in 1 .. k - 1
          OBVIOUS
        <4>2. QED
          BY <4>1
      <3>2. s \in SUBSET (1 .. k)
        <4>1. \A y \in 1 .. k - 1 : y \in 1 .. k
          OBVIOUS
        <4>2. QED
          BY <4>1
      <3>3. g[s] = h[s]
        BY <3>1, <3>2
      <3> HIDE DEF g
      <3>4. QED
        BY <2>1, <3>3
    <2>3. ASSUME NEW s \in SUBSET (1 .. k)
          PROVE  g[s] = Value(g, s)
      <3>1. CASE k \in s
        <4>1. Max(s) = k /\ s \ {k} \in SUBSET (1 .. k - 1) /\ s # {}
          BY <3>1, WithoutGreatest
        <4>2. g[s] = Apply(h[s \ {k}], lines[k])
          BY <3>1
        <4>3. g[s \ {k}] = h[s \ {k}]
          BY <4>1, <2>2
        <4> HIDE DEF g
        <4>4. QED
          BY <4>1, <4>2, <4>3
      <3>2. CASE k \notin s /\ s # {}
        <4>1. s \in SUBSET (1 .. k - 1)
          BY <3>2, WithoutGreatest
        <4>2. s \ {Max(s)} \in SUBSET (1 .. k - 1)
          BY <4>1
        <4>3. g[s] = h[s] /\ h[s] = Value(h, s) /\ g[s \ {Max(s)}] = h[s \ {Max(s)}]
          BY <4>1, <4>2, <2>2
        <4> HIDE DEF g
        <4>4. QED
          BY <4>3, <3>2
      <3>3. CASE s = {}
        <4>1. s \in SUBSET (1 .. k - 1)
          BY <3>3
        <4>2. g[s] = h[s] /\ h[s] = Value(h, s)
          BY <4>1, <2>2
        <4> HIDE DEF g
        <4>3. QED
          BY <4>2, <3>3
      <3>4. QED
        BY <3>1, <3>2, <3>3
    <2>4. g = [s \in SUBSET (1 .. k) |-> Value(g, s)]
      <3>1. g = [s \in SUBSET (1 .. k) |-> g[s]]
        OBVIOUS
      <3> HIDE DEF g
      <3>2. QED
        BY <3>1, <2>3
    <2> HIDE DEF g
    <2>5. QED
      BY <2>4
  <1>3. Upto(n)
    <2> SUFFICES ASSUME Bad # {}
                 PROVE  FALSE
      OBVIOUS
    <2> HIDE DEF Upto
    <2>1. PICK k \in Bad : \A j \in Bad : k <= j
      BY LeastNumber
    <2>2. k \in Nat \ {0} /\ k - 1 \in Nat /\ k - 1 \notin Bad
      BY <2>1, <1>1
    <2>3. QED
      BY <2>1, <2>2, <1>2
  <1> DEFINE it == CHOOSE h : h = [s \in SUBSET DOMAIN lines |-> Value(h, s)]
  <1>4. ApplyAll(base, lines) = it[DOMAIN lines]
    BY DEF FoldLeft, MapThenFoldSet, ApplyAll
  <1>5. it = [s \in SUBSET (1 .. n) |-> Value(it, s)]
    BY <1>3
  <1> HIDE DEF it
  <1>6. it[{}] = base
    BY <1>5
  <1>7. ASSUME NEW i \in 1 .. n
        PROVE  it[1 .. i] = Apply(it[1 .. i - 1], lines[i])
    <2>1. /\ i \in Nat /\ i - 1 \in Nat /\ 1 .. i \in SUBSET (1 .. n) /\ 1 .. i # {}
          /\ i \in 1 .. i /\ (1 .. i) \ {i} = 1 .. i - 1
      <3>1. i \in Nat /\ i - 1 \in Nat /\ i \in 1 .. i
        OBVIOUS
      <3>2. \A y : y \in 1 .. i => y \in 1 .. n
        OBVIOUS
      <3>3. \A y : y \in (1 .. i) \ {i} <=> y \in 1 .. i - 1
        OBVIOUS
      <3>4. (1 .. i) \ {i} = 1 .. i - 1
        BY <3>3
      <3>5. 1 .. i \in SUBSET (1 .. n)
        BY <3>2
      <3>6. QED
        BY <3>1, <3>4, <3>5
    <2>2. Max(1 .. i) = i
      BY <2>1, LastIsGreatest
    <2>3. PICK S : S = 1 .. i
      OBVIOUS
    <2>4. it[S] = Value(it, S)
      BY <2>1, <2>3, <1>5
    <2>5. S # {} /\ Max(S) = i /\ S \ {i} = 1 .. i - 1
      BY <2>1, <2>2, <2>3
    <2>6. QED
      BY <2>3, <2>4, <2>5
  <1> DEFINE g == [i \in 0 .. n |-> it[1 .. i]]
  <1>8. 1 .. 0 = {}
    OBVIOUS
  <1>9. g[0] = base /\ ApplyAll(base, lines) = g[n]
    BY <1>4, <1>6, <1>8
  <1>10. \A i \in 1 .. n : g[i] = Apply(g[i - 1], lines[i])
    BY <1>7
  <1> HIDE DEF g
  <1>11. QED
    BY <1>9, <1>10

\* and a stack-entry item through the lines below it.
LEMMA FoldEntryLine ==
    ASSUME NEW names, NEW base, NEW lines, NEW n \in Nat, DOMAIN lines = 1 .. n
    PROVE  \E g : /\ g[0] = base /\ EntryLines(names, base, lines) = g[n]
                  /\ \A i \in 1 .. n : g[i] = EntryLine(names, g[i - 1], lines[i])
  <1> DEFINE Value(h, s) == IF s = {} THEN base ELSE EntryLine(names, h[s \ {Max(s)}], lines[Max(s)])
             Upto(k) == \E h : h = [s \in SUBSET (1 .. k) |-> Value(h, s)]
             Bad == {k \in Nat : ~Upto(k)}
  <1>1. Upto(0)
    <2> DEFINE h == [s \in SUBSET (1 .. 0) |-> base]
    <2>1. \A s \in SUBSET (1 .. 0) : s = {}
      OBVIOUS
    <2>2. h = [s \in SUBSET (1 .. 0) |-> Value(h, s)]
      BY <2>1
    <2> HIDE DEF h
    <2>3. QED
      BY <2>2
  <1>2. ASSUME NEW k \in Nat \ {0}, Upto(k - 1)
        PROVE  Upto(k)
    <2>1. PICK h : h = [s \in SUBSET (1 .. k - 1) |-> Value(h, s)]
      BY <1>2
    <2> DEFINE g == [s \in SUBSET (1 .. k) |-> IF k \in s THEN EntryLine(names, h[s \ {k}], lines[k]) ELSE h[s]]
    <2>2. \A s \in SUBSET (1 .. k - 1) : g[s] = h[s] /\ h[s] = Value(h, s)
      <3> SUFFICES ASSUME NEW s \in SUBSET (1 .. k - 1)
                   PROVE  g[s] = h[s] /\ h[s] = Value(h, s)
        OBVIOUS
      <3>1. k \notin s
        <4>1. \A y \in s : y \in 1 .. k - 1
          OBVIOUS
        <4>2. QED
          BY <4>1
      <3>2. s \in SUBSET (1 .. k)
        <4>1. \A y \in 1 .. k - 1 : y \in 1 .. k
          OBVIOUS
        <4>2. QED
          BY <4>1
      <3>3. g[s] = h[s]
        BY <3>1, <3>2
      <3> HIDE DEF g
      <3>4. QED
        BY <2>1, <3>3
    <2>3. ASSUME NEW s \in SUBSET (1 .. k)
          PROVE  g[s] = Value(g, s)
      <3>1. CASE k \in s
        <4>1. Max(s) = k /\ s \ {k} \in SUBSET (1 .. k - 1) /\ s # {}
          BY <3>1, WithoutGreatest
        <4>2. g[s] = EntryLine(names, h[s \ {k}], lines[k])
          BY <3>1
        <4>3. g[s \ {k}] = h[s \ {k}]
          BY <4>1, <2>2
        <4> HIDE DEF g
        <4>4. QED
          BY <4>1, <4>2, <4>3
      <3>2. CASE k \notin s /\ s # {}
        <4>1. s \in SUBSET (1 .. k - 1)
          BY <3>2, WithoutGreatest
        <4>2. s \ {Max(s)} \in SUBSET (1 .. k - 1)
          BY <4>1
        <4>3. g[s] = h[s] /\ h[s] = Value(h, s) /\ g[s \ {Max(s)}] = h[s \ {Max(s)}]
          BY <4>1, <4>2, <2>2
        <4> HIDE DEF g
        <4>4. QED
          BY <4>3, <3>2
      <3>3. CASE s = {}
        <4>1. s \in SUBSET (1 .. k - 1)
          BY <3>3
        <4>2. g[s] = h[s] /\ h[s] = Value(h, s)
          BY <4>1, <2>2
        <4> HIDE DEF g
        <4>3. QED
          BY <4>2, <3>3
      <3>4. QED
        BY <3>1, <3>2, <3>3
    <2>4. g = [s \in SUBSET (1 .. k) |-> Value(g, s)]
      <3>1. g = [s \in SUBSET (1 .. k) |-> g[s]]
        OBVIOUS
      <3> HIDE DEF g
      <3>2. QED
        BY <3>1, <2>3
    <2> HIDE DEF g
    <2>5. QED
      BY <2>4
  <1>3. Upto(n)
    <2> SUFFICES ASSUME Bad # {}
                 PROVE  FALSE
      OBVIOUS
    <2> HIDE DEF Upto
    <2>1. PICK k \in Bad : \A j \in Bad : k <= j
      BY LeastNumber
    <2>2. k \in Nat \ {0} /\ k - 1 \in Nat /\ k - 1 \notin Bad
      BY <2>1, <1>1
    <2>3. QED
      BY <2>1, <2>2, <1>2
  <1> DEFINE it == CHOOSE h : h = [s \in SUBSET DOMAIN lines |-> Value(h, s)]
  <1>4. EntryLines(names, base, lines) = it[DOMAIN lines]
    BY DEF FoldLeft, MapThenFoldSet, EntryLines
  <1>5. it = [s \in SUBSET (1 .. n) |-> Value(it, s)]
    BY <1>3
  <1> HIDE DEF it
  <1>6. it[{}] = base
    BY <1>5
  <1>7. ASSUME NEW i \in 1 .. n
        PROVE  it[1 .. i] = EntryLine(names, it[1 .. i - 1], lines[i])
    <2>1. /\ i \in Nat /\ i - 1 \in Nat /\ 1 .. i \in SUBSET (1 .. n) /\ 1 .. i # {}
          /\ i \in 1 .. i /\ (1 .. i) \ {i} = 1 .. i - 1
      <3>1. i \in Nat /\ i - 1 \in Nat /\ i \in 1 .. i
        OBVIOUS
      <3>2. \A y : y \in 1 .. i => y \in 1 .. n
        OBVIOUS
      <3>3. \A y : y \in (1 .. i) \ {i} <=> y \in 1 .. i - 1
        OBVIOUS
      <3>4. (1 .. i) \ {i} = 1 .. i - 1
        BY <3>3
      <3>5. 1 .. i \in SUBSET (1 .. n)
        BY <3>2
      <3>6. QED
        BY <3>1, <3>4, <3>5
    <2>2. Max(1 .. i) = i
      BY <2>1, LastIsGreatest
    <2>3. PICK S : S = 1 .. i
      OBVIOUS
    <2>4. it[S] = Value(it, S)
      BY <2>1, <2>3, <1>5
    <2>5. S # {} /\ Max(S) = i /\ S \ {i} = 1 .. i - 1
      BY <2>1, <2>2, <2>3
    <2>6. QED
      BY <2>3, <2>4, <2>5
  <1> DEFINE g == [i \in 0 .. n |-> it[1 .. i]]
  <1>8. 1 .. 0 = {}
    OBVIOUS
  <1>9. g[0] = base /\ EntryLines(names, base, lines) = g[n]
    BY <1>4, <1>6, <1>8
  <1>10. \A i \in 1 .. n : g[i] = EntryLine(names, g[i - 1], lines[i])
    BY <1>7
  <1> HIDE DEF g
  <1>11. QED
    BY <1>9, <1>10

-----------------------------------------------------------------------------
(* The links between the lines.                                             *)

\* Two lines of one level with only deeper lines between them.
Peers(lines, m, n) ==
    /\ m < n /\ lines[m].ind = lines[n].ind
    /\ \A k \in m + 1 .. n - 1 : lines[k].ind > lines[m].ind

\* Line n of level l is one that a line after the first k may follow.
Open(lines, k, l, n) ==
    lines[n].ind = l /\ \A j \in n + 1 .. k : lines[j].ind > l

\* The text of a document without its blank lines.
Document(lines) ==
    /\ Len(lines) \in Nat /\ DOMAIN lines = 1 .. Len(lines)
    /\ \A n \in 1 .. Len(lines) : lines[n].ind \in 0 .. MaxIndent

\* Lines of one level with deeper lines between them are below the same lines.
LEMMA PeersAreSiblings ==
    ASSUME NEW lines, Document(lines), NEW m \in 1 .. Len(lines), NEW n \in 1 .. Len(lines)
    PROVE  SiblingOf(lines, m, n) <=> Peers(lines, m, n)
  <1> USE DEF Document
  <1>1. SiblingOf(lines, m, n) => Peers(lines, m, n)
    BY DEF SiblingOf, Peers
  <1>2. ASSUME Peers(lines, m, n)
        PROVE  Enclosing(lines, m) = Enclosing(lines, n)
    <2>1. ASSUME NEW j \in Enclosing(lines, m)
          PROVE  j \in Enclosing(lines, n)
      <3>1. j \in 1 .. m - 1 /\ \A k \in j + 1 .. m : lines[k].ind > lines[j].ind
        BY DEF Enclosing
      <3>2. ASSUME NEW k \in j + 1 .. n
            PROVE  lines[k].ind > lines[j].ind
        <4>0. lines[m].ind > lines[j].ind /\ lines[n].ind = lines[m].ind
          BY <1>2, <3>1 DEF Peers
        <4>1. CASE k <= m
          BY <3>1, <4>1
        <4>2. CASE k \in m + 1 .. n - 1
          <5>1. lines[k].ind > lines[m].ind
            BY <1>2, <4>2 DEF Peers
          <5>2. k \in 1 .. Len(lines) /\ j \in 1 .. Len(lines)
            BY <3>1, <4>2
          <5>3. lines[k].ind \in Int /\ lines[m].ind \in Int /\ lines[j].ind \in Int
            BY <5>2
          <5>4. QED
            BY <4>0, <5>1, <5>3
        <4>3. CASE k = n
          BY <4>0, <4>3
        <4>4. QED
          BY <3>1, <4>1, <4>2, <4>3
      <3>3. j \in 1 .. n - 1
        BY <1>2, <3>1 DEF Peers
      <3>4. QED
        BY <3>2, <3>3 DEF Enclosing
    <2>2. ASSUME NEW j \in Enclosing(lines, n)
          PROVE  j \in Enclosing(lines, m)
      <3>1. j \in 1 .. n - 1 /\ \A k \in j + 1 .. n : lines[k].ind > lines[j].ind
        BY DEF Enclosing
      <3>2. lines[n].ind > lines[j].ind
        BY <3>1
      <3>3. ~(j >= m)
        <4>1. CASE j = m
          BY <1>2, <3>2, <4>1 DEF Peers
        <4>2. CASE j > m
          <5>1. j \in m + 1 .. n - 1
            BY <3>1, <4>2
          <5>2. lines[j].ind > lines[m].ind /\ lines[m].ind = lines[n].ind
            BY <1>2, <5>1 DEF Peers
          <5>3. lines[j].ind \in Int /\ lines[n].ind \in Int
            BY <3>1
          <5>4. QED
            BY <3>2, <5>2, <5>3
        <4>3. QED
          BY <3>1, <4>1, <4>2
      <3>4. j \in 1 .. m - 1
        BY <3>1, <3>3
      <3>5. \A k \in j + 1 .. m : k \in j + 1 .. n
        BY <1>2, <3>4 DEF Peers
      <3>6. QED
        BY <3>1, <3>4, <3>5 DEF Enclosing
    <2>3. QED
      BY <2>1, <2>2
  <1>3. QED
    BY <1>1, <1>2 DEF SiblingOf, Peers

\* The state of stratify while it has refused nothing.
TreeState(lines) ==
    [level : 0 .. MaxIndent, last : 1 .. Len(lines),
     fate : {"tree", "rejected", "undefined", "crashed"},
     next : [1 .. Len(lines) -> 0 .. Len(lines)], child : [1 .. Len(lines) -> 0 .. Len(lines)],
     slot : [0 .. MaxIndent -> -1 .. Len(lines)]]

Deepens(lines, n) == lines[n].ind > lines[n - 1].ind
Attached(lines, n) == Deepens(lines, n) \/ \E m \in 1 .. n - 1 : Peers(lines, m, n)

\* The slots hold the lines that are open, and the first k lines are linked.
SlotsOpen(lines, k, s) ==
    \A l \in 0 .. MaxIndent : \A n \in 1 .. Len(lines) :
        s.slot[l] = n <=> n <= k /\ Open(lines, k, l, n)
NextLinked(lines, k, s) ==
    \A m \in 1 .. Len(lines) : \A n \in 1 .. Len(lines) :
        s.next[m] = n <=> n <= k /\ Peers(lines, m, n)
ChildLinked(lines, k, s) ==
    \A m \in 1 .. Len(lines) :
        s.child[m] = IF m < k /\ Deepens(lines, m + 1) THEN m + 1 ELSE Nil

Placed(lines, k, s) ==
    /\ s.fate = "tree" /\ s.last = k /\ s.level = lines[k].ind
    /\ SlotsOpen(lines, k, s) /\ NextLinked(lines, k, s) /\ ChildLinked(lines, k, s)
    /\ \A n \in 2 .. k : Attached(lines, n)

\* A document is refused at a line that continues no open level.
Refused(lines, s) == s.fate # "tree" /\ \E n \in 2 .. Len(lines) : ~Attached(lines, n)

Stratified(lines, k, s) ==
    s \in TreeState(lines) /\ (Placed(lines, k, s) \/ Refused(lines, s))

\* What line k + 1 may follow is what is open after the first k lines.
LEMMA PeerIsOpen ==
    ASSUME NEW lines, Document(lines), NEW k \in 1 .. Len(lines), k < Len(lines),
           NEW m \in 1 .. k
    PROVE  Peers(lines, m, k + 1) <=> Open(lines, k, lines[k + 1].ind, m)
  BY DEF Peers, Open, Document

\* A level that is open is no deeper than the last line.
LEMMA OpenAbove ==
    ASSUME NEW lines, Document(lines), NEW k \in 1 .. Len(lines), NEW l \in 0 .. MaxIndent,
           NEW n \in 1 .. k, Open(lines, k, l, n)
    PROVE  l <= lines[k].ind
  <1>1. CASE n = k
    BY <1>1 DEF Open, Document
  <1>2. CASE n < k
    <2>1. k \in n + 1 .. k
      BY <1>2
    <2>2. lines[k].ind > l /\ lines[k].ind \in Int
      BY <2>1 DEF Open, Document
    <2>3. QED
      BY <2>2
  <1>3. QED
    BY <1>1, <1>2

\* One more line leaves open what is above it, and itself.
LEMMA OpenAfter ==
    ASSUME NEW lines, Document(lines), NEW k \in 1 .. Len(lines), k < Len(lines),
           NEW l \in 0 .. MaxIndent, NEW n \in 1 .. Len(lines)
    PROVE  (n <= k + 1 /\ Open(lines, k + 1, l, n)) <=>
               \/ n = k + 1 /\ l = lines[k + 1].ind
               \/ n <= k /\ Open(lines, k, l, n) /\ l < lines[k + 1].ind
  <1>1. CASE n > k + 1
    BY <1>1
  <1>2. CASE n = k + 1
    BY <1>2 DEF Open, Document
  <1>3. CASE n <= k
    <2>1. k + 1 \in n + 1 .. k + 1 /\ \A j : j \in n + 1 .. k + 1 <=> j \in n + 1 .. k \/ j = k + 1
      BY <1>3
    <2>2. lines[k + 1].ind \in Int /\ l \in Int
      BY DEF Document
    <2>3. QED
      BY <1>3, <2>1, <2>2 DEF Open
  <1>4. QED
    BY <1>1, <1>2, <1>3
\* A line that is deeper than the last one goes below it.
LEMMA PlaceDeeper ==
    ASSUME NEW lines, Document(lines), NEW k \in 1 .. Len(lines), k < Len(lines),
           NEW s \in TreeState(lines), Placed(lines, k, s), lines[k + 1].ind > s.level
    PROVE  Stratified(lines, k + 1, Place(s, lines[k + 1]))
  <1> DEFINE ind == lines[k + 1].ind
             n == k + 1
             t == [s EXCEPT !.child[s.last] = n, !.slot[ind] = n, !.level = ind, !.last = n]
  <1>0. Len(lines) \in Nat
    BY DEF Document
  <1>1. s.fate = "tree" /\ s.last = k /\ s.level = lines[k].ind
    BY DEF Placed
  <1>2. Place(s, lines[k + 1]) = t
    BY <1>1 DEF Place
  <1>3. /\ n \in 1 .. Len(lines) /\ ind \in 0 .. MaxIndent
        /\ s.level \in Int /\ ind \in Int /\ lines[k].ind < ind
    BY <1>1 DEF Document, TreeState
  <1>4. t \in TreeState(lines)
    <2>1. [s.child EXCEPT ![s.last] = n] \in [1 .. Len(lines) -> 0 .. Len(lines)]
      BY <1>0, <1>3 DEF TreeState
    <2>2. [s.slot EXCEPT ![ind] = n] \in [0 .. MaxIndent -> -1 .. Len(lines)]
      BY <1>0, <1>3 DEF TreeState
    <2>3. QED
      BY <1>3, <2>1, <2>2 DEF TreeState
  <1>5. /\ t.fate = "tree" /\ t.last = n /\ t.level = ind /\ t.next = s.next
        /\ t.slot = [s.slot EXCEPT ![ind] = n] /\ t.child = [s.child EXCEPT ![k] = n]
    BY <1>1 DEF TreeState
  <1>6. SlotsOpen(lines, k, s) /\ NextLinked(lines, k, s) /\ ChildLinked(lines, k, s)
    BY DEF Placed
  <1>7. s.slot \in [0 .. MaxIndent -> -1 .. Len(lines)] /\ s.child \in [1 .. Len(lines) -> 0 .. Len(lines)]
    BY DEF TreeState
  <1>8. SlotsOpen(lines, n, t)
    <2> SUFFICES ASSUME NEW l \in 0 .. MaxIndent, NEW m \in 1 .. Len(lines)
                 PROVE  t.slot[l] = m <=> m <= n /\ Open(lines, n, l, m)
      BY DEF SlotsOpen
    <2>1. CASE l = ind
      <3>1. t.slot[l] = n
        BY <1>3, <1>5, <1>7, <2>1
      <3>2. (m <= n /\ Open(lines, n, l, m)) <=> m = n
        BY <1>3, <2>1, OpenAfter
      <3>3. QED
        BY <3>1, <3>2
    <2>2. CASE l # ind
      <3>1. t.slot[l] = s.slot[l]
        BY <1>3, <1>5, <1>7, <2>2
      <3>2. s.slot[l] = m <=> m <= k /\ Open(lines, k, l, m)
        BY <1>6 DEF SlotsOpen
      <3>3. (m <= n /\ Open(lines, n, l, m)) <=> (m <= k /\ Open(lines, k, l, m) /\ l < ind)
        BY <1>3, <2>2, OpenAfter
      <3>4. m <= k /\ Open(lines, k, l, m) => l < ind
        <4> HAVE m <= k /\ Open(lines, k, l, m)
        <4>1. m \in 1 .. k
          OBVIOUS
        <4>2. l <= lines[k].ind
          BY <4>1, OpenAbove
        <4>3. QED
          BY <1>1, <1>3, <4>2
      <3>5. QED
        BY <3>1, <3>2, <3>3, <3>4
    <2>3. QED
      BY <2>1, <2>2
  <1>9. NextLinked(lines, n, t)
    <2> SUFFICES ASSUME NEW m \in 1 .. Len(lines)
                 PROVE  ~Peers(lines, m, n)
      BY <1>5, <1>6, <1>3 DEF NextLinked
    <2> SUFFICES ASSUME Peers(lines, m, n)
                 PROVE  FALSE
      OBVIOUS
    <2>1. m \in 1 .. k
      BY DEF Peers
    <2>2. Open(lines, k, ind, m)
      BY <2>1, PeerIsOpen
    <2>3. ind <= lines[k].ind
      BY <1>3, <2>1, <2>2, OpenAbove
    <2>4. QED
      BY <1>1, <1>3, <2>3
  <1>10. ChildLinked(lines, n, t)
    <2>1. Deepens(lines, n)
      BY <1>3 DEF Deepens
    <2> SUFFICES ASSUME NEW m \in 1 .. Len(lines)
                 PROVE  t.child[m] = IF m < n /\ Deepens(lines, m + 1) THEN m + 1 ELSE Nil
      BY DEF ChildLinked
    <2>2. CASE m = k
      BY <1>5, <1>7, <2>1, <2>2
    <2>3. CASE m # k
      <3>1. t.child[m] = s.child[m]
        BY <1>5, <1>7, <2>3
      <3>2. m < n <=> m < k
        BY <2>3
      <3>3. QED
        BY <1>6, <3>1, <3>2 DEF ChildLinked
    <2>4. QED
      BY <2>2, <2>3
  <1>11. \A j \in 2 .. n : Attached(lines, j)
    <2>1. Attached(lines, n)
      BY <1>3 DEF Attached, Deepens
    <2>2. QED
      BY <2>1 DEF Placed
  <1> HIDE DEF t, n, ind
  <1>12. Placed(lines, n, t)
    BY <1>5, <1>8, <1>9, <1>10, <1>11 DEF Placed, ind, n
  <1>13. QED
    BY <1>2, <1>4, <1>12 DEF Stratified, n

\* A line that continues a level goes after the line that is open there.
LEMMA PlaceBeside ==
    ASSUME NEW lines, Document(lines), NEW k \in 1 .. Len(lines), k < Len(lines),
           NEW s \in TreeState(lines), Placed(lines, k, s), ~(lines[k + 1].ind > s.level),
           Peer(s, lines[k + 1].ind) \notin {Nil, Garbage}
    PROVE  Stratified(lines, k + 1, Place(s, lines[k + 1]))
  <1> DEFINE ind == lines[k + 1].ind
             n == k + 1
             p == Peer(s, ind)
             t == [s EXCEPT !.next[p] = n, !.level = ind, !.last = n,
                            !.slot = [Unwound(s, ind) EXCEPT ![ind] = n]]
  <1>0. Len(lines) \in Nat
    BY DEF Document
  <1>1. s.fate = "tree" /\ s.last = k /\ s.level = lines[k].ind
    BY DEF Placed
  <1>2. Place(s, lines[k + 1]) = t
    BY <1>1 DEF Place
  <1>3. /\ n \in 1 .. Len(lines) /\ ind \in 0 .. MaxIndent
        /\ s.level \in 0 .. MaxIndent /\ s.level \in Int /\ ind \in Int /\ ind <= s.level
    BY <1>1 DEF Document, TreeState
  <1>4. /\ s.slot \in [0 .. MaxIndent -> -1 .. Len(lines)]
        /\ s.next \in [1 .. Len(lines) -> 0 .. Len(lines)]
    BY DEF TreeState
  <1>5. p = s.slot[ind]
    BY <1>3, <1>4 DEF Peer, Unwound
  <1>6. p \in 1 .. Len(lines)
    <2>1. s.slot[ind] \in -1 .. Len(lines)
      BY <1>3, <1>4
    <2>2. s.slot[ind] \notin {0, -1}
      BY <1>5 DEF Nil, Garbage
    <2>3. QED
      BY <1>0, <1>5, <2>1, <2>2
  <1>7. SlotsOpen(lines, k, s) /\ NextLinked(lines, k, s) /\ ChildLinked(lines, k, s)
    BY DEF Placed
  <1>8. p \in 1 .. k /\ Open(lines, k, ind, p)
    BY <1>3, <1>5, <1>6, <1>7 DEF SlotsOpen
  <1>9. Unwound(s, ind) \in [0 .. MaxIndent -> -1 .. Len(lines)]
    <2>1. 0 \in -1 .. Len(lines)
      BY <1>0
    <2>2. \A l \in 0 .. MaxIndent : Unwound(s, ind)[l] \in -1 .. Len(lines)
      BY <1>4, <2>1 DEF Unwound, Nil
    <2>3. QED
      BY <1>4, <2>2 DEF Unwound
  <1>10. t \in TreeState(lines)
    <2>1. [Unwound(s, ind) EXCEPT ![ind] = n] \in [0 .. MaxIndent -> -1 .. Len(lines)]
      BY <1>3, <1>9
    <2>2. [s.next EXCEPT ![p] = n] \in [1 .. Len(lines) -> 0 .. Len(lines)]
      <3>1. n \in 0 .. Len(lines)
        BY <1>0
      <3> HIDE DEF n, p
      <3>2. QED
        BY <3>1, <1>4
    <2> HIDE DEF p
    <2>3. QED
      BY <1>3, <2>1, <2>2 DEF TreeState
  <1>11. /\ t.fate = "tree" /\ t.last = n /\ t.level = ind /\ t.child = s.child
         /\ t.slot = [Unwound(s, ind) EXCEPT ![ind] = n] /\ t.next = [s.next EXCEPT ![p] = n]
    BY <1>1 DEF TreeState
  <1> HIDE DEF p
  <1>12. SlotsOpen(lines, n, t)
    <2> SUFFICES ASSUME NEW l \in 0 .. MaxIndent, NEW m \in 1 .. Len(lines)
                 PROVE  t.slot[l] = m <=> m <= n /\ Open(lines, n, l, m)
      BY DEF SlotsOpen
    <2>1. CASE l = ind
      <3>1. t.slot[l] = n
        BY <1>3, <1>9, <1>11, <2>1
      <3>2. (m <= n /\ Open(lines, n, l, m)) <=> m = n
        BY <1>3, <2>1, OpenAfter
      <3>3. QED
        BY <3>1, <3>2
    <2>2. CASE l # ind
      <3>1. t.slot[l] = IF ind < l /\ l <= s.level THEN Nil ELSE s.slot[l]
        <4>1. t.slot[l] = Unwound(s, ind)[l]
          BY <1>3, <1>9, <1>11, <2>2
        <4>2. QED
          BY <1>4, <4>1 DEF Unwound
      <3>2. s.slot[l] = m <=> m <= k /\ Open(lines, k, l, m)
        BY <1>7 DEF SlotsOpen
      <3>3. (m <= n /\ Open(lines, n, l, m)) <=> (m <= k /\ Open(lines, k, l, m) /\ l < ind)
        BY <1>3, <2>2, OpenAfter
      <3>4. m <= k /\ Open(lines, k, l, m) => l <= s.level
        <4> HAVE m <= k /\ Open(lines, k, l, m)
        <4>1. m \in 1 .. k
          OBVIOUS
        <4>2. QED
          BY <1>1, <4>1, OpenAbove
      <3>5. m # Nil
        BY DEF Nil
      <3>6. CASE l < ind
        BY <1>3, <3>1, <3>2, <3>3, <3>6
      <3>7. CASE ind < l
        BY <1>3, <3>1, <3>2, <3>3, <3>4, <3>5, <3>7
      <3>8. QED
        BY <1>3, <2>2, <3>6, <3>7
    <2>3. QED
      BY <2>1, <2>2
  <1>13. NextLinked(lines, n, t)
    <2> SUFFICES ASSUME NEW m \in 1 .. Len(lines), NEW j \in 1 .. Len(lines)
                 PROVE  t.next[m] = j <=> j <= n /\ Peers(lines, m, j)
      BY DEF NextLinked
    <2>1. s.next[m] = j <=> j <= k /\ Peers(lines, m, j)
      BY <1>7 DEF NextLinked
    <2>2. Peers(lines, m, n) <=> m = p
      <3>1. Peers(lines, m, n) <=> m <= k /\ Open(lines, k, ind, m)
        <4>1. CASE m <= k
          BY <4>1, PeerIsOpen
        <4>2. CASE ~(m <= k)
          BY <4>2 DEF Peers
        <4>3. QED
          BY <4>1, <4>2
      <3>2. s.slot[ind] = m <=> m <= k /\ Open(lines, k, ind, m)
        BY <1>3, <1>7 DEF SlotsOpen
      <3>3. QED
        BY <1>5, <3>1, <3>2
    <2>3. CASE m = p
      <3>1. t.next[m] = n
        BY <1>4, <1>11, <2>3
      <3>2. j <= k => ~Peers(lines, m, j)
        <4> SUFFICES ASSUME j <= k, Peers(lines, m, j)
                     PROVE  FALSE
          OBVIOUS
        <4>1. m < j /\ lines[m].ind = lines[j].ind
          BY DEF Peers
        <4>2. j \in m + 1 .. k
          BY <4>1
        <4>3. lines[j].ind > ind /\ lines[m].ind = ind
          BY <1>8, <2>3, <4>2 DEF Open
        <4>4. QED
          BY <1>3, <4>1, <4>3
      <3>3. j = n => Peers(lines, m, j)
        BY <2>2, <2>3
      <3>4. QED
        BY <3>1, <3>2, <3>3
    <2>4. CASE m # p
      <3>1. t.next[m] = s.next[m]
        BY <1>4, <1>11, <2>4
      <3>2. j = n => ~Peers(lines, m, j)
        BY <2>2, <2>4
      <3>3. QED
        BY <2>1, <3>1, <3>2
    <2>5. QED
      BY <2>3, <2>4
  <1>14. ChildLinked(lines, n, t)
    <2>1. ~Deepens(lines, n)
      BY <1>1, <1>3 DEF Deepens
    <2> SUFFICES ASSUME NEW m \in 1 .. Len(lines)
                 PROVE  t.child[m] = IF m < n /\ Deepens(lines, m + 1) THEN m + 1 ELSE Nil
      BY DEF ChildLinked
    <2>2. s.child[m] = IF m < k /\ Deepens(lines, m + 1) THEN m + 1 ELSE Nil
      BY <1>7 DEF ChildLinked
    <2>3. CASE m = k
      BY <1>11, <2>1, <2>2, <2>3
    <2>4. CASE m # k
      <3>1. m < n <=> m < k
        BY <2>4
      <3>2. QED
        BY <1>11, <2>2, <3>1
    <2>5. QED
      BY <2>3, <2>4
  <1>15. \A j \in 2 .. n : Attached(lines, j)
    <2>1. p \in 1 .. n - 1 /\ Peers(lines, p, n)
      BY <1>8, PeerIsOpen
    <2>2. Attached(lines, n)
      BY <2>1 DEF Attached
    <2>3. QED
      BY <2>2 DEF Placed
  <1> HIDE DEF t, n, ind
  <1>16. Placed(lines, n, t)
    BY <1>11, <1>12, <1>13, <1>14, <1>15 DEF Placed, ind, n
  <1>17. QED
    BY <1>2, <1>10, <1>16 DEF Stratified, n

\* A line for which nothing is open is refused, and nothing is linked afterwards.
LEMMA PlaceRefused ==
    ASSUME NEW lines, Document(lines), NEW k \in 1 .. Len(lines), k < Len(lines),
           NEW s \in TreeState(lines), Placed(lines, k, s), ~(lines[k + 1].ind > s.level),
           Peer(s, lines[k + 1].ind) \in {Nil, Garbage}
    PROVE  Stratified(lines, k + 1, Place(s, lines[k + 1]))
  <1> DEFINE ind == lines[k + 1].ind
             t == Place(s, lines[k + 1])
  <1>0. Len(lines) \in Nat
    BY DEF Document
  <1>1. s.fate = "tree" /\ s.last = k /\ s.level = lines[k].ind
    BY DEF Placed
  <1>2. \E f \in {"rejected", "undefined"} : t = [s EXCEPT !.fate = f]
    BY <1>1 DEF Place
  <1>3. t \in TreeState(lines) /\ t.fate # "tree"
    BY <1>2 DEF TreeState
  <1>4. ind \in 0 .. MaxIndent /\ s.slot \in [0 .. MaxIndent -> -1 .. Len(lines)]
    BY DEF Document, TreeState
  <1>5. s.slot[ind] \in {Nil, Garbage}
    <2>1. ~(ind < ind)
      BY <1>4
    <2>2. Peer(s, ind) = s.slot[ind]
      BY <1>4, <2>1 DEF Peer, Unwound
    <2>3. QED
      BY <2>2
  <1>6. ASSUME NEW m \in 1 .. k, Peers(lines, m, k + 1)
        PROVE  FALSE
    <2>1. Open(lines, k, ind, m)
      BY <1>6, PeerIsOpen
    <2>2. s.slot[ind] = m
      BY <1>4, <2>1 DEF Placed, SlotsOpen
    <2>3. QED
      BY <1>5, <2>2 DEF Nil, Garbage
  <1>7. ~Deepens(lines, k + 1)
    BY <1>1 DEF Deepens
  <1>8. ~Attached(lines, k + 1)
    BY <1>6, <1>7 DEF Attached
  <1>9. k + 1 \in 2 .. Len(lines)
    OBVIOUS
  <1> HIDE DEF t
  <1>10. Refused(lines, t)
    BY <1>3, <1>8, <1>9 DEF Refused
  <1>11. QED
    BY <1>3, <1>10 DEF Stratified, t

\* Every line keeps what stratify has done so far right.
LEMMA PlaceStratifies ==
    ASSUME NEW lines, Document(lines), NEW k \in 1 .. Len(lines), k < Len(lines),
           NEW s, Stratified(lines, k, s)
    PROVE  Stratified(lines, k + 1, Place(s, lines[k + 1]))
  <1>1. s \in TreeState(lines)
    BY DEF Stratified
  <1>2. CASE Refused(lines, s)
    <2>1. Place(s, lines[k + 1]) = s
      BY <1>2 DEF Refused, Place
    <2>2. QED
      BY <1>1, <1>2, <2>1 DEF Stratified
  <1>3. CASE Placed(lines, k, s)
    BY <1>1, <1>3, PlaceDeeper, PlaceBeside, PlaceRefused
  <1>4. QED
    BY <1>2, <1>3 DEF Stratified
\* What the links of a document are, and when it has them.
Links(lines, t) ==
    /\ t.next \in [1 .. Len(lines) -> 0 .. Len(lines)]
    /\ t.child \in [1 .. Len(lines) -> 0 .. Len(lines)]
    /\ t.fate \in {"tree", "rejected", "undefined", "crashed"}
    /\ t.fate = "tree" <=> Len(lines) > 1 /\ WellIndented(lines)
    /\ t.fate = "tree" =>
           NextLinked(lines, Len(lines), t) /\ ChildLinked(lines, Len(lines), t)

\* The first line alone is in its place.
LEMMA FirstPlaced ==
    ASSUME NEW lines, Document(lines), Len(lines) > 0,
           NEW s, s = [level |-> lines[1].ind, last |-> 1, fate |-> "tree",
                       next |-> [n \in 1 .. Len(lines) |-> Nil],
                       child |-> [n \in 1 .. Len(lines) |-> Nil],
                       slot |-> [l \in 0 .. MaxIndent |-> IF l = lines[1].ind THEN 1 ELSE Garbage]]
    PROVE  Stratified(lines, 1, s)
  <1>1. 1 \in 1 .. Len(lines) /\ Len(lines) \in Nat /\ lines[1].ind \in 0 .. MaxIndent
    BY DEF Document
  <1>2. s \in TreeState(lines)
    <2>1. s.next \in [1 .. Len(lines) -> 0 .. Len(lines)] /\ s.child \in [1 .. Len(lines) -> 0 .. Len(lines)]
      BY <1>1 DEF Nil
    <2>2. s.slot \in [0 .. MaxIndent -> -1 .. Len(lines)]
      BY <1>1 DEF Garbage
    <2>3. QED
      BY <1>1, <2>1, <2>2 DEF TreeState
  <1>3. SlotsOpen(lines, 1, s)
    <2> SUFFICES ASSUME NEW l \in 0 .. MaxIndent, NEW n \in 1 .. Len(lines)
                 PROVE  s.slot[l] = n <=> n <= 1 /\ Open(lines, 1, l, n)
      BY DEF SlotsOpen
    <2>1. s.slot[l] = n <=> l = lines[1].ind /\ n = 1
      BY <1>1 DEF Garbage
    <2>2. n <= 1 <=> n = 1
      OBVIOUS
    <2>3. Open(lines, 1, l, 1) <=> lines[1].ind = l
      BY DEF Open
    <2>4. QED
      BY <2>1, <2>2, <2>3
  <1>4. NextLinked(lines, 1, s)
    BY <1>1 DEF NextLinked, Peers, Nil
  <1>5. ChildLinked(lines, 1, s)
    BY <1>1 DEF ChildLinked, Nil
  <1>6. \A n \in 2 .. 1 : Attached(lines, n)
    OBVIOUS
  <1>7. QED
    BY <1>2, <1>3, <1>4, <1>5, <1>6 DEF Stratified, Placed

\* stratify gives the lines of a well indented document its links, and no other.
LEMMA StratifyLinks ==
    ASSUME NEW lines \in Seq(TextLine), Document(lines), lines # <<>>
    PROVE  Links(lines, Stratify(lines))
  <1> DEFINE L == Len(lines)
             nodes == 1 .. L
             start == [level |-> lines[1].ind, last |-> 1, fate |-> "tree",
                       next |-> [n \in nodes |-> Nil], child |-> [n \in nodes |-> Nil],
                       slot |-> [l \in 0 .. MaxIndent |-> IF l = lines[1].ind THEN 1 ELSE Garbage]]
             t == Stratify(lines)
  <1>1. L \in Nat /\ L > 0
    BY EmptySeq
  <1>2. CASE L = 1
    <2>1. t = [start EXCEPT !.fate = "crashed"]
      BY <1>2 DEF Stratify
    <2>2. t.fate = "crashed" /\ t.next = [n \in nodes |-> Nil] /\ t.child = [n \in nodes |-> Nil]
      BY <2>1
    <2>3. [n \in nodes |-> Nil] \in [1 .. L -> 0 .. L]
      BY <1>1 DEF Nil
    <2> HIDE DEF t, start
    <2>4. Links(lines, t)
      BY <1>2, <2>2, <2>3 DEF Links
    <2>5. QED
      BY <2>4 DEF t
  <1>3. CASE L # 1
    <2>1. t = PlaceAll(start, Tail(lines))
      BY <1>3 DEF Stratify, PlaceAll
    <2>2. DOMAIN Tail(lines) = 1 .. L - 1 /\ \A i \in 1 .. L - 1 : Tail(lines)[i] = lines[i + 1]
      BY <1>1
    <2>3. PICK first : first = start
      OBVIOUS
    <2>4. Stratified(lines, 1, first)
      BY <1>1, <2>3, FirstPlaced
    <2>5. L - 1 \in Nat
      BY <1>1
    <2>6. PICK rest : rest = Tail(lines)
      OBVIOUS
    <2>7. PICK g : /\ g[0] = first /\ PlaceAll(first, rest) = g[L - 1]
                   /\ \A i \in 1 .. L - 1 : g[i] = Place(g[i - 1], rest[i])
      <3> HIDE DEF L
      <3>1. DOMAIN rest = 1 .. L - 1
        BY <2>2, <2>6
      <3>2. PICK n \in Nat : n = L - 1
        BY <2>5
      <3>3. DOMAIN rest = 1 .. n
        BY <3>1, <3>2
      <3>4. PICK h : /\ h[0] = first /\ PlaceAll(first, rest) = h[n]
                     /\ \A i \in 1 .. n : h[i] = Place(h[i - 1], rest[i])
        BY <3>3, FoldPlace
      <3>5. QED
        BY <3>2, <3>4
    <2>8. \A i \in 0 .. L - 1 : Stratified(lines, i + 1, g[i])
      <3> DEFINE Bad == {i \in 0 .. L - 1 : ~Stratified(lines, i + 1, g[i])}
      <3> SUFFICES ASSUME Bad # {}
                   PROVE  FALSE
        OBVIOUS
      <3>1. PICK i \in Bad : \A j \in Bad : i <= j
        <4>1. Bad \in SUBSET Nat
          OBVIOUS
        <4>2. QED
          BY <4>1, LeastNumber
      <3>2. i # 0
        BY <2>4, <2>7, <3>1
      <3>3. i \in 1 .. L - 1 /\ i - 1 \in 0 .. L - 1 /\ i - 1 \notin Bad
        BY <3>1, <3>2
      <3>4. Stratified(lines, i, g[i - 1]) /\ i \in 1 .. L /\ i < L
        BY <3>3
      <3>5. g[i] = Place(g[i - 1], lines[i + 1])
        BY <2>2, <2>6, <2>7, <3>3
      <3>6. Stratified(lines, i + 1, Place(g[i - 1], lines[i + 1]))
        BY <3>4, PlaceStratifies
      <3>7. QED
        BY <3>1, <3>5, <3>6
    <2>9. t = g[L - 1]
      BY <2>1, <2>3, <2>6, <2>7
    <2>10. Stratified(lines, L, t)
      <3>1. L - 1 \in 0 .. L - 1 /\ (L - 1) + 1 = L
        BY <1>1
      <3>2. QED
        BY <2>8, <2>9, <3>1
    <2> HIDE DEF t
    <2>11. /\ t.next \in [1 .. L -> 0 .. L] /\ t.child \in [1 .. L -> 0 .. L]
           /\ t.fate \in {"tree", "rejected", "undefined", "crashed"}
      BY <2>10 DEF Stratified, TreeState
    <2>12. \A n \in 2 .. L : Attached(lines, n) <=>
                \/ lines[n].ind > lines[n - 1].ind
                \/ \E m \in 1 .. n - 1 : SiblingOf(lines, m, n)
      <3> SUFFICES ASSUME NEW n \in 2 .. L
                   PROVE  \A m \in 1 .. n - 1 : SiblingOf(lines, m, n) <=> Peers(lines, m, n)
        BY DEF Attached, Deepens
      <3>1. n \in 1 .. L /\ \A m \in 1 .. n - 1 : m \in 1 .. L
        BY <1>1
      <3>2. QED
        BY <3>1, PeersAreSiblings
    <2>13. WellIndented(lines) <=> \A n \in 2 .. L : Attached(lines, n)
      BY <2>12 DEF WellIndented
    <2>14. Placed(lines, L, t) => Links(lines, t)
      <3> HIDE DEF L
      <3>1. L > 1
        BY <1>1, <1>3
      <3>2. QED
        BY <3>1, <2>11, <2>13 DEF Links, Placed, L
    <2>15. Refused(lines, t) => Links(lines, t)
      BY <2>11, <2>13 DEF Links, Refused
    <2>16. QED
      BY <2>10, <2>14, <2>15 DEF Stratified, t
  <1>4. QED
    BY <1>2, <1>3

\* A line that is more than a comment; PROGRAM gives a name of a program.
CommandLine ==
    {l \in TextLine : l.tok # <<>> /\ (l.tok[1] = "PROGRAM" /\ Len(l.tok) > 1 => l.tok[2] \in Program)}

\* The lines that remain of a script are commands.
LEMMA RemainingLines ==
    ASSUME NEW text \in Seq(TextLine),
           \A i \in 1 .. Len(text) : LET t == text[i].tok IN
               t # <<>> /\ t[1] = "PROGRAM" /\ Len(t) > 1 => t[2] \in Program
    PROVE  RemoveBlanks(text) \in Seq(CommandLine)
  <1>1. Len(text) \in Nat /\ DOMAIN text = 1 .. Len(text)
    OBVIOUS
  <1>2. PICK L : L = Len(text)
    OBVIOUS
  <1>3. PICK none, lines : none = <<>> /\ lines = text
    OBVIOUS
  <1>4. PICK g : /\ g[0] = none /\ KeptAll(none, lines) = g[L]
                 /\ \A i \in 1 .. L : g[i] = Kept(g[i - 1], lines[i])
    <2>1. L \in Nat /\ DOMAIN lines = 1 .. L
      BY <1>1, <1>2, <1>3
    <2>2. QED
      BY <2>1, FoldKept
  <1> DEFINE Bad == {i \in 0 .. L : g[i] \notin Seq(CommandLine)}
  <1>5. Bad = {}
    <2> SUFFICES ASSUME Bad # {}
                 PROVE  FALSE
      OBVIOUS
    <2>1. PICK i \in Bad : \A j \in Bad : i <= j
      <3>1. Bad \in SUBSET Nat
        BY <1>1, <1>2
      <3>2. QED
        BY <3>1, LeastNumber
    <2>2. <<>> \in Seq(CommandLine)
      OBVIOUS
    <2>3. i # 0
      BY <1>3, <1>4, <2>1, <2>2
    <2>4. i \in 1 .. L /\ i - 1 \in 0 .. L /\ i - 1 \notin Bad
      BY <1>1, <1>2, <2>1, <2>3
    <2>5. g[i - 1] \in Seq(CommandLine) /\ g[i] = Kept(g[i - 1], text[i])
      BY <1>3, <1>4, <2>4
    <2>6. text[i] \in TextLine
      BY <1>2, <2>4, ElementOfSeq
    <2>7. CASE text[i].tok = <<>> \/ text[i].tok[1] = "#"
      <3>1. Kept(g[i - 1], text[i]) = g[i - 1]
        BY <2>7 DEF Kept
      <3>2. g[i] \in Seq(CommandLine)
        BY <2>5, <3>1
      <3>3. QED
        BY <2>1, <3>2
    <2>8. CASE ~(text[i].tok = <<>> \/ text[i].tok[1] = "#")
      <3>1. text[i] \in CommandLine
        BY <1>2, <2>4, <2>6, <2>8 DEF CommandLine
      <3>2. g[i] = Append(g[i - 1], text[i])
        BY <2>5, <2>8 DEF Kept
      <3>3. PICK q \in Seq(CommandLine) : q = g[i - 1]
        BY <2>5
      <3>4. PICK c \in CommandLine : c = text[i]
        BY <3>1
      <3>5. Append(q, c) \in Seq(CommandLine)
        OBVIOUS
      <3>6. QED
        BY <2>1, <3>2, <3>3, <3>4, <3>5
    <2>9. QED
      BY <2>7, <2>8
  <1>6. L \in 0 .. L
    BY <1>1, <1>2
  <1>7. RemoveBlanks(text) = g[L]
    BY <1>3, <1>4 DEF RemoveBlanks, KeptAll
  <1>8. QED
    BY <1>5, <1>6, <1>7

\* Commands make a document.
LEMMA CommandsDocument ==
    ASSUME NEW lines \in Seq(CommandLine)
    PROVE  lines \in Seq(TextLine) /\ Document(lines)
  <1>1. \A n \in 1 .. Len(lines) : lines[n] \in TextLine
    BY ElementOfSeq DEF CommandLine
  <1>2. Len(lines) \in Nat /\ DOMAIN lines = 1 .. Len(lines)
    OBVIOUS
  <1>3. lines \in Seq(TextLine)
    BY <1>1, <1>2
  <1>4. \A n \in 1 .. Len(lines) : lines[n].ind \in 0 .. MaxIndent
    BY <1>1 DEF TextLine
  <1>5. QED
    BY <1>2, <1>3, <1>4 DEF Document
-----------------------------------------------------------------------------
(* The order of the commands.                                               *)

Begun  == Range(begun)
Enc(n) == Enclosing(script, n)

\* The tree of a script that is run, with the list of every line that has not begun as
\* the indentation gives it: only a line that has begun loses lines to callbacks.
FirstBelow(n) == IF n < Len(script) /\ Deepens(script, n + 1) THEN n + 1 ELSE Nil

TreeInv ==
    /\ script \in Seq(CommandLine) /\ script # <<>>
    /\ next \in [Node -> 0 .. Len(script)] /\ child \in [Node -> 0 .. Len(script)]
    /\ fate \in {"tree", "rejected", "undefined", "crashed"}
    /\ fate = "tree" <=> Len(script) > 1 /\ WellIndented(script)
    /\ fate = "tree" => NextLinked(script, Len(script), [next |-> next])
    /\ fate = "tree" => \A n \in Node \ Begun : child[n] = FirstBelow(n)
    /\ verdict # "none" => fate = "tree"

\* The active calls: every one but the innermost waits for a program, inside of which
\* it has been called back.
FrameInv ==
    /\ frames \in Seq(Frames)
    /\ \A i \in 1 .. Len(frames) - 1 : frames[i].running /\ frames[i + 1].spec = frames[i].at
    /\ {active, continuation, raised} \subseteq 0 .. Len(script)
    /\ verdict \in Results
    /\ verdict = "RUNNING" => frames # <<>> /\ raised = Nil
    /\ InProgram => active = Top.at

\* Line n may begin: everything that has begun is before it, and what it is below of
\* has begun.
Ready(n) == n \in Node /\ (\A b \in Begun : b < n) /\ Enc(n) \subseteq Begun

\* All that has begun since line n is below it.
Latest(n) == \A b \in Begun : b <= n \/ n \in Enc(b)

\* Line n is below every command that runs a program.
Inside(n) == \A i \in 1 .. Len(frames) : frames[i].running => frames[i].at \in Enc(n)

BegunInv ==
    /\ begun \in Seq(Node) /\ done \in Seq(Node) /\ Range(done) \subseteq Begun
    /\ \A i \in 2 .. Len(begun) : begun[i - 1] < begun[i]
    /\ \A b \in Begun : Enc(b) \subseteq Begun

OrderTop     == ~Top.running /\ Top.at # Nil => Ready(Top.at) /\ Inside(Top.at)
OrderAwaited == continuation # Nil => Ready(continuation) /\ Inside(continuation)
OrderRunning ==
    \A i \in 1 .. Len(frames) :
        frames[i].running => frames[i].at \in Begun /\ Latest(frames[i].at)
OrderNested ==
    \A i, j \in 1 .. Len(frames) :
        i < j /\ frames[j].running => frames[i].at \in Enc(frames[j].at)
OrderBelow ==
    Top.running /\ child[Top.at] # Nil => Ready(child[Top.at]) /\ Inside(child[Top.at])

OrderInv ==
    verdict = "RUNNING" =>
        OrderTop /\ OrderAwaited /\ OrderRunning /\ OrderNested /\ OrderBelow

\* Nothing but the ERROR line itself is reached after a command before an ERROR line.
ErrorInv ==
    /\ verdict = "RUNNING" =>
           \A d \in Range(done) : ErrorFollows(d) => ~Top.running /\ Top.at = next[d]
    /\ verdict = "PASS" =>
           /\ raised # Nil => ErrorFollows(raised)
           /\ \A d \in Range(done) : ~ErrorFollows(d)

\* The first line below a command that has not begun is where the callbacks go on, is
\* awaited by the next command, or follows a command that still runs a program.
Left(e) == Subordinate(e) \ Begun

Waits(u) ==
    \/ Top.running /\ child[Top.at] = u /\ continuation = u
    \/ ~Top.running /\ (Top.at = u \/ continuation = u)
    \/ \E j \in 1 .. Len(frames) : frames[j].running /\ next[frames[j].at] = u

MissingInv ==
    \A e \in Begun :
        Word(e) = "EXEC" /\ Left(e) # {} =>
            /\ Latest(e)
            /\ verdict = "RUNNING" =>
                   \E u \in Left(e) : (\A v \in Left(e) : u <= v) /\ Waits(u)
\* A line is below of earlier lines.
LEMMA EnclosingBefore ==
    ASSUME NEW lines, Document(lines), NEW n \in 1 .. Len(lines), NEW m \in Enclosing(lines, n)
    PROVE  m \in 1 .. Len(lines) /\ m < n
  BY DEF Document, Enclosing

\* What a line is below of, the lines below it are below of.
LEMMA EnclosingThrough ==
    ASSUME NEW lines, Document(lines), NEW c \in 1 .. Len(lines),
           NEW b \in Enclosing(lines, c), NEW a \in Enclosing(lines, b)
    PROVE  a \in Enclosing(lines, c)
  <1>1. b \in 1 .. c - 1 /\ \A k \in b + 1 .. c : lines[k].ind > lines[b].ind
    BY DEF Enclosing
  <1>2. a \in 1 .. b - 1 /\ \A k \in a + 1 .. b : lines[k].ind > lines[a].ind
    BY <1>1 DEF Enclosing
  <1>3. a \in 1 .. Len(lines) /\ b \in 1 .. Len(lines) /\ Len(lines) \in Nat
    BY <1>1, <1>2 DEF Document
  <1>4. ASSUME NEW k \in a + 1 .. c
        PROVE  lines[k].ind > lines[a].ind
    <2>1. CASE k <= b
      BY <1>2, <1>3, <2>1
    <2>2. CASE k > b
      <3>1. lines[k].ind > lines[b].ind
        BY <1>1, <1>3, <2>2
      <3>2. lines[b].ind > lines[a].ind
        BY <1>2, <1>3
      <3>3. k \in 1 .. Len(lines)
        BY <1>3
      <3>4. lines[k].ind \in Int /\ lines[b].ind \in Int /\ lines[a].ind \in Int
        BY <1>3, <3>3 DEF Document
      <3>5. QED
        BY <3>1, <3>2, <3>4
    <2>3. QED
      BY <1>3, <2>1, <2>2
  <1>5. a \in 1 .. c - 1
    BY <1>1, <1>2
  <1>6. QED
    BY <1>4, <1>5 DEF Enclosing

\* Lines of one level with deeper lines between them are below the same lines.
LEMMA PeersEnclosed ==
    ASSUME NEW lines, Document(lines), NEW m \in 1 .. Len(lines), NEW n \in 1 .. Len(lines),
           Peers(lines, m, n)
    PROVE  Enclosing(lines, m) = Enclosing(lines, n)
  BY PeersAreSiblings DEF SiblingOf

\* The first line below a line is below of that line, and of what it is below of.
LEMMA FirstEnclosed ==
    ASSUME NEW lines, Document(lines), NEW n \in 1 .. Len(lines), n < Len(lines),
           Deepens(lines, n + 1)
    PROVE  Enclosing(lines, n + 1) = Enclosing(lines, n) \cup {n}
  <1>1. n + 1 \in 1 .. Len(lines) /\ lines[n + 1].ind > lines[n].ind
    BY DEF Deepens
  <1>2. n \in Enclosing(lines, n + 1)
    BY <1>1 DEF Enclosing
  <1>3. ASSUME NEW a \in Enclosing(lines, n)
        PROVE  a \in Enclosing(lines, n + 1)
    BY <1>1, <1>2, EnclosingThrough
  <1>4. ASSUME NEW a \in Enclosing(lines, n + 1), a # n
        PROVE  a \in Enclosing(lines, n)
    <2>1. a \in 1 .. n /\ \A k \in a + 1 .. n + 1 : lines[k].ind > lines[a].ind
      BY DEF Enclosing
    <2>2. a \in 1 .. n - 1 /\ \A k \in a + 1 .. n : k \in a + 1 .. n + 1
      BY <1>4, <2>1
    <2>3. QED
      BY <2>1, <2>2 DEF Enclosing
  <1>5. QED
    BY <1>2, <1>3, <1>4

\* The next line of a level comes after all lines below the line before it.
LEMMA PeerAfterAll ==
    ASSUME NEW lines, Document(lines), NEW n \in 1 .. Len(lines), NEW q \in 1 .. Len(lines),
           Peers(lines, n, q), NEW b \in 1 .. Len(lines), n \in Enclosing(lines, b)
    PROVE  b < q
  <1> SUFFICES ASSUME ~(b < q)
               PROVE  FALSE
    OBVIOUS
  <1>1. n < q /\ lines[n].ind = lines[q].ind
    BY DEF Peers
  <1>2. q \in n + 1 .. b
    BY <1>1
  <1>3. lines[q].ind > lines[n].ind /\ lines[q].ind \in Int
    BY <1>2 DEF Enclosing, Document
  <1>4. QED
    BY <1>1, <1>3

\* The lines directly below line e.
Children(lines, e) ==
    {m \in 1 .. Len(lines) : e \in Enclosing(lines, m) /\ \A k \in Enclosing(lines, m) : k <= e}

\* One of them is the first line below e, or follows another.
LEMMA ChildAttached ==
    ASSUME NEW lines, Document(lines), NEW e \in 1 .. Len(lines), NEW v \in Children(lines, e),
           v = 1 \/ Attached(lines, v)
    PROVE  \/ v = e + 1 /\ Deepens(lines, v)
           \/ \E m \in Children(lines, e) : Peers(lines, m, v)
  <1>1. /\ v \in 1 .. Len(lines) /\ e \in Enclosing(lines, v)
        /\ \A k \in Enclosing(lines, v) : k <= e
    BY DEF Children
  <1>2. e < v
    BY <1>1, EnclosingBefore
  <1>3. Attached(lines, v)
    BY <1>1, <1>2
  <1>4. CASE Deepens(lines, v)
    <2>1. v - 1 \in Enclosing(lines, v)
      <3>1. \A k \in (v - 1) + 1 .. v : k = v
        BY <1>1
      <3>2. lines[v].ind > lines[v - 1].ind
        BY <1>4 DEF Deepens
      <3>3. v - 1 \in 1 .. v - 1
        BY <1>1, <1>2
      <3>4. QED
        BY <3>1, <3>2, <3>3 DEF Enclosing
    <2>2. v - 1 <= e
      BY <1>1, <2>1
    <2>3. v = e + 1
      BY <1>1, <1>2, <2>2
    <2>4. QED
      BY <1>4, <2>3
  <1>5. CASE ~Deepens(lines, v)
    <2>1. PICK m \in 1 .. v - 1 : Peers(lines, m, v)
      BY <1>3, <1>5 DEF Attached
    <2>2. m \in 1 .. Len(lines)
      BY <1>1, <2>1
    <2>3. Enclosing(lines, m) = Enclosing(lines, v)
      BY <1>1, <2>1, <2>2, PeersEnclosed
    <2>4. m \in Children(lines, e)
      BY <1>1, <2>2, <2>3 DEF Children
    <2>5. QED
      BY <2>1, <2>4
  <1>6. QED
    BY <1>4, <1>5

\* The first of them is the line after e.
LEMMA FirstChild ==
    ASSUME NEW lines, Document(lines), NEW e \in 1 .. Len(lines), NEW v \in Children(lines, e),
           v = 1 \/ Attached(lines, v), \A m \in Children(lines, e) : v <= m
    PROVE  v = e + 1 /\ Deepens(lines, v)
  <1>1. ASSUME NEW m \in Children(lines, e), Peers(lines, m, v)
        PROVE  FALSE
    <2>1. m \in 1 .. Len(lines) /\ v \in 1 .. Len(lines) /\ v <= m
      BY DEF Children
    <2>2. m < v
      BY <1>1 DEF Peers
    <2>3. QED
      BY <2>1, <2>2
  <1>2. QED
    BY <1>1, ChildAttached

\* And each follows the one before it.
LEMMA NextChild ==
    ASSUME NEW lines, Document(lines), NEW e \in 1 .. Len(lines),
           NEW u \in Children(lines, e), NEW v \in Children(lines, e), u < v,
           v = 1 \/ Attached(lines, v), \A m \in Children(lines, e) : m <= u \/ v <= m
    PROVE  Peers(lines, u, v)
  <1>1. /\ u \in 1 .. Len(lines) /\ v \in 1 .. Len(lines) /\ e \in Enclosing(lines, u)
        /\ \A k \in Enclosing(lines, u) : k <= e
    BY DEF Children
  <1>2. e < u
    BY <1>1, EnclosingBefore
  <1>3. v # e + 1
    BY <1>1, <1>2
  <1>4. PICK m \in Children(lines, e) : Peers(lines, m, v)
    BY <1>3, ChildAttached
  <1>5. m \in 1 .. Len(lines) /\ m < v /\ e \in Enclosing(lines, m)
    BY <1>4 DEF Children, Peers
  <1>6. m <= u
    BY <1>1, <1>5
  <1>7. ~(m < u)
    <2> SUFFICES ASSUME m < u
                 PROVE  FALSE
      OBVIOUS
    <2>1. \A k \in m + 1 .. u : k \in m + 1 .. v - 1
      BY <1>1, <1>5
    <2>2. m \in 1 .. u - 1
      BY <1>1, <1>5
    <2>3. m \in Enclosing(lines, u)
      BY <1>4, <2>1, <2>2 DEF Peers, Enclosing
    <2>4. e < m
      BY <1>5, EnclosingBefore
    <2>5. QED
      BY <1>1, <1>5, <2>3, <2>4
  <1>8. m = u
    BY <1>1, <1>5, <1>6, <1>7
  <1>9. QED
    BY <1>4, <1>8
-----------------------------------------------------------------------------
(* What an action does to the lists of commands: the steps that the         *)
(* eighteen actions amount to.                                              *)

Halts ==
    /\ verdict = "RUNNING" /\ verdict' \in Results \ {"RUNNING", "none"}
    /\ UNCHANGED <<script, next, child, fate, frames, done>>
    /\ begun' = begun \/ (AtCommand /\ begun' = Append(begun, Top.at))
    /\ {active', continuation', raised'} \subseteq 0 .. Len(script)
    /\ verdict' = "PASS" =>
           /\ Top.at = Nil \/ Top.running \/ Word(Top.at) # "ERROR"
           /\ raised' # Nil => ErrorFollows(raised')

Completes ==
    /\ AtCommand /\ Word(Top.at) \notin {"ERROR", "EXEC"}
    /\ begun' = Append(begun, Top.at) /\ active' = Top.at
    /\ Complete
    /\ UNCHANGED <<script, next, child, fate, continuation, raised>>

Starts ==
    /\ AtCommand /\ Word(Top.at) # "ERROR"
    /\ begun' = Append(begun, Top.at) /\ active' = Top.at
    /\ frames' = [frames EXCEPT ![Len(frames)].running = TRUE]
    /\ continuation' = IF Word(Top.at) = "EXEC" THEN child[Top.at] ELSE continuation
    /\ UNCHANGED <<script, next, child, fate, verdict, done, raised>>

Returns(rest) ==
    /\ InList /\ Len(frames) > 1
    /\ frames' = Front(frames) /\ child' = Remainder(rest)
    /\ continuation' = rest /\ active' = Restored
    /\ UNCHANGED <<script, next, fate, verdict, done, raised>>

Continues ==
    /\ AtCommand /\ Word(Top.at) \notin {"ERROR", "EXEC"}
    /\ begun' = Append(begun, Top.at)
    /\ Returns(next[Top.at])

Ends == Top.at = Nil /\ begun' = begun /\ Returns(continuation)

CallsBack ==
    /\ InProgram /\ child[active] # Nil
    /\ \E k \in CallbackIds : frames' = Append(frames, Frame(child[active], k))
    /\ continuation' = Nil
    /\ UNCHANGED <<script, next, child, fate, active, verdict, begun, done, raised>>

Works ==
    /\ InProgram
    /\ continuation' = continuation \/ (child[active] = Nil /\ continuation' = Nil)
    /\ UNCHANGED <<script, next, child, fate, frames, active, verdict, begun, done, raised>>

Finishes ==
    /\ InProgram
    /\ Complete
    /\ UNCHANGED <<script, next, child, fate, active, continuation, begun, raised>>

ControlStep ==
    \/ Halts \/ Completes \/ Starts \/ Continues \/ Ends \/ CallsBack \/ Works \/ Finishes

\* Only the innermost call changes.
LEMMA TopChanges ==
    ASSUME FrameInv, frames # <<>>, NEW f \in Frames,
           frames' = [frames EXCEPT ![Len(frames)] = f]
    PROVE  /\ frames' \in Seq(Frames) /\ Len(frames') = Len(frames) /\ Top' = f
           /\ Len(frames) \in Nat /\ Len(frames) > 0
           /\ \A i \in 1 .. Len(frames) - 1 : frames'[i] = frames[i]
  <1>1. frames \in Seq(Frames)
    BY DEF FrameInv
  <1>2. Len(frames) \in Nat /\ Len(frames) > 0
    BY <1>1, EmptySeq
  <1>3. frames' \in Seq(Frames) /\ Len(frames') = Len(frames)
    BY <1>1, <1>2
  <1>4. frames'[Len(frames)] = f /\ \A i \in 1 .. Len(frames) - 1 : frames'[i] = frames[i]
    BY <1>1, <1>2
  <1>5. Top' = f
    BY <1>3, <1>4 DEF Top
  <1>6. QED
    BY <1>2, <1>3, <1>4, <1>5

\* The innermost call is one of the calls.
LEMMA TopIsFrame ==
    ASSUME FrameInv, frames # <<>>
    PROVE  /\ Len(frames) \in Nat /\ Len(frames) > 0 /\ Top = frames[Len(frames)]
           /\ \A i \in 1 .. Len(frames) : frames[i] \in Frames
           /\ Top \in Frames
  <1>1. frames \in Seq(Frames)
    BY DEF FrameInv
  <1>2. Len(frames) \in Nat /\ Len(frames) > 0
    BY <1>1, EmptySeq
  <1>3. \A i \in 1 .. Len(frames) : frames[i] \in Frames
    BY <1>1, ElementOfSeq
  <1>4. Top = frames[Len(frames)] /\ Len(frames) \in 1 .. Len(frames)
    BY <1>2 DEF Top
  <1>5. QED
    BY <1>2, <1>3, <1>4

\* A script that runs is a tree of commands.
LEMMA RunningTree ==
    ASSUME TreeInv
    PROVE  /\ Len(script) \in Nat /\ Len(script) > 0 /\ Node = 1 .. Len(script) /\ Document(script)
           /\ fate = "tree" =>
                  \A m, n \in Node : /\ next[m] \in 0 .. Len(script)
                                     /\ next[m] = n <=> Peers(script, m, n)
                                     /\ next[m] = n => m < n /\ Enc(m) = Enc(n)
  <1>1. script \in Seq(CommandLine) /\ script # <<>>
    BY DEF TreeInv
  <1>2. Document(script) /\ Len(script) \in Nat
    BY <1>1, CommandsDocument
  <1>3. Len(script) > 0
    BY <1>1, EmptySeq
  <1>4. ASSUME fate = "tree", NEW m \in Node, NEW n \in Node
        PROVE  /\ next[m] \in 0 .. Len(script)
               /\ next[m] = n <=> Peers(script, m, n)
               /\ next[m] = n => m < n /\ Enc(m) = Enc(n)
    <2>1. m \in 1 .. Len(script) /\ n \in 1 .. Len(script)
      BY DEF Node
    <2>2. next[m] \in 0 .. Len(script)
      BY DEF TreeInv
    <2>3. next[m] = n <=> Peers(script, m, n)
      <3>1. next[m] = n <=> n <= Len(script) /\ Peers(script, m, n)
        BY <1>4, <2>1 DEF TreeInv, NextLinked
      <3>2. n <= Len(script)
        BY <2>1
      <3>3. QED
        BY <3>1, <3>2
    <2>4. Peers(script, m, n) => m < n /\ Enc(m) = Enc(n)
      <3>1. Peers(script, m, n) => Enclosing(script, m) = Enclosing(script, n)
        BY <1>2, <2>1, PeersEnclosed
      <3>2. QED
        BY <3>1 DEF Peers, Enc
    <2>5. QED
      BY <2>2, <2>3, <2>4
  <1>5. QED
    BY <1>2, <1>3, <1>4 DEF Node

\* A command that may begin keeps the order.
LEMMA BegunGrows ==
    ASSUME TreeInv, BegunInv, NEW n, Ready(n), begun' = Append(begun, n), script' = script
    PROVE  /\ Begun' = Begun \cup {n} /\ begun' \in Seq(Node)
           /\ \A i \in 2 .. Len(begun') : begun'[i - 1] < begun'[i]
           /\ \A b \in Begun' : Enc(b) \subseteq Begun'
  <1>1. begun \in Seq(Node) /\ n \in Node
    BY DEF BegunInv, Ready
  <1>2. Len(begun) \in Nat /\ Len(begun') = Len(begun) + 1 /\ begun' \in Seq(Node)
    BY <1>1
  <1>3. \A i \in 1 .. Len(begun) : begun'[i] = begun[i]
    BY <1>1
  <1>4. begun'[Len(begun) + 1] = n
    BY <1>1
  <1>5. DOMAIN begun = 1 .. Len(begun) /\ DOMAIN begun' = 1 .. Len(begun) + 1
    BY <1>1, <1>2
  <1>6. Begun' = Begun \cup {n}
    <2>1. Begun = {begun[i] : i \in 1 .. Len(begun)} /\ Begun' = {begun'[i] : i \in 1 .. Len(begun) + 1}
      BY <1>5 DEF Begun, Range
    <2>2. \A i : i \in 1 .. Len(begun) + 1 <=> i \in 1 .. Len(begun) \/ i = Len(begun) + 1
      BY <1>2
    <2>3. QED
      BY <1>3, <1>4, <2>1, <2>2
  <1>7. ASSUME NEW i \in 2 .. Len(begun')
        PROVE  begun'[i - 1] < begun'[i]
    <2>1. CASE i = Len(begun) + 1
      <3>1. i - 1 \in 1 .. Len(begun) /\ begun'[i] = n
        BY <1>2, <1>4, <1>7, <2>1
      <3>2. begun'[i - 1] \in Begun
        <4>1. begun[i - 1] \in Begun
          BY <3>1, <1>5 DEF Begun, Range
        <4>2. QED
          BY <1>3, <3>1, <4>1
      <3>3. QED
        BY <3>1, <3>2 DEF Ready
    <2>2. CASE i # Len(begun) + 1
      <3>1. i \in 2 .. Len(begun) /\ i \in 1 .. Len(begun) /\ i - 1 \in 1 .. Len(begun)
        BY <1>2, <1>7, <2>2
      <3>2. begun[i - 1] < begun[i]
        BY <3>1 DEF BegunInv
      <3>3. QED
        BY <1>3, <3>1, <3>2
    <2>3. QED
      BY <2>1, <2>2
  <1>8. \A b \in Begun' : Enc(b) \subseteq Begun'
    BY <1>6 DEF BegunInv, Ready
  <1>9. QED
    BY <1>2, <1>6, <1>7, <1>8
\* The line after a command may begin once nothing is left below the command.
LEMMA ReadyNext ==
    ASSUME TreeInv, fate = "tree", NEW n \in Node, NEW B \in SUBSET Node, Enc(n) \subseteq B,
           \A b \in B : b <= n \/ n \in Enc(b), NEW q, q = next[n], q # Nil
    PROVE  q \in Node /\ (\A b \in B : b < q) /\ Enc(q) = Enc(n) /\ Enc(q) \subseteq B
  <1>1. Document(script) /\ Node = 1 .. Len(script) /\ Len(script) \in Nat
    BY RunningTree
  <1>2. next[n] \in 0 .. Len(script)
    BY DEF TreeInv
  <1>3. q \in Node
    BY <1>1, <1>2 DEF Nil
  <1>4. Peers(script, n, q) /\ n < q /\ Enc(n) = Enc(q)
    BY <1>3, RunningTree
  <1>5. ASSUME NEW b \in B
        PROVE  b < q
    <2>1. b \in 1 .. Len(script) /\ n \in 1 .. Len(script) /\ q \in 1 .. Len(script)
      BY <1>1, <1>3
    <2>2. CASE b <= n
      BY <1>4, <2>1, <2>2
    <2>3. CASE n \in Enc(b)
      <3>1. n \in Enclosing(script, b)
        BY <2>3 DEF Enc
      <3>2. QED
        BY <1>1, <1>4, <2>1, <3>1, PeerAfterAll
    <2>4. QED
      BY <2>2, <2>3
  <1>6. QED
    BY <1>3, <1>4, <1>5

\* The first line below a command may begin when the command has just begun.
LEMMA ReadyBelow ==
    ASSUME TreeInv, fate = "tree", NEW n \in Node, NEW B \in SUBSET Node, n \in B, Enc(n) \subseteq B,
           \A b \in B : b <= n, NEW c, c = FirstBelow(n), c # Nil
    PROVE  c \in Node /\ (\A b \in B : b < c) /\ Enc(c) = Enc(n) \cup {n} /\ Enc(c) \subseteq B
  <1>1. Document(script) /\ Node = 1 .. Len(script) /\ Len(script) \in Nat
    BY RunningTree
  <1>2. n < Len(script) /\ Deepens(script, n + 1) /\ c = n + 1
    BY DEF FirstBelow
  <1>3. c \in Node /\ n \in 1 .. Len(script)
    BY <1>1, <1>2
  <1>4. Enc(c) = Enc(n) \cup {n}
    <2>1. Enclosing(script, n + 1) = Enclosing(script, n) \cup {n}
      BY <1>1, <1>2, <1>3, FirstEnclosed
    <2>2. QED
      BY <1>2, <2>1 DEF Enc
  <1>5. \A b \in B : b < c
    BY <1>1, <1>2, <1>3
  <1>6. QED
    BY <1>3, <1>4, <1>5

CommandInv == TreeInv /\ FrameInv /\ BegunInv /\ OrderInv

\* What every step leaves alone.
LEMMA StepKeeps ==
    ASSUME ControlStep
    PROVE  /\ script' = script /\ next' = next /\ fate' = fate /\ Node' = Node
           /\ verdict = "RUNNING"
           /\ verdict' = "RUNNING" \/ Halts
           /\ begun' = begun \/ (AtCommand /\ begun' = Append(begun, Top.at))
  <1>1. /\ script' = script /\ next' = next /\ fate' = fate
        /\ verdict = "RUNNING" /\ (verdict' = "RUNNING" \/ Halts)
        /\ begun' = begun \/ (AtCommand /\ begun' = Append(begun, Top.at))
    BY DEF ControlStep, Halts, Completes, Starts, Continues, Ends, CallsBack, Works, Finishes,
           Returns, AtCommand, InList, InProgram, Complete
  <1>2. Node' = Node
    BY <1>1 DEF Node
  <1>3. QED
    BY <1>1, <1>2

\* The command that is reached may begin, and nothing is awaited.
LEMMA ReachedIsReady ==
    ASSUME CommandInv, AtCommand
    PROVE  /\ verdict = "RUNNING" /\ fate = "tree" /\ frames # <<>> /\ ~Top.running
           /\ Top.at \in Node /\ Ready(Top.at) /\ Inside(Top.at) /\ continuation = Nil
           /\ Top.at \notin Begun /\ child[Top.at] = FirstBelow(Top.at)
  <1>1. verdict = "RUNNING" /\ ~Top.running /\ Top.at # Nil /\ continuation = Nil
    BY DEF AtCommand, InList, Awaited
  <1>2. fate = "tree" /\ frames # <<>>
    BY <1>1 DEF CommandInv, TreeInv, FrameInv
  <1>3. Ready(Top.at) /\ Inside(Top.at)
    BY <1>1 DEF CommandInv, OrderInv, OrderTop
  <1>4. Top.at \in Node
    BY <1>3 DEF Ready
  <1>5. Top.at \notin Begun
    <2>1. Top.at \in Int
      BY <1>4, RunningTree DEF CommandInv
    <2>2. ~(Top.at < Top.at)
      BY <2>1
    <2>3. QED
      BY <1>3, <2>2 DEF Ready
  <1>6. child[Top.at] = FirstBelow(Top.at)
    BY <1>2, <1>4, <1>5 DEF CommandInv, TreeInv
  <1>7. QED
    BY <1>1, <1>2, <1>3, <1>4, <1>5, <1>6

\* What has begun after a step.
LEMMA BegunAfter ==
    ASSUME CommandInv, ControlStep
    PROVE  /\ Begun \subseteq Begun' /\ Begun' \subseteq Node /\ Begun \subseteq Node
           /\ begun' \in Seq(Node)
           /\ \A i \in 2 .. Len(begun') : begun'[i - 1] < begun'[i]
           /\ \A b \in Begun' : Enc(b) \subseteq Begun'
           /\ begun' # begun => AtCommand /\ Begun' = Begun \cup {Top.at}
  <1>1. begun' = begun \/ (AtCommand /\ begun' = Append(begun, Top.at))
    BY StepKeeps
  <1>2. TreeInv /\ BegunInv
    BY DEF CommandInv
  <1>3. script' = script
    BY StepKeeps
  <1>4. CASE begun' = begun
    <2>1. Begun' = Begun
      BY <1>4 DEF Begun
    <2>2. Begun \subseteq Node
      BY <1>2, ElementOfSeq DEF BegunInv, Begun, Range
    <2>3. QED
      BY <1>2, <1>4, <2>1, <2>2 DEF BegunInv
  <1>5. CASE AtCommand /\ begun' = Append(begun, Top.at)
    <2>1. Ready(Top.at)
      BY <1>5, ReachedIsReady
    <2>2. PICK n : n = Top.at
      OBVIOUS
    <2>3. /\ Begun' = Begun \cup {n} /\ begun' \in Seq(Node)
          /\ \A i \in 2 .. Len(begun') : begun'[i - 1] < begun'[i]
          /\ \A b \in Begun' : Enc(b) \subseteq Begun'
      BY <1>2, <1>3, <1>5, <2>1, <2>2, BegunGrows
    <2>4. Begun \subseteq Node /\ n \in Node
      BY <1>2, <2>1, <2>2, ElementOfSeq DEF BegunInv, Begun, Range, Ready
    <2>5. QED
      BY <1>5, <2>2, <2>3, <2>4
  <1>6. QED
    BY <1>1, <1>4, <1>5
\* A command that is completed gives way to the line after it.
LEMMA CompleteEffect ==
    ASSUME CommandInv, verdict = "RUNNING", Complete, Top.at \in Node
    PROVE  /\ frames' \in Seq(Frames) /\ Len(frames') = Len(frames)
           /\ Len(frames) \in Nat /\ Len(frames) > 0
           /\ \A i \in 1 .. Len(frames) - 1 : frames'[i] = frames[i]
           /\ Top'.at = next[Top.at] /\ Top'.running = FALSE /\ Top'.spec = Top.spec
  <1>1. frames # <<>> /\ FrameInv /\ TreeInv
    BY DEF CommandInv, FrameInv
  <1>2. Top \in Frames /\ Len(frames) \in Nat /\ Len(frames) > 0 /\ Top = frames[Len(frames)]
    BY <1>1, TopIsFrame
  <1>3. PICK f : f = [Top EXCEPT !.at = next[Top.at], !.running = FALSE]
    OBVIOUS
  <1>4. next[Top.at] \in 0 .. Len(script)
    BY <1>1 DEF TreeInv
  <1>5. f \in Frames
    BY <1>2, <1>3, <1>4 DEF Frames
  <1>6. frames' = [frames EXCEPT ![Len(frames)] = f]
    <2>1. frames \in Seq(Frames) /\ Len(frames) \in DOMAIN frames
      BY <1>1, <1>2 DEF FrameInv
    <2>2. QED
      BY <1>2, <1>3, <2>1 DEF Complete
  <1>7. /\ frames' \in Seq(Frames) /\ Len(frames') = Len(frames) /\ Top' = f
        /\ \A i \in 1 .. Len(frames) - 1 : frames'[i] = frames[i]
    BY <1>1, <1>5, <1>6, TopChanges
  <1>8. f.at = next[Top.at] /\ f.running = FALSE /\ f.spec = Top.spec
    BY <1>2, <1>3 DEF Frames
  <1>9. QED
    BY <1>2, <1>7, <1>8

\* A command that runs a program waits for it.
LEMMA StartEffect ==
    ASSUME CommandInv, verdict = "RUNNING", frames' = [frames EXCEPT ![Len(frames)].running = TRUE]
    PROVE  /\ frames' \in Seq(Frames) /\ Len(frames') = Len(frames)
           /\ Len(frames) \in Nat /\ Len(frames) > 0
           /\ \A i \in 1 .. Len(frames) - 1 : frames'[i] = frames[i]
           /\ Top'.at = Top.at /\ Top'.running = TRUE /\ Top'.spec = Top.spec
  <1>1. frames # <<>> /\ FrameInv
    BY DEF CommandInv, FrameInv
  <1>2. Top \in Frames /\ Len(frames) \in Nat /\ Len(frames) > 0 /\ Top = frames[Len(frames)]
    BY <1>1, TopIsFrame
  <1>3. PICK f : f = [Top EXCEPT !.running = TRUE]
    OBVIOUS
  <1>4. f \in Frames
    BY <1>2, <1>3 DEF Frames
  <1>5. frames' = [frames EXCEPT ![Len(frames)] = f]
    <2>1. frames \in Seq(Frames) /\ Len(frames) \in DOMAIN frames
      BY <1>1, <1>2 DEF FrameInv
    <2>2. QED
      BY <1>2, <1>3, <2>1
  <1>6. /\ frames' \in Seq(Frames) /\ Len(frames') = Len(frames) /\ Top' = f
        /\ \A i \in 1 .. Len(frames) - 1 : frames'[i] = frames[i]
    BY <1>1, <1>4, <1>5, TopChanges
  <1>7. f.at = Top.at /\ f.running = TRUE /\ f.spec = Top.spec
    BY <1>2, <1>3 DEF Frames
  <1>8. QED
    BY <1>2, <1>6, <1>7

\* A callback that ends leaves the call it interrupted.
LEMMA ReturnEffect ==
    ASSUME CommandInv, NEW rest, Returns(rest)
    PROVE  /\ frames' \in Seq(Frames) /\ Len(frames') = Len(frames) - 1
           /\ Len(frames) \in Nat /\ Len(frames) > 1
           /\ \A i \in 1 .. Len(frames) - 1 : frames'[i] = frames[i]
           /\ Top' = frames[Len(frames) - 1] /\ Top'.running
           /\ Top.spec = Top'.at /\ Top'.at \in Begun
           /\ child' = [child EXCEPT ![Top'.at] = rest] /\ active' = Top'.at
  <1>1. verdict = "RUNNING" /\ Len(frames) > 1 /\ frames' = Front(frames)
    BY DEF Returns, InList
  <1>2. frames # <<>> /\ FrameInv /\ frames \in Seq(Frames)
    BY <1>1 DEF CommandInv, FrameInv
  <1>3. Len(frames) \in Nat /\ Top = frames[Len(frames)]
    BY <1>2, TopIsFrame
  <1>4. PICK m : m = Len(frames) - 1
    OBVIOUS
  <1>5. m \in Nat /\ m > 0 /\ m \in 1 .. Len(frames) - 1 /\ m + 1 = Len(frames) /\ m \in 1 .. Len(frames)
    BY <1>1, <1>3, <1>4
  <1>6. /\ frames' \in Seq(Frames) /\ Len(frames') = m
        /\ \A i \in 1 .. m : frames'[i] = frames[i]
    <2>1. frames' = SubSeq(frames, 1, m)
      BY <1>1, <1>4 DEF Front
    <2>2. \A i \in 1 .. m : frames[i] \in Frames
      BY <1>2, <1>5, ElementOfSeq
    <2>3. QED
      BY <1>2, <1>3, <1>5, <2>1, <2>2
  <1>7. Top' = frames[m]
    BY <1>5, <1>6 DEF Top
  <1>8. frames[m].running /\ frames[m + 1].spec = frames[m].at
    BY <1>2, <1>4, <1>5 DEF FrameInv
  <1>9. frames[m].at \in Begun
    BY <1>1, <1>5, <1>8 DEF CommandInv, OrderInv, OrderRunning
  <1>10. child' = [child EXCEPT ![Top.spec] = rest] /\ active' = Top.spec
    BY DEF Returns, Remainder, Restored
  <1>11. Top.spec = frames[m].at
    BY <1>3, <1>5, <1>8
  <1>12. QED
    BY <1>1, <1>3, <1>4, <1>6, <1>7, <1>8, <1>9, <1>10, <1>11

\* A callback runs the lines below the command that runs the program.
LEMMA CallEffect ==
    ASSUME CommandInv, CallsBack
    PROVE  /\ frames' \in Seq(Frames) /\ Len(frames') = Len(frames) + 1
           /\ Len(frames) \in Nat /\ Len(frames) > 0
           /\ \A i \in 1 .. Len(frames) : frames'[i] = frames[i]
           /\ Top'.at = child[Top.at] /\ Top'.running = FALSE /\ Top'.spec = Top.at
           /\ active = Top.at /\ Top.running /\ child[Top.at] # Nil
  <1>1. verdict = "RUNNING" /\ Top.running /\ InProgram
    BY DEF CallsBack, InProgram
  <1>2. frames # <<>> /\ FrameInv /\ TreeInv /\ frames \in Seq(Frames) /\ active = Top.at
    BY <1>1 DEF CommandInv, FrameInv
  <1>3. Len(frames) \in Nat /\ Len(frames) > 0 /\ Top = frames[Len(frames)] /\ Top \in Frames
    BY <1>2, TopIsFrame
  <1>4. PICK k \in CallbackIds : frames' = Append(frames, Frame(child[active], k))
    BY DEF CallsBack
  <1>5. PICK f : f = Frame(child[active], k)
    OBVIOUS
  <1>6. Top.at \in Node
    <2>1. Len(frames) \in 1 .. Len(frames)
      BY <1>3
    <2>2. Top.at \in Begun
      BY <1>1, <1>3, <2>1 DEF CommandInv, OrderInv, OrderRunning
    <2>3. QED
      BY <2>2, ElementOfSeq DEF CommandInv, BegunInv, Begun, Range
  <1>7. child[active] \in 0 .. Len(script) /\ active \in 0 .. Len(script) /\ k \in 0 .. 8
    BY <1>2, <1>6, CallbacksAssumption DEF TreeInv, FrameInv
  <1>8. f \in Frames /\ f.at = child[active] /\ f.running = FALSE /\ f.spec = active
    BY <1>5, <1>7 DEF Frame, Frames
  <1>9. /\ frames' \in Seq(Frames) /\ Len(frames') = Len(frames) + 1
        /\ \A i \in 1 .. Len(frames) : frames'[i] = frames[i]
        /\ frames'[Len(frames) + 1] = f
    BY <1>2, <1>3, <1>4, <1>5, <1>8
  <1>10. Top' = f
    BY <1>9 DEF Top
  <1>11. child[Top.at] # Nil
    BY <1>2 DEF CallsBack
  <1>12. QED
    BY <1>1, <1>2, <1>3, <1>8, <1>9, <1>10, <1>11

\* The command whose program runs has begun.
LEMMA RunsBegun ==
    ASSUME CommandInv, InProgram
    PROVE  /\ verdict = "RUNNING" /\ fate = "tree" /\ frames # <<>> /\ Top.running /\ active = Top.at
           /\ Top.at \in Begun /\ Top.at \in Node /\ Latest(Top.at) /\ Enc(Top.at) \subseteq Begun
  <1>1. verdict = "RUNNING" /\ Top.running
    BY DEF InProgram
  <1>2. fate = "tree" /\ frames # <<>> /\ active = Top.at /\ FrameInv
    BY <1>1 DEF CommandInv, TreeInv, FrameInv
  <1>3. Len(frames) \in 1 .. Len(frames) /\ Top = frames[Len(frames)]
    BY <1>2, TopIsFrame
  <1>4. Top.at \in Begun /\ Latest(Top.at)
    BY <1>1, <1>3 DEF CommandInv, OrderInv, OrderRunning
  <1>5. Top.at \in Node /\ Enc(Top.at) \subseteq Begun
    BY <1>4, ElementOfSeq DEF CommandInv, BegunInv, Begun, Range
  <1>6. QED
    BY <1>1, <1>2, <1>4, <1>5
\* The links stay what they are, but for what callbacks have used up.
LEMMA TreeStays ==
    ASSUME CommandInv, ControlStep
    PROVE  TreeInv'
  <1>1. /\ script' = script /\ next' = next /\ fate' = fate /\ Node' = Node
        /\ verdict = "RUNNING" /\ Begun \subseteq Begun'
    BY StepKeeps, BegunAfter
  <1>2. TreeInv
    BY DEF CommandInv
  <1>3. CASE child' = child
    BY <1>1, <1>2, <1>3 DEF TreeInv, FirstBelow
  <1>4. ASSUME NEW rest \in 0 .. Len(script), Returns(rest)
        PROVE  TreeInv'
    <2>1. PICK a : a = Top'.at
      OBVIOUS
    <2>2. child' = [child EXCEPT ![a] = rest] /\ a \in Begun
      BY <1>4, <2>1, ReturnEffect
    <2>3. child' \in [Node -> 0 .. Len(script)]
      BY <1>2, <1>4, <2>2 DEF TreeInv
    <2>4. fate = "tree" => \A n \in Node \ Begun' : child'[n] = FirstBelow(n)
      BY <1>1, <1>2, <2>2 DEF TreeInv
    <2>5. QED
      BY <1>1, <1>2, <2>3, <2>4 DEF TreeInv, FirstBelow
  <1>5. CASE Continues
    <2>1. next[Top.at] \in 0 .. Len(script)
      BY <1>2, <1>5, ReachedIsReady DEF Continues, TreeInv
    <2>2. QED
      BY <1>4, <1>5, <2>1 DEF Continues
  <1>6. CASE Ends
    <2>1. continuation \in 0 .. Len(script)
      BY DEF CommandInv, FrameInv
    <2>2. QED
      BY <1>4, <1>6, <2>1 DEF Ends
  <1>7. ~Continues /\ ~Ends => child' = child
    BY DEF ControlStep, Halts, Completes, Starts, CallsBack, Works, Finishes
  <1>8. QED
    BY <1>3, <1>5, <1>6, <1>7

\* What has completed had begun.
LEMMA BegunStays ==
    ASSUME CommandInv, ControlStep
    PROVE  BegunInv'
  <1>1. /\ begun' \in Seq(Node) /\ Node' = Node /\ Begun \subseteq Begun' /\ Begun' \subseteq Node
        /\ \A i \in 2 .. Len(begun') : begun'[i - 1] < begun'[i]
        /\ \A b \in Begun' : Enc(b) \subseteq Begun'
        /\ script' = script
    BY StepKeeps, BegunAfter
  <1>2. done \in Seq(Node) /\ Range(done) \subseteq Begun
    BY DEF CommandInv, BegunInv
  <1>3. done' \in Seq(Node) /\ Range(done') \subseteq Begun'
    <2>1. CASE done' = done
      BY <1>1, <1>2, <2>1
    <2>2. ASSUME NEW n \in Begun', done' = Append(done, n)
          PROVE  done' \in Seq(Node) /\ Range(done') \subseteq Begun'
      <3>1. n \in Node
        BY <1>1
      <3>2. done' \in Seq(Node) /\ Len(done') = Len(done) + 1
        BY <1>2, <2>2, <3>1
      <3>3. \A i \in 1 .. Len(done') : done'[i] \in Begun'
        <4> SUFFICES ASSUME NEW i \in 1 .. Len(done')
                     PROVE  done'[i] \in Begun'
          OBVIOUS
        <4>1. CASE i = Len(done) + 1
          BY <1>2, <2>2, <4>1
        <4>2. CASE i # Len(done) + 1
          <5>1. i \in 1 .. Len(done) /\ i \in DOMAIN done
            BY <1>2, <3>2, <4>2
          <5>2. done'[i] = done[i]
            BY <1>2, <2>2, <5>1
          <5>3. QED
            BY <1>1, <1>2, <5>1, <5>2 DEF Range
        <4>3. QED
          BY <4>1, <4>2
      <3>4. DOMAIN done' = 1 .. Len(done')
        BY <3>2
      <3>5. QED
        BY <3>2, <3>3, <3>4 DEF Range
    <2>3. ASSUME Completes
          PROVE  Top.at \in Begun' /\ done' = Append(done, Top.at)
      <3>1. begun' # begun
        <4>1. begun' = Append(begun, Top.at) /\ begun \in Seq(Node)
          BY <2>3 DEF Completes, CommandInv, BegunInv
        <4>2. Len(begun') # Len(begun)
          BY <4>1
        <4>3. QED
          BY <4>2
      <3>2. Top.at \in Begun'
        BY <3>1, BegunAfter
      <3>3. QED
        BY <2>3, <3>2 DEF Completes, Complete
    <2>4. ASSUME Finishes
          PROVE  Top.at \in Begun' /\ done' = Append(done, Top.at)
      BY <1>1, <2>4, RunsBegun DEF Finishes, Complete
    <2>5. ~Completes /\ ~Finishes => done' = done
      BY DEF ControlStep, Halts, Starts, CallsBack, Works, Continues, Ends, Returns
    <2>6. QED
      BY <2>1, <2>2, <2>3, <2>4, <2>5
  <1>4. QED
    BY <1>1, <1>3 DEF BegunInv, Enc

\* Every call but the innermost waits for a program.
LEMMA FrameStays ==
    ASSUME CommandInv, ControlStep
    PROVE  FrameInv'
  <1>1. script' = script /\ verdict = "RUNNING" /\ Frames' = Frames
    BY StepKeeps DEF Frames
  <1>2. FrameInv /\ TreeInv
    BY DEF CommandInv
  <1>3. /\ frames \in Seq(Frames) /\ frames # <<>>
        /\ {active, continuation, raised} \subseteq 0 .. Len(script) /\ verdict \in Results /\ raised = Nil
        /\ \A i \in 1 .. Len(frames) - 1 : frames[i].running /\ frames[i + 1].spec = frames[i].at
    BY <1>1, <1>2 DEF FrameInv
  <1>4. Len(frames) \in Nat /\ Len(frames) > 0 /\ Top = frames[Len(frames)]
    BY <1>2, <1>3, TopIsFrame
  <1>5. CASE Halts
    <2>1. /\ frames' = frames /\ verdict' \in Results /\ verdict' # "RUNNING"
          /\ {active', continuation', raised'} \subseteq 0 .. Len(script)
      BY <1>5 DEF Halts
    <2>2. ~InProgram'
      BY <2>1 DEF InProgram
    <2>3. QED
      BY <1>1, <1>3, <2>1, <2>2 DEF FrameInv
  \* The innermost call goes on.
  <1>6. ASSUME frames' \in Seq(Frames), Len(frames') = Len(frames), Top'.spec = Top.spec,
               \A i \in 1 .. Len(frames) - 1 : frames'[i] = frames[i]
        PROVE  /\ frames' # <<>>
               /\ \A i \in 1 .. Len(frames') - 1 : frames'[i].running /\ frames'[i + 1].spec = frames'[i].at
    <2>1. Top' = frames'[Len(frames)]
      BY <1>6 DEF Top
    <2>2. ASSUME NEW i \in 1 .. Len(frames) - 1
          PROVE  frames'[i].running /\ frames'[i + 1].spec = frames'[i].at
      <3>1. frames'[i] = frames[i] /\ frames[i].running /\ frames[i + 1].spec = frames[i].at
        BY <1>3, <1>6, <2>2
      <3>2. frames'[i + 1].spec = frames[i + 1].spec
        <4>1. CASE i + 1 = Len(frames)
          BY <1>4, <1>6, <2>1, <4>1
        <4>2. CASE i + 1 # Len(frames)
          <5>1. i + 1 \in 1 .. Len(frames) - 1
            BY <1>4, <4>2
          <5>2. QED
            BY <1>6, <5>1
        <4>3. QED
          BY <4>1, <4>2
      <3>3. QED
        BY <3>1, <3>2
    <2>3. frames' # <<>>
      BY <1>4, <1>6
    <2>4. QED
      BY <1>6, <2>2, <2>3
  <1>7. CASE Completes \/ Finishes
    <2>1. Top.at \in Node /\ Complete
      BY <1>7, ReachedIsReady, RunsBegun DEF Completes, Finishes
    <2>2. /\ frames' \in Seq(Frames) /\ Len(frames') = Len(frames)
          /\ Top'.running = FALSE /\ Top'.spec = Top.spec
          /\ \A i \in 1 .. Len(frames) - 1 : frames'[i] = frames[i]
      BY <1>1, <2>1, CompleteEffect
    <2>3. active' \in 0 .. Len(script) /\ continuation' = continuation /\ raised' = raised
      BY <1>1, <1>3, <1>7, <2>1, RunningTree, <1>2 DEF Completes, Finishes
    <2>4. verdict' = verdict
      BY <2>1 DEF Complete
    <2>5. ~InProgram'
      BY <2>2 DEF InProgram
    <2>6. QED
      BY <1>1, <1>3, <1>6, <2>2, <2>3, <2>4, <2>5 DEF FrameInv
  <1>8. CASE Starts
    <2>1. /\ frames' \in Seq(Frames) /\ Len(frames') = Len(frames)
          /\ Top'.at = Top.at /\ Top'.spec = Top.spec
          /\ \A i \in 1 .. Len(frames) - 1 : frames'[i] = frames[i]
      BY <1>1, <1>8, StartEffect DEF Starts
    <2>2. Top.at \in Node /\ continuation = Nil
      BY <1>8, ReachedIsReady DEF Starts
    <2>3. active' \in 0 .. Len(script) /\ active' = Top'.at /\ raised' = raised /\ verdict' = verdict
      BY <1>2, <1>8, <2>1, <2>2, RunningTree DEF Starts
    <2>4. continuation' \in 0 .. Len(script)
      BY <1>2, <1>3, <1>8, <2>2 DEF Starts, TreeInv
    <2>5. QED
      BY <1>1, <1>3, <1>6, <2>1, <2>3, <2>4 DEF FrameInv
  <1>9. ASSUME NEW rest \in 0 .. Len(script), Returns(rest)
        PROVE  FrameInv'
    <2>1. /\ frames' \in Seq(Frames) /\ Len(frames') = Len(frames) - 1 /\ Len(frames) > 1
          /\ \A i \in 1 .. Len(frames) - 1 : frames'[i] = frames[i]
          /\ Top'.at \in Begun /\ active' = Top'.at
      BY <1>9, ReturnEffect
    <2>2. active' \in 0 .. Len(script)
      BY <1>2, <2>1, RunningTree, ElementOfSeq DEF CommandInv, BegunInv, Begun, Range
    <2>3. continuation' = rest /\ verdict' = verdict /\ raised' = raised
      BY <1>9 DEF Returns
    <2>4. frames' # <<>>
      BY <1>4, <2>1
    <2>5. ASSUME NEW i \in 1 .. Len(frames') - 1
          PROVE  frames'[i].running /\ frames'[i + 1].spec = frames'[i].at
      <3>1. i \in 1 .. Len(frames) - 1 /\ i + 1 \in 1 .. Len(frames) - 1
        BY <1>4, <2>1
      <3>2. QED
        BY <1>3, <2>1, <3>1
    <2>6. QED
      BY <1>1, <1>3, <1>9, <2>1, <2>2, <2>3, <2>4, <2>5 DEF FrameInv
  <1>10. CASE Continues
    <2>1. next[Top.at] \in 0 .. Len(script)
      BY <1>2, <1>10, ReachedIsReady DEF Continues, TreeInv
    <2>2. QED
      BY <1>9, <1>10, <2>1 DEF Continues
  <1>11. CASE Ends
    BY <1>3, <1>9, <1>11 DEF Ends
  <1>12. CASE CallsBack
    <2>1. /\ frames' \in Seq(Frames) /\ Len(frames') = Len(frames) + 1
          /\ \A i \in 1 .. Len(frames) : frames'[i] = frames[i]
          /\ Top'.running = FALSE /\ Top'.spec = Top.at /\ Top.running
      BY <1>12, CallEffect
    <2>2. active' = active /\ continuation' = Nil /\ raised' = raised /\ verdict' = verdict
      BY <1>12 DEF CallsBack
    <2>3. Nil \in 0 .. Len(script)
      BY <1>2, RunningTree DEF Nil
    <2>4. ~InProgram' /\ frames' # <<>>
      BY <1>4, <2>1 DEF InProgram
    <2>5. Top' = frames'[Len(frames) + 1]
      BY <2>1 DEF Top
    <2>6. ASSUME NEW i \in 1 .. Len(frames') - 1
          PROVE  frames'[i].running /\ frames'[i + 1].spec = frames'[i].at
      <3>1. CASE i = Len(frames)
        <4>1. frames'[i] = Top /\ frames'[i + 1] = Top'
          BY <1>4, <2>1, <2>5, <3>1
        <4>2. QED
          BY <2>1, <4>1
      <3>2. CASE i # Len(frames)
        <4>1. i \in 1 .. Len(frames) - 1 /\ i \in 1 .. Len(frames) /\ i + 1 \in 1 .. Len(frames)
          BY <1>4, <2>1, <3>2
        <4>2. QED
          BY <1>3, <2>1, <4>1
      <3>3. QED
        BY <3>1, <3>2
    <2>7. QED
      BY <1>1, <1>3, <2>1, <2>2, <2>3, <2>4, <2>6 DEF FrameInv
  <1>13. CASE Works
    <2>1. /\ frames' = frames /\ active' = active /\ verdict' = verdict /\ raised' = raised
          /\ continuation' \in {continuation, Nil}
      BY <1>13 DEF Works
    <2>2. Nil \in 0 .. Len(script)
      BY <1>2, RunningTree DEF Nil
    <2>3. InProgram' => active' = Top'.at
      BY <1>2, <2>1 DEF FrameInv, InProgram, Top
    <2>4. QED
      BY <1>1, <1>3, <2>1, <2>2, <2>3 DEF FrameInv
  <1>14. QED
    BY <1>5, <1>7, <1>8, <1>10, <1>11, <1>12, <1>13 DEF ControlStep
\* The order after a step, without primes around its parts.
ReadyThen(q)  == q \in Node /\ (\A b \in Begun' : b < q) /\ Enc(q) \subseteq Begun'
InsideThen(q) == \A i \in 1 .. Len(frames') : frames'[i].running => frames'[i].at \in Enc(q)
LatestThen(n) == \A b \in Begun' : b <= n \/ n \in Enc(b)

\* What those parts come to.
LEMMA OrderThen ==
    ASSUME script' = script,
           ~Top'.running /\ Top'.at # Nil => ReadyThen(Top'.at) /\ InsideThen(Top'.at),
           continuation' # Nil => ReadyThen(continuation') /\ InsideThen(continuation'),
           \A i \in 1 .. Len(frames') :
               frames'[i].running => frames'[i].at \in Begun' /\ LatestThen(frames'[i].at),
           \A i, j \in 1 .. Len(frames') :
               i < j /\ frames'[j].running => frames'[i].at \in Enc(frames'[j].at),
           Top'.running /\ child'[Top'.at] # Nil =>
               ReadyThen(child'[Top'.at]) /\ InsideThen(child'[Top'.at])
    PROVE  OrderInv'
  <1>1. ASSUME NEW q
        PROVE  Ready(q)' <=> ReadyThen(q)
    BY DEF Ready, ReadyThen, Node, Enc
  <1>2. ASSUME NEW q
        PROVE  Inside(q)' <=> InsideThen(q)
    BY DEF Inside, InsideThen, Enc
  <1>3. ASSUME NEW q
        PROVE  Latest(q)' <=> LatestThen(q)
    BY DEF Latest, LatestThen, Enc
  <1>4. OrderTop'
    <2>1. PICK q : q = Top'.at
      OBVIOUS
    <2>2. ~Top'.running /\ q # Nil => Ready(q)' /\ Inside(q)'
      BY <1>1, <1>2, <2>1
    <2>3. QED
      BY <2>1, <2>2 DEF OrderTop, Ready, Inside
  <1>5. OrderAwaited'
    <2>1. PICK q : q = continuation'
      OBVIOUS
    <2>2. q # Nil => Ready(q)' /\ Inside(q)'
      BY <1>1, <1>2, <2>1
    <2>3. QED
      BY <2>1, <2>2 DEF OrderAwaited, Ready, Inside
  <1>6. OrderRunning'
    <2> SUFFICES ASSUME NEW i \in 1 .. Len(frames'), frames'[i].running
                 PROVE  frames'[i].at \in Begun' /\ Latest(frames[i].at)'
      BY DEF OrderRunning
    <2>1. PICK q : q = frames'[i].at
      OBVIOUS
    <2>2. q \in Begun' /\ Latest(q)'
      BY <1>3, <2>1
    <2>3. QED
      BY <2>1, <2>2 DEF Latest
  <1>7. OrderNested'
    BY DEF OrderNested, Enc
  <1>8. OrderBelow'
    <2>1. PICK q : q = child'[Top'.at]
      OBVIOUS
    <2>2. Top'.running /\ q # Nil => Ready(q)' /\ Inside(q)'
      BY <1>1, <1>2, <2>1
    <2>3. QED
      BY <2>1, <2>2 DEF OrderBelow, Ready, Inside
  <1>9. QED
    BY <1>4, <1>5, <1>6, <1>7, <1>8 DEF OrderInv

\* The line after a completed command is ready, and inside of what runs.
LEMMA OrderCompletes ==
    ASSUME CommandInv, Completes, ControlStep
    PROVE  OrderInv'
  <1>1. PICK n : n = Top.at
    OBVIOUS
  <1>2. /\ script' = script /\ verdict = "RUNNING" /\ fate = "tree" /\ TreeInv /\ OrderInv
        /\ ~Top.running /\ n \in Node /\ Ready(n) /\ Inside(n) /\ continuation = Nil
    BY <1>1, ReachedIsReady, StepKeeps DEF Completes, CommandInv
  <1>3. OrderRunning /\ OrderNested
    BY <1>2 DEF OrderInv
  <1>4. begun' # begun
    <2>1. begun' = Append(begun, Top.at) /\ begun \in Seq(Node)
      BY DEF Completes, CommandInv, BegunInv
    <2>2. Len(begun') # Len(begun)
      BY <2>1
    <2>3. QED
      BY <2>2
  <1>5. Begun' = Begun \cup {n} /\ Begun' \subseteq Node
    BY <1>1, <1>4, BegunAfter
  <1>6. /\ Len(frames') = Len(frames) /\ Len(frames) \in Nat /\ Len(frames) > 0
        /\ \A i \in 1 .. Len(frames) - 1 : frames'[i] = frames[i]
        /\ Top'.at = next[n] /\ Top'.running = FALSE
    BY <1>1, <1>2, CompleteEffect DEF Completes
  <1>7. Top' = frames'[Len(frames)]
    BY <1>6 DEF Top
  <1>8. \A i \in 1 .. Len(frames') : frames'[i].running =>
            i \in 1 .. Len(frames) - 1 /\ frames'[i] = frames[i] /\ frames[i].running
    BY <1>6, <1>7
  <1>9. \A i \in 1 .. Len(frames') : frames'[i].running => frames'[i].at \in Enc(n)
    BY <1>2, <1>6, <1>8 DEF Inside
  <1>10. Top'.at # Nil => ReadyThen(Top'.at) /\ InsideThen(Top'.at)
    <2>1. SUFFICES ASSUME NEW q, q = next[n], q # Nil
                   PROVE  ReadyThen(q) /\ InsideThen(q)
      BY <1>6
    <2>2. Enc(n) \subseteq Begun'
      BY <1>2, <1>5 DEF Ready
    <2>3. \A b \in Begun' : b <= n \/ n \in Enc(b)
      BY <1>2, <1>5, RunningTree DEF Ready
    <2>4. q \in Node /\ (\A b \in Begun' : b < q) /\ Enc(q) = Enc(n) /\ Enc(q) \subseteq Begun'
      BY <1>2, <1>5, <2>1, <2>2, <2>3, ReadyNext
    <2>5. QED
      BY <1>9, <2>4 DEF ReadyThen, InsideThen
  <1>11. continuation' = Nil
    BY <1>2 DEF Completes
  <1>12. ASSUME NEW i \in 1 .. Len(frames'), frames'[i].running
         PROVE  frames'[i].at \in Begun' /\ LatestThen(frames'[i].at)
    <2>1. i \in 1 .. Len(frames) /\ frames'[i] = frames[i] /\ frames[i].running
      BY <1>6, <1>8, <1>12
    <2>2. frames[i].at \in Begun /\ Latest(frames[i].at)
      BY <1>3, <2>1 DEF OrderRunning
    <2>3. frames'[i].at \in Enc(n)
      BY <1>9, <1>12
    <2>4. QED
      BY <1>5, <2>1, <2>2, <2>3 DEF Latest, LatestThen
  <1>13. ASSUME NEW i \in 1 .. Len(frames'), NEW j \in 1 .. Len(frames'), i < j, frames'[j].running
         PROVE  frames'[i].at \in Enc(frames'[j].at)
    <2>1. j \in 1 .. Len(frames) - 1 /\ frames'[j] = frames[j]
      BY <1>8, <1>13
    <2>2. i \in 1 .. Len(frames) - 1 /\ i \in 1 .. Len(frames) /\ j \in 1 .. Len(frames) /\ frames'[i] = frames[i]
      BY <1>6, <1>13, <2>1
    <2>3. QED
      BY <1>3, <1>13, <2>1, <2>2 DEF OrderNested
  <1>14. QED
    BY <1>2, <1>6, <1>10, <1>11, <1>12, <1>13, OrderThen

\* The command that runs a program has just begun: what is below it may begin.
LEMMA OrderStarts ==
    ASSUME CommandInv, Starts, ControlStep
    PROVE  OrderInv'
  <1>1. PICK n : n = Top.at
    OBVIOUS
  <1>2. /\ script' = script /\ verdict = "RUNNING" /\ fate = "tree" /\ TreeInv /\ OrderInv
        /\ ~Top.running /\ n \in Node /\ Ready(n) /\ Inside(n) /\ continuation = Nil
        /\ child[n] = FirstBelow(n) /\ child' = child
    BY <1>1, ReachedIsReady, StepKeeps DEF Starts, CommandInv
  <1>3. OrderRunning /\ OrderNested
    BY <1>2 DEF OrderInv
  <1>4. begun' # begun
    <2>1. begun' = Append(begun, Top.at) /\ begun \in Seq(Node)
      BY DEF Starts, CommandInv, BegunInv
    <2>2. Len(begun') # Len(begun)
      BY <2>1
    <2>3. QED
      BY <2>2
  <1>5. Begun' = Begun \cup {n} /\ Begun' \subseteq Node
    BY <1>1, <1>4, BegunAfter
  <1>6. /\ Len(frames') = Len(frames) /\ Len(frames) \in Nat /\ Len(frames) > 0
        /\ \A i \in 1 .. Len(frames) - 1 : frames'[i] = frames[i]
        /\ Top'.at = n /\ Top'.running
    BY <1>1, <1>2, StartEffect DEF Starts
  <1>7. Top' = frames'[Len(frames)]
    BY <1>6 DEF Top
  <1>8. \A i \in 1 .. Len(frames') : \/ i = Len(frames) /\ frames'[i] = Top'
                                     \/ i \in 1 .. Len(frames) - 1 /\ i \in 1 .. Len(frames) /\ frames'[i] = frames[i]
    BY <1>6, <1>7
  <1>9. \A b \in Begun' : b <= n
    BY <1>2, <1>5, RunningTree DEF Ready
  <1>10. ASSUME NEW c, c = FirstBelow(n), c # Nil
         PROVE  ReadyThen(c) /\ InsideThen(c)
    <2>1. n \in Begun' /\ Enc(n) \subseteq Begun'
      BY <1>2, <1>5 DEF Ready
    <2>2. c \in Node /\ (\A b \in Begun' : b < c) /\ Enc(c) = Enc(n) \cup {n} /\ Enc(c) \subseteq Begun'
      BY <1>2, <1>5, <1>9, <1>10, <2>1, ReadyBelow
    <2>3. ASSUME NEW i \in 1 .. Len(frames'), frames'[i].running
          PROVE  frames'[i].at \in Enc(c)
      <3>1. CASE frames'[i] = Top'
        BY <1>6, <2>2, <3>1
      <3>2. CASE i \in 1 .. Len(frames) /\ frames'[i] = frames[i]
        BY <1>2, <2>2, <2>3, <3>2 DEF Inside
      <3>3. QED
        BY <1>8, <3>1, <3>2
    <2>4. QED
      BY <2>2, <2>3 DEF ReadyThen, InsideThen
  <1>11. continuation' \in {Nil, FirstBelow(n)}
    BY <1>1, <1>2 DEF Starts
  <1>12. ASSUME NEW i \in 1 .. Len(frames'), frames'[i].running
         PROVE  frames'[i].at \in Begun' /\ LatestThen(frames'[i].at)
    <2>1. CASE frames'[i] = Top'
      BY <1>5, <1>6, <1>9, <2>1 DEF LatestThen
    <2>2. CASE i \in 1 .. Len(frames) /\ frames'[i] = frames[i]
      <3>1. frames[i].at \in Begun /\ Latest(frames[i].at) /\ frames[i].at \in Enc(n)
        BY <1>2, <1>3, <1>12, <2>2 DEF OrderRunning, Inside
      <3>2. QED
        BY <1>5, <2>2, <3>1 DEF Latest, LatestThen
    <2>3. QED
      BY <1>8, <2>1, <2>2
  <1>13. ASSUME NEW i \in 1 .. Len(frames'), NEW j \in 1 .. Len(frames'), i < j, frames'[j].running
         PROVE  frames'[i].at \in Enc(frames'[j].at)
    <2>1. i \in 1 .. Len(frames) - 1 /\ i \in 1 .. Len(frames) /\ frames'[i] = frames[i]
      BY <1>6, <1>13
    <2>2. CASE j = Len(frames)
      <3>1. frames[i].running
        BY <2>1 DEF CommandInv, FrameInv
      <3>2. frames[i].at \in Enc(n)
        BY <1>2, <2>1, <3>1 DEF Inside
      <3>3. QED
        BY <1>6, <1>7, <2>1, <2>2, <3>2
    <2>3. CASE j # Len(frames)
      <3>1. j \in 1 .. Len(frames) - 1 /\ j \in 1 .. Len(frames) /\ frames'[j] = frames[j]
        BY <1>6, <2>3
      <3>2. QED
        BY <1>3, <1>13, <2>1, <3>1 DEF OrderNested
    <2>4. QED
      BY <2>2, <2>3
  <1>14. Top'.running /\ child'[Top'.at] = FirstBelow(n)
    BY <1>2, <1>6
  <1>15. QED
    BY <1>2, <1>10, <1>11, <1>12, <1>13, <1>14, OrderThen
\* A callback that ends leaves the rest of its lines below the command it interrupted.
LEMMA OrderReturns ==
    ASSUME CommandInv, ControlStep, NEW rest, Returns(rest),
           rest # Nil => ReadyThen(rest) /\ InsideThen(rest),
           \A i \in 1 .. Len(frames) - 1 : LatestThen(frames[i].at)
    PROVE  OrderInv'
  <1>1. /\ script' = script /\ verdict = "RUNNING" /\ Begun \subseteq Begun' /\ Begun' \subseteq Node
        /\ OrderRunning /\ OrderNested /\ FrameInv /\ TreeInv
    BY StepKeeps, BegunAfter DEF Returns, CommandInv, OrderInv
  <1>2. /\ Len(frames') = Len(frames) - 1 /\ Len(frames) \in Nat /\ Len(frames) > 1
        /\ \A i \in 1 .. Len(frames) - 1 : frames'[i] = frames[i]
        /\ Top' = frames[Len(frames) - 1] /\ Top'.running /\ Top'.at \in Begun
        /\ child' = [child EXCEPT ![Top'.at] = rest]
    BY ReturnEffect
  <1>3. \A i \in 1 .. Len(frames') : i \in 1 .. Len(frames) - 1 /\ i \in 1 .. Len(frames) /\ frames'[i] = frames[i]
    BY <1>2
  <1>4. continuation' = rest
    BY DEF Returns
  <1>5. child'[Top'.at] = rest
    <2>1. PICK a : a = Top'.at
      OBVIOUS
    <2>2. a \in Node /\ child \in [Node -> 0 .. Len(script)]
      BY <1>1, <1>2, <2>1 DEF TreeInv
    <2>3. child'[a] = rest
      BY <1>2, <2>1, <2>2
    <2>4. QED
      BY <2>1, <2>3
  <1>6. \A i \in 1 .. Len(frames') :
            frames'[i].running => frames'[i].at \in Begun' /\ LatestThen(frames'[i].at)
    BY <1>1, <1>3 DEF OrderRunning
  <1>7. \A i, j \in 1 .. Len(frames') :
            i < j /\ frames'[j].running => frames'[i].at \in Enc(frames'[j].at)
    BY <1>1, <1>3 DEF OrderNested
  <1>8. QED
    BY <1>1, <1>2, <1>4, <1>5, <1>6, <1>7, OrderThen

\* A CONTINUE in a callback leaves the line after it to the next callback.
LEMMA OrderContinues ==
    ASSUME CommandInv, Continues, ControlStep
    PROVE  OrderInv'
  <1>1. PICK n : n = Top.at
    OBVIOUS
  <1>2. /\ verdict = "RUNNING" /\ fate = "tree" /\ TreeInv
        /\ n \in Node /\ Ready(n) /\ Inside(n) /\ Returns(next[n])
        /\ OrderRunning
    BY <1>1, ReachedIsReady DEF Continues, CommandInv, OrderInv
  <1>3. begun' # begun
    <2>1. begun' = Append(begun, Top.at) /\ begun \in Seq(Node)
      BY DEF Continues, CommandInv, BegunInv
    <2>2. Len(begun') # Len(begun)
      BY <2>1
    <2>3. QED
      BY <2>2
  <1>4. Begun' = Begun \cup {n} /\ Begun' \subseteq Node
    BY <1>1, <1>3, BegunAfter
  <1>5. /\ Len(frames') = Len(frames) - 1 /\ Len(frames) \in Nat
        /\ \A i \in 1 .. Len(frames) - 1 : frames'[i] = frames[i]
    BY <1>2, ReturnEffect
  <1>6. ASSUME NEW i \in 1 .. Len(frames) - 1
        PROVE  frames[i].running /\ frames[i].at \in Enc(n) /\ LatestThen(frames[i].at)
    <2>1. i \in 1 .. Len(frames) /\ frames[i].running
      BY <1>5 DEF CommandInv, FrameInv
    <2>2. frames[i].at \in Enc(n) /\ Latest(frames[i].at)
      BY <1>2, <2>1 DEF Inside, OrderRunning
    <2>3. QED
      BY <1>4, <2>1, <2>2 DEF Latest, LatestThen
  <1>7. ASSUME NEW q, q = next[n], q # Nil
        PROVE  ReadyThen(q) /\ InsideThen(q)
    <2>1. Enc(n) \subseteq Begun'
      BY <1>2, <1>4 DEF Ready
    <2>2. \A b \in Begun' : b <= n \/ n \in Enc(b)
      BY <1>2, <1>4, RunningTree DEF Ready
    <2>3. q \in Node /\ (\A b \in Begun' : b < q) /\ Enc(q) = Enc(n) /\ Enc(q) \subseteq Begun'
      BY <1>2, <1>4, <1>7, <2>1, <2>2, ReadyNext
    <2>4. \A i \in 1 .. Len(frames') : i \in 1 .. Len(frames) - 1 /\ frames'[i] = frames[i]
      BY <1>5
    <2>5. QED
      BY <1>6, <2>3, <2>4 DEF ReadyThen, InsideThen
  <1>8. next[n] # Nil => ReadyThen(next[n]) /\ InsideThen(next[n])
    BY <1>7
  <1>9. QED
    BY <1>2, <1>6, <1>8, OrderReturns

\* So does a callback at the end of its list.
LEMMA OrderEnds ==
    ASSUME CommandInv, Ends, ControlStep
    PROVE  OrderInv'
  <1>1. /\ verdict = "RUNNING" /\ Returns(continuation) /\ OrderAwaited /\ OrderRunning
    BY StepKeeps DEF Ends, CommandInv, OrderInv
  <1>2. Begun' = Begun
    BY DEF Ends, Begun
  <1>3. /\ Len(frames') = Len(frames) - 1 /\ Len(frames) \in Nat
        /\ \A i \in 1 .. Len(frames) - 1 : frames'[i] = frames[i]
    BY <1>1, ReturnEffect
  <1>4. \A i \in 1 .. Len(frames') : i \in 1 .. Len(frames) /\ frames'[i] = frames[i]
    BY <1>3
  <1>5. continuation # Nil => ReadyThen(continuation) /\ InsideThen(continuation)
    BY <1>1, <1>2, <1>4 DEF OrderAwaited, Ready, Inside, ReadyThen, InsideThen
  <1>6. ASSUME NEW i \in 1 .. Len(frames) - 1
        PROVE  LatestThen(frames[i].at)
    <2>1. i \in 1 .. Len(frames) /\ frames[i].running
      BY <1>3 DEF CommandInv, FrameInv
    <2>2. QED
      BY <1>1, <1>2, <2>1 DEF OrderRunning, Latest, LatestThen
  <1>7. QED
    BY <1>1, <1>5, <1>6, OrderReturns

\* A callback begins with the first line below the command that runs the program.
LEMMA OrderCallsBack ==
    ASSUME CommandInv, CallsBack, ControlStep
    PROVE  OrderInv'
  <1>1. PICK n : n = Top.at
    OBVIOUS
  <1>2. /\ script' = script /\ verdict = "RUNNING" /\ OrderRunning /\ OrderNested /\ OrderBelow
    BY StepKeeps DEF CommandInv, OrderInv
  <1>3. Begun' = Begun /\ continuation' = Nil
    BY DEF CallsBack, Begun
  <1>4. /\ Len(frames') = Len(frames) + 1 /\ Len(frames) \in Nat
        /\ \A i \in 1 .. Len(frames) : frames'[i] = frames[i]
        /\ Top'.at = child[n] /\ Top'.running = FALSE /\ Top.running /\ child[n] # Nil
    BY <1>1, CallEffect
  <1>5. Ready(child[n]) /\ Inside(child[n])
    BY <1>1, <1>2, <1>4 DEF OrderBelow
  <1>6. Top' = frames'[Len(frames) + 1]
    BY <1>4 DEF Top
  <1>7. \A i \in 1 .. Len(frames') : frames'[i].running =>
            i \in 1 .. Len(frames) /\ frames'[i] = frames[i] /\ frames[i].running
    BY <1>4, <1>6
  <1>8. ReadyThen(Top'.at) /\ InsideThen(Top'.at)
    BY <1>3, <1>4, <1>5, <1>7 DEF Ready, Inside, ReadyThen, InsideThen
  <1>9. \A i \in 1 .. Len(frames') :
            frames'[i].running => frames'[i].at \in Begun' /\ LatestThen(frames'[i].at)
    BY <1>2, <1>3, <1>7 DEF OrderRunning, Latest, LatestThen
  <1>10. ASSUME NEW i \in 1 .. Len(frames'), NEW j \in 1 .. Len(frames'), i < j, frames'[j].running
         PROVE  frames'[i].at \in Enc(frames'[j].at)
    <2>1. j \in 1 .. Len(frames) /\ frames'[j] = frames[j]
      BY <1>7, <1>10
    <2>2. i \in 1 .. Len(frames) /\ frames'[i] = frames[i]
      BY <1>4, <1>10, <2>1
    <2>3. QED
      BY <1>2, <1>10, <2>1, <2>2 DEF OrderNested
  <1>11. QED
    BY <1>2, <1>3, <1>4, <1>8, <1>9, <1>10, OrderThen

\* An instruction of a program leaves the order alone.
LEMMA OrderWorks ==
    ASSUME CommandInv, Works, ControlStep
    PROVE  OrderInv'
  <1>1. script' = script /\ verdict = "RUNNING" /\ OrderInv
    BY StepKeeps DEF CommandInv
  <1>2. Begun' = Begun /\ frames' = frames /\ child' = child /\ continuation' \in {continuation, Nil}
    BY DEF Works, Begun
  <1>3. OrderTop' /\ OrderRunning' /\ OrderNested' /\ OrderBelow'
    BY <1>1, <1>2 DEF OrderInv, OrderTop, OrderRunning, OrderNested, OrderBelow, Ready, Inside,
                      Latest, Enc, Node, Top
  <1>4. OrderAwaited'
    BY <1>1, <1>2 DEF OrderInv, OrderAwaited, Ready, Inside, Enc, Node
  <1>5. QED
    BY <1>3, <1>4 DEF OrderInv

\* When the program has finished, everything that began is before the next line.
LEMMA OrderFinishes ==
    ASSUME CommandInv, Finishes, ControlStep
    PROVE  OrderInv'
  <1>1. PICK n : n = Top.at
    OBVIOUS
  <1>2. /\ script' = script /\ verdict = "RUNNING" /\ fate = "tree" /\ TreeInv
        /\ OrderRunning /\ OrderNested /\ OrderAwaited
        /\ n \in Node /\ Latest(n) /\ Enc(n) \subseteq Begun /\ Begun \subseteq Node
        /\ frames # <<>> /\ Top.running
    BY <1>1, RunsBegun, StepKeeps, BegunAfter DEF Finishes, CommandInv, OrderInv
  <1>3. Begun' = Begun /\ continuation' = continuation
    BY DEF Finishes, Begun
  <1>4. /\ Len(frames') = Len(frames) /\ Len(frames) \in Nat /\ Len(frames) > 0
        /\ \A i \in 1 .. Len(frames) - 1 : frames'[i] = frames[i]
        /\ Top'.at = next[n] /\ Top'.running = FALSE
    BY <1>1, <1>2, CompleteEffect DEF Finishes
  <1>5. Top' = frames'[Len(frames)] /\ Top = frames[Len(frames)]
    BY <1>4 DEF Top
  <1>6. \A i \in 1 .. Len(frames') : frames'[i].running =>
            /\ i \in 1 .. Len(frames) - 1 /\ i \in 1 .. Len(frames)
            /\ frames'[i] = frames[i] /\ frames[i].running
    BY <1>4, <1>5
  <1>7. \A i \in 1 .. Len(frames') : frames'[i].running => frames'[i].at \in Enc(n)
    <2> SUFFICES ASSUME NEW i \in 1 .. Len(frames'), frames'[i].running
                 PROVE  frames'[i].at \in Enc(n)
      OBVIOUS
    <2>1. i \in 1 .. Len(frames) /\ i < Len(frames) /\ Len(frames) \in 1 .. Len(frames) /\ frames'[i] = frames[i]
      BY <1>4, <1>6
    <2>2. QED
      BY <1>1, <1>2, <1>5, <2>1 DEF OrderNested
  <1>8. Top'.at # Nil => ReadyThen(Top'.at) /\ InsideThen(Top'.at)
    <2>1. SUFFICES ASSUME NEW q, q = next[n], q # Nil
                   PROVE  ReadyThen(q) /\ InsideThen(q)
      BY <1>4
    <2>2. q \in Node /\ (\A b \in Begun : b < q) /\ Enc(q) = Enc(n) /\ Enc(q) \subseteq Begun
      BY <1>2, <2>1, ReadyNext DEF Latest
    <2>3. QED
      BY <1>3, <1>7, <2>2 DEF ReadyThen, InsideThen
  <1>9. continuation' # Nil => ReadyThen(continuation') /\ InsideThen(continuation')
    BY <1>2, <1>3, <1>6 DEF OrderAwaited, Ready, Inside, ReadyThen, InsideThen
  <1>10. \A i \in 1 .. Len(frames') :
            frames'[i].running => frames'[i].at \in Begun' /\ LatestThen(frames'[i].at)
    BY <1>2, <1>3, <1>6 DEF OrderRunning, Latest, LatestThen
  <1>11. ASSUME NEW i \in 1 .. Len(frames'), NEW j \in 1 .. Len(frames'), i < j, frames'[j].running
         PROVE  frames'[i].at \in Enc(frames'[j].at)
    <2>1. j \in 1 .. Len(frames) - 1 /\ j \in 1 .. Len(frames) /\ frames'[j] = frames[j]
      BY <1>6, <1>11
    <2>2. i \in 1 .. Len(frames) - 1 /\ i \in 1 .. Len(frames) /\ frames'[i] = frames[i]
      BY <1>4, <1>11, <2>1
    <2>3. QED
      BY <1>2, <1>11, <2>1, <2>2 DEF OrderNested
  <1>12. QED
    BY <1>2, <1>4, <1>8, <1>9, <1>10, <1>11, OrderThen

\* Every step keeps the order.
LEMMA OrderStays ==
    ASSUME CommandInv, ControlStep
    PROVE  OrderInv'
  <1>1. CASE Halts
    BY <1>1 DEF Halts, OrderInv
  <1>2. QED
    BY <1>1, OrderCompletes, OrderStarts, OrderContinues, OrderEnds, OrderCallsBack, OrderWorks,
       OrderFinishes DEF ControlStep
-----------------------------------------------------------------------------
(* Errors, and the lines below an EXEC.                                     *)

\* Nothing that is reached but an ERROR line follows a command before an ERROR line.
LEMMA NoErrorBefore ==
    ASSUME ErrorInv, verdict = "RUNNING",
           Top.at = Nil \/ Top.running \/ Word(Top.at) # "ERROR"
    PROVE  \A d \in Range(done) : ~ErrorFollows(d)
  BY DEF ErrorInv, ErrorFollows

\* What has completed after a command has.
LEMMA DoneGrows ==
    ASSUME BegunInv, NEW n, done' = Append(done, n)
    PROVE  Range(done') = Range(done) \cup {n}
  <1>1. done \in Seq(Node)
    BY DEF BegunInv
  <1>2. DOMAIN done = 1 .. Len(done) /\ Len(done) \in Nat
    BY <1>1
  <1>3. DOMAIN done' = 1 .. Len(done) + 1
    BY <1>1
  <1>4. done'[Len(done) + 1] = n /\ \A i \in 1 .. Len(done) : done'[i] = done[i]
    BY <1>1
  <1>5. \A i : i \in 1 .. Len(done) + 1 <=> i \in 1 .. Len(done) \/ i = Len(done) + 1
    BY <1>2
  <1>6. QED
    BY <1>2, <1>3, <1>4, <1>5 DEF Range

\* Every step keeps what a pass says of errors.
LEMMA ErrorStays ==
    ASSUME CommandInv, ErrorInv, ControlStep
    PROVE  ErrorInv'
  <1>1. script' = script /\ next' = next /\ verdict = "RUNNING"
    BY StepKeeps
  <1>2. \A d : ErrorFollows(d)' <=> ErrorFollows(d)
    BY <1>1 DEF ErrorFollows, Word
  <1>3. CASE Halts
    <2>1. Range(done') = Range(done) /\ verdict' # "RUNNING"
      BY <1>3 DEF Halts
    <2>2. ASSUME verdict' = "PASS"
          PROVE  /\ raised' # Nil => ErrorFollows(raised')
                 /\ \A d \in Range(done) : ~ErrorFollows(d)
      BY <1>1, <1>3, <2>2, NoErrorBefore DEF Halts
    <2>3. ErrorFollows(raised)' <=> ErrorFollows(raised')
      BY <1>1 DEF ErrorFollows, Word
    <2>4. QED
      BY <1>2, <2>1, <2>2, <2>3 DEF ErrorInv
  <1>4. CASE Completes \/ Finishes
    <2>1. PICK n : n = Top.at
      OBVIOUS
    <2>2. Top.at \in Node /\ Complete
      BY <1>4, ReachedIsReady, RunsBegun DEF Completes, Finishes
    <2>3. Top'.at = next[n] /\ ~Top'.running
      BY <1>1, <2>1, <2>2, CompleteEffect
    <2>4. Range(done') = Range(done) \cup {n} /\ verdict' = verdict
      BY <2>1, <2>2, DoneGrows DEF Complete, CommandInv
    <2>5. Top.running \/ Word(Top.at) # "ERROR"
      BY <1>4 DEF Completes, Finishes, InProgram
    <2>6. \A d \in Range(done) : ~ErrorFollows(d)
      BY <1>1, <2>5, NoErrorBefore
    <2>7. verdict' # "PASS"
      BY <1>1, <2>4
    <2>8. \A d \in Range(done') : ErrorFollows(d) => ~Top'.running /\ Top'.at = next'[d]
      BY <1>1, <2>3, <2>4, <2>6
    <2>9. QED
      BY <1>2, <2>7, <2>8 DEF ErrorInv
  <1>5. CASE Starts \/ Continues \/ Ends \/ CallsBack \/ Works
    <2>1. done' = done /\ verdict' = verdict
      BY <1>5 DEF Starts, Continues, Ends, CallsBack, Works, Returns
    <2>2. Top.at = Nil \/ Top.running \/ Word(Top.at) # "ERROR"
      BY <1>5 DEF Starts, Continues, Ends, CallsBack, Works, InProgram
    <2>3. \A d \in Range(done) : ~ErrorFollows(d)
      BY <1>1, <2>2, NoErrorBefore
    <2>4. QED
      BY <1>1, <1>2, <2>1, <2>3 DEF ErrorInv
  <1>6. QED
    BY <1>3, <1>4, <1>5 DEF ControlStep

\* The lines of a script that runs all continue a level or are below the line before.
LEMMA TreeAttached ==
    ASSUME TreeInv, fate = "tree", NEW v \in Node
    PROVE  v = 1 \/ Attached(script, v)
  <1>1. Document(script) /\ Node = 1 .. Len(script) /\ Len(script) \in Nat
    BY RunningTree
  <1>2. WellIndented(script)
    BY DEF TreeInv
  <1>3. CASE v # 1
    <2>1. v \in 2 .. Len(script)
      BY <1>1, <1>3
    <2>2. \/ script[v].ind > script[v - 1].ind
          \/ \E m \in 1 .. v - 1 : SiblingOf(script, m, v)
      BY <1>2, <2>1 DEF WellIndented
    <2>3. ASSUME NEW m \in 1 .. v - 1, SiblingOf(script, m, v)
          PROVE  Peers(script, m, v)
      <3>1. m \in 1 .. Len(script) /\ v \in 1 .. Len(script)
        BY <1>1, <2>1
      <3>2. QED
        BY <1>1, <2>3, <3>1, PeersAreSiblings
    <2>4. QED
      BY <2>2, <2>3 DEF Attached, Deepens
  <1>4. QED
    BY <1>3

\* The lines directly below a line, as children.
LEMMA SubordinateLines ==
    ASSUME NEW e
    PROVE  /\ Subordinate(e) = Children(script, e) /\ Subordinate(e) \subseteq Node
           /\ \A m \in Subordinate(e) : e \in Enc(m) /\ \A k \in Enc(m) : k <= e
  BY DEF Subordinate, Children, Node, Enc

\* What is left below a command after a step, and where it waits.
LeftThen(e) == Subordinate(e) \ Begun'

WaitsThen(u) ==
    \/ Top'.running /\ child'[Top'.at] = u /\ continuation' = u
    \/ ~Top'.running /\ (Top'.at = u \/ continuation' = u)
    \/ \E j \in 1 .. Len(frames') : frames'[j].running /\ next[frames'[j].at] = u

FirstLeft(e, u) == u \in LeftThen(e) /\ \A v \in LeftThen(e) : u <= v

\* What is missed after a step, without primes around its parts.
LEMMA MissingThen ==
    ASSUME script' = script, next' = next,
           \A e \in Begun' :
               Word(e) = "EXEC" /\ LeftThen(e) # {} =>
                   LatestThen(e) /\ (verdict' = "RUNNING" => \E u : FirstLeft(e, u) /\ WaitsThen(u))
    PROVE  MissingInv'
  <1>1. \A e : Left(e)' = LeftThen(e)
    BY DEF Left, LeftThen, Subordinate, Node
  <1>2. \A e : Latest(e)' <=> LatestThen(e)
    BY DEF Latest, LatestThen, Enc
  <1>3. \A u : Waits(u)' <=> WaitsThen(u)
    BY DEF Waits, WaitsThen
  <1>4. \A e : Word(e)' = Word(e)
    BY DEF Word
  <1>5. QED
    BY <1>1, <1>2, <1>3, <1>4 DEF MissingInv, FirstLeft

\* The command that begins may be below an EXEC that is not done: it is the first of the
\* lines left below it, or inside of a program that one of them runs.
LEMMA MissingBegins ==
    ASSUME CommandInv, MissingInv, AtCommand, NEW n, n = Top.at, Begun' = Begun \cup {n},
           NEW e \in Begun, Word(e) = "EXEC", LeftThen(e) # {}
    PROVE  /\ LatestThen(e)
           /\ \E u : /\ FirstLeft(e, u)
                     /\ \/ next[n] = u
                        \/ \E j \in 1 .. Len(frames) - 1 :
                               frames[j].running /\ next[frames[j].at] = u
  <1>1. /\ verdict = "RUNNING" /\ fate = "tree" /\ frames # <<>> /\ ~Top.running /\ TreeInv /\ FrameInv
        /\ n \in Node /\ Ready(n) /\ Inside(n) /\ continuation = Nil /\ OrderRunning
    BY ReachedIsReady DEF CommandInv, OrderInv
  <1>2. Document(script) /\ Node = 1 .. Len(script) /\ Len(script) \in Nat
    BY <1>1, RunningTree
  <1>3. Begun \subseteq Node /\ e \in Node
    BY ElementOfSeq DEF CommandInv, BegunInv, Begun, Range
  <1>4. Subordinate(e) = Children(script, e) /\ Subordinate(e) \subseteq Node
    BY SubordinateLines
  <1>5. LeftThen(e) \subseteq Left(e) /\ Left(e) # {}
    BY DEF Left, LeftThen
  <1>6. Latest(e) /\ \E u \in Left(e) : (\A v \in Left(e) : u <= v) /\ Waits(u)
    BY <1>1, <1>5 DEF MissingInv
  <1>7. PICK u \in Left(e) : (\A v \in Left(e) : u <= v) /\ Waits(u)
    BY <1>6
  <1>8. u \in Node /\ u # Nil /\ u \in Subordinate(e) /\ e \in Enc(u)
    BY <1>2, <1>4, <1>7, SubordinateLines DEF Left, Nil
  <1>9. Len(frames) \in Nat /\ Len(frames) > 0 /\ Top = frames[Len(frames)]
    BY <1>1, TopIsFrame
  <1>10. n = u \/ \E j \in 1 .. Len(frames) - 1 : frames[j].running /\ next[frames[j].at] = u
    <2>1. ASSUME NEW j \in 1 .. Len(frames), frames[j].running
          PROVE  j \in 1 .. Len(frames) - 1
      <3>1. j # Len(frames)
        BY <1>1, <1>9, <2>1
      <3>2. QED
        BY <1>9, <3>1
    <2>2. QED
      BY <1>1, <1>7, <1>8, <2>1 DEF Waits
  <1>11. CASE n = u
    <2>1. LatestThen(e)
      BY <1>6, <1>8, <1>11 DEF Latest, LatestThen
    <2>2. LeftThen(e) \in SUBSET Nat
      BY <1>2, <1>4 DEF LeftThen
    <2>3. PICK w \in LeftThen(e) : \A v \in LeftThen(e) : w <= v
      BY <2>2, LeastNumber
    <2>4. w \in Left(e) /\ w # u /\ w \in Node /\ w \in Subordinate(e)
      BY <1>4, <1>5, <1>11, <2>3 DEF LeftThen
    <2>5. u < w
      <3>1. u <= w
        BY <1>7, <2>4
      <3>2. QED
        BY <1>2, <1>8, <2>4, <3>1
    <2>6. ASSUME NEW m \in Children(script, e)
          PROVE  m <= u \/ w <= m
      <3>1. m \in Node
        BY <1>4
      <3>2. CASE u < m
        <4>1. m \notin Begun
          <5>1. m \in Begun => m < u
            BY <1>1, <1>11 DEF Ready
          <5>2. QED
            BY <1>2, <1>8, <3>1, <3>2, <5>1
        <4>2. m # n
          BY <1>2, <1>8, <1>11, <3>1, <3>2
        <4>3. m \in LeftThen(e)
          BY <1>4, <4>1, <4>2 DEF LeftThen
        <4>4. QED
          BY <2>3, <4>3
      <3>3. QED
        BY <1>2, <1>8, <3>1, <3>2
    <2>7. w = 1 \/ Attached(script, w)
      BY <1>1, <2>4, TreeAttached
    <2>8. e \in 1 .. Len(script) /\ u \in Children(script, e) /\ w \in Children(script, e)
      BY <1>2, <1>3, <1>4, <1>8, <2>4
    <2>9. Peers(script, u, w)
      BY <1>2, <2>5, <2>6, <2>7, <2>8, NextChild
    <2>10. next[n] = w
      BY <1>1, <1>8, <1>11, <2>4, <2>9, RunningTree
    <2>11. QED
      BY <2>1, <2>3, <2>10 DEF FirstLeft
  <1>12. ASSUME NEW j \in 1 .. Len(frames) - 1, frames[j].running, next[frames[j].at] = u
         PROVE  /\ LatestThen(e) /\ FirstLeft(e, u)
    <2>1. PICK p : p = frames[j].at
      OBVIOUS
    <2>2. j \in 1 .. Len(frames)
      BY <1>9
    <2>3. p \in Enc(n) /\ p \in Begun
      BY <1>1, <1>12, <2>1, <2>2 DEF Inside, OrderRunning
    <2>4. Enc(p) = Enc(u)
      BY <1>1, <1>3, <1>8, <1>12, <2>1, <2>3, RunningTree
    <2>5. e \in Enc(p)
      BY <1>8, <2>4
    <2>6. e \in Enc(n)
      <3>1. n \in 1 .. Len(script) /\ p \in Enclosing(script, n) /\ e \in Enclosing(script, p)
        BY <1>1, <1>2, <2>3, <2>5 DEF Enc
      <3>2. e \in Enclosing(script, n)
        BY <1>2, <3>1, EnclosingThrough
      <3>3. QED
        BY <3>2 DEF Enc
    <2>7. LatestThen(e)
      BY <1>6, <2>6 DEF Latest, LatestThen
    <2>8. n \notin Subordinate(e)
      <3>1. p \in 1 .. Len(script) /\ e \in 1 .. Len(script)
        BY <1>2, <1>3, <2>3
      <3>2. e < p
        BY <1>2, <2>5, <3>1, EnclosingBefore DEF Enc
      <3>3. ~(p <= e)
        BY <3>1, <3>2
      <3>4. QED
        BY <2>3, <3>3, SubordinateLines
    <2>9. LeftThen(e) = Left(e)
      BY <2>8 DEF LeftThen, Left
    <2>10. QED
      BY <1>7, <2>7, <2>9 DEF FirstLeft
  <1>13. QED
    BY <1>10, <1>11, <1>12

\* Below an EXEC that begins everything is left, from the line after it.
LEMMA MissingBelow ==
    ASSUME CommandInv, AtCommand, NEW n, n = Top.at, Begun' = Begun \cup {n}
    PROVE  /\ LatestThen(n)
           /\ LeftThen(n) # {} => FirstLeft(n, child[n])
  <1>1. /\ fate = "tree" /\ TreeInv /\ n \in Node /\ Ready(n) /\ child[n] = FirstBelow(n)
    BY ReachedIsReady DEF CommandInv
  <1>2. Document(script) /\ Node = 1 .. Len(script) /\ Len(script) \in Nat
    BY <1>1, RunningTree
  <1>3. Subordinate(n) = Children(script, n) /\ Subordinate(n) \subseteq Node
    BY SubordinateLines
  <1>4. \A b \in Begun' : b <= n
    <2>1. Begun \subseteq Node
      BY ElementOfSeq DEF CommandInv, BegunInv, Begun, Range
    <2>2. \A b \in Begun : b <= n
      BY <1>1, <1>2, <2>1 DEF Ready
    <2>3. QED
      BY <1>1, <1>2, <2>2
  <1>5. LatestThen(n)
    BY <1>4 DEF LatestThen
  <1>6. ASSUME LeftThen(n) # {}
        PROVE  FirstLeft(n, child[n])
    <2>1. ASSUME NEW m \in Subordinate(n)
          PROVE  m \in LeftThen(n)
      <3>1. m \in 1 .. Len(script) /\ n \in Enclosing(script, m) /\ n \in 1 .. Len(script)
        BY <1>1, <1>2, <1>3, SubordinateLines DEF Enc
      <3>2. n < m
        BY <1>2, <3>1, EnclosingBefore
      <3>3. m \notin Begun'
        BY <1>4, <3>1, <3>2
      <3>4. QED
        BY <3>3 DEF LeftThen
    <2>2. LeftThen(n) \in SUBSET Nat
      BY <1>2, <1>3 DEF LeftThen
    <2>3. PICK w \in LeftThen(n) : \A v \in LeftThen(n) : w <= v
      BY <1>6, <2>2, LeastNumber
    <2>4. w \in Children(script, n) /\ w \in Node /\ \A m \in Children(script, n) : w <= m
      BY <1>3, <2>1, <2>3 DEF LeftThen
    <2>5. w = 1 \/ Attached(script, w)
      BY <1>1, <2>4, TreeAttached
    <2>6. w = n + 1 /\ Deepens(script, w)
      <3>1. n \in 1 .. Len(script)
        BY <1>1, <1>2
      <3>2. QED
        BY <1>2, <2>4, <2>5, <3>1, FirstChild
    <2>7. child[n] = w
      BY <1>1, <1>2, <2>4, <2>6 DEF FirstBelow
    <2>8. QED
      BY <2>3, <2>7 DEF FirstLeft
  <1>7. QED
    BY <1>5, <1>6

\* When a command begins and the calls below it stay, what is left waits on.
LEMMA MissingAfter ==
    ASSUME CommandInv, MissingInv, ControlStep, begun' # begun,
           \A j \in 1 .. Len(frames) - 1 :
               j \in 1 .. Len(frames') /\ frames'[j] = frames[j],
           verdict' = "RUNNING" => \A u : next[Top.at] = u /\ u # Nil => WaitsThen(u),
           verdict' = "RUNNING" /\ Word(Top.at) = "EXEC" =>
               \A u : child[Top.at] = u /\ u # Nil => WaitsThen(u)
    PROVE  MissingInv'
  <1>1. PICK n : n = Top.at
    OBVIOUS
  <1>2. AtCommand /\ Begun' = Begun \cup {n} /\ script' = script /\ next' = next
    BY <1>1, StepKeeps, BegunAfter
  <1>3. \A u : \A e : FirstLeft(e, u) => u # Nil
    BY SubordinateLines DEF FirstLeft, LeftThen, Nil, Node
  <1>4. ASSUME NEW e \in Begun', Word(e) = "EXEC", LeftThen(e) # {}
        PROVE  LatestThen(e) /\ (verdict' = "RUNNING" => \E u : FirstLeft(e, u) /\ WaitsThen(u))
    <2>1. CASE e \in Begun
      <3>1. LatestThen(e)
        BY <1>1, <1>2, <1>4, <2>1, MissingBegins
      <3>2. PICK u : /\ FirstLeft(e, u)
                     /\ \/ next[n] = u
                        \/ \E j \in 1 .. Len(frames) - 1 :
                               frames[j].running /\ next[frames[j].at] = u
        BY <1>1, <1>2, <1>4, <2>1, MissingBegins
      <3>3. verdict' = "RUNNING" => WaitsThen(u)
        <4>1. CASE next[n] = u
          BY <1>1, <1>3, <3>2, <4>1
        <4>2. CASE \E j \in 1 .. Len(frames) - 1 : frames[j].running /\ next[frames[j].at] = u
          BY <4>2 DEF WaitsThen
        <4>3. QED
          BY <3>2, <4>1, <4>2
      <3>4. QED
        BY <3>1, <3>2, <3>3
    <2>2. CASE e = n
      <3>1. LatestThen(n) /\ FirstLeft(n, child[n])
        BY <1>1, <1>2, <1>4, <2>2, MissingBelow
      <3>2. PICK u : u = child[n]
        OBVIOUS
      <3>3. FirstLeft(n, u) /\ u # Nil
        BY <1>3, <3>1, <3>2
      <3>4. verdict' = "RUNNING" => WaitsThen(u)
        BY <1>1, <1>4, <2>2, <3>2, <3>3
      <3>5. QED
        BY <2>2, <3>1, <3>3, <3>4
    <2>3. QED
      BY <1>2, <2>1, <2>2
  <1>5. QED
    BY <1>2, <1>4, MissingThen

\* When none begins, what is left is what was left.
LEMMA MissingStill ==
    ASSUME CommandInv, MissingInv, ControlStep, begun' = begun,
           verdict' = "RUNNING" => \A u : Waits(u) /\ u # Nil => WaitsThen(u)
    PROVE  MissingInv'
  <1>1. script' = script /\ next' = next /\ verdict = "RUNNING" /\ Begun' = Begun
    BY StepKeeps DEF Begun
  <1>2. ASSUME NEW e \in Begun', Word(e) = "EXEC", LeftThen(e) # {}
        PROVE  LatestThen(e) /\ (verdict' = "RUNNING" => \E u : FirstLeft(e, u) /\ WaitsThen(u))
    <2>1. LeftThen(e) = Left(e)
      BY <1>1 DEF LeftThen, Left
    <2>2. Latest(e) /\ \E u \in Left(e) : (\A v \in Left(e) : u <= v) /\ Waits(u)
      BY <1>1, <1>2, <2>1 DEF MissingInv
    <2>3. PICK u \in Left(e) : (\A v \in Left(e) : u <= v) /\ Waits(u)
      BY <2>2
    <2>4. u # Nil
      BY SubordinateLines DEF Left, Nil, Node
    <2>5. LatestThen(e)
      BY <1>1, <2>2 DEF Latest, LatestThen
    <2>6. QED
      BY <2>1, <2>3, <2>4, <2>5 DEF FirstLeft
  <1>3. QED
    BY <1>1, <1>2, MissingThen
\* A command that begins is a line more.
LEMMA AppendChanges ==
    ASSUME CommandInv, NEW n, begun' = Append(begun, n)
    PROVE  begun' # begun
  <1>1. begun \in Seq(Node)
    BY DEF CommandInv, BegunInv
  <1>2. Len(begun') # Len(begun)
    BY <1>1
  <1>3. QED
    BY <1>2

\* Every step keeps a place for each line that has been left.
LEMMA MissingStays ==
    ASSUME CommandInv, MissingInv, ControlStep
    PROVE  MissingInv'
  <1>1. /\ verdict = "RUNNING" /\ frames # <<>> /\ FrameInv /\ TreeInv /\ next' = next
        /\ Len(frames) \in Nat /\ Len(frames) > 0 /\ Top = frames[Len(frames)]
    BY StepKeeps, TopIsFrame DEF CommandInv, FrameInv
  <1>2. CASE Halts
    <2>1. verdict' # "RUNNING" /\ frames' = frames
      BY <1>2 DEF Halts
    <2>2. \A j \in 1 .. Len(frames) - 1 : j \in 1 .. Len(frames') /\ frames'[j] = frames[j]
      BY <1>1, <2>1
    <2>3. QED
      BY <2>1, <2>2, MissingAfter, MissingStill
  <1>3. CASE Completes
    <2>1. begun' # begun /\ Word(Top.at) # "EXEC"
      BY <1>3, AppendChanges DEF Completes
    <2>2. Top.at \in Node /\ Complete
      BY <1>3, ReachedIsReady DEF Completes
    <2>3. /\ Len(frames') = Len(frames) /\ \A i \in 1 .. Len(frames) - 1 : frames'[i] = frames[i]
          /\ Top'.at = next[Top.at] /\ Top'.running = FALSE
      BY <1>1, <2>2, CompleteEffect
    <2>4. \A j \in 1 .. Len(frames) - 1 : j \in 1 .. Len(frames') /\ frames'[j] = frames[j]
      BY <1>1, <2>3
    <2>5. \A u : next[Top.at] = u => WaitsThen(u)
      BY <2>3 DEF WaitsThen
    <2>6. QED
      BY <2>1, <2>4, <2>5, MissingAfter
  <1>4. CASE Starts
    <2>1. begun' # begun /\ child' = child
      BY <1>4, AppendChanges DEF Starts
    <2>2. /\ Len(frames') = Len(frames) /\ \A i \in 1 .. Len(frames) - 1 : frames'[i] = frames[i]
          /\ Top'.at = Top.at /\ Top'.running = TRUE
      BY <1>1, <1>4, StartEffect DEF Starts
    <2>3. \A j \in 1 .. Len(frames) - 1 : j \in 1 .. Len(frames') /\ frames'[j] = frames[j]
      BY <1>1, <2>2
    <2>4. Top' = frames'[Len(frames)] /\ Len(frames) \in 1 .. Len(frames')
      BY <1>1, <2>2 DEF Top
    <2>5. \A u : next[Top.at] = u => WaitsThen(u)
      BY <2>2, <2>4 DEF WaitsThen
    <2>6. Word(Top.at) = "EXEC" => \A u : child[Top.at] = u => WaitsThen(u)
      BY <1>4, <2>1, <2>2 DEF Starts, WaitsThen
    <2>7. QED
      BY <2>1, <2>3, <2>5, <2>6, MissingAfter
  <1>5. ASSUME NEW rest, Returns(rest)
        PROVE  /\ \A j \in 1 .. Len(frames) - 1 : j \in 1 .. Len(frames') /\ frames'[j] = frames[j]
               /\ \A u : rest = u => WaitsThen(u)
    <2>1. /\ Len(frames') = Len(frames) - 1
          /\ \A i \in 1 .. Len(frames) - 1 : frames'[i] = frames[i]
          /\ Top'.running /\ Top'.at \in Begun
          /\ child' = [child EXCEPT ![Top'.at] = rest]
      BY <1>5, ReturnEffect
    <2>2. \A j \in 1 .. Len(frames) - 1 : j \in 1 .. Len(frames')
      BY <1>1, <2>1
    <2>3. PICK a : a = Top'.at
      OBVIOUS
    <2>4. a \in Node /\ child \in [Node -> 0 .. Len(script)]
      BY <2>1, <2>3, BegunAfter DEF CommandInv, TreeInv
    <2>5. child'[a] = rest
      BY <2>1, <2>3, <2>4
    <2>6. continuation' = rest
      BY <1>5 DEF Returns
    <2>7. QED
      BY <2>1, <2>2, <2>3, <2>5, <2>6 DEF WaitsThen
  <1>6. CASE Continues
    <2>1. begun' # begun /\ Word(Top.at) # "EXEC" /\ Returns(next[Top.at])
      BY <1>6, AppendChanges DEF Continues
    <2>2. QED
      BY <1>5, <2>1, MissingAfter
  <1>7. ASSUME NEW u, u # Nil, Waits(u), ~Top.running, Top.at = Nil
        PROVE  continuation = u \/ \E j \in 1 .. Len(frames) - 1 :
                   frames[j].running /\ next[frames[j].at] = u
    <2>1. ASSUME NEW j \in 1 .. Len(frames), frames[j].running
          PROVE  j \in 1 .. Len(frames) - 1
      <3>1. j # Len(frames)
        BY <1>1, <1>7, <2>1
      <3>2. QED
        BY <1>1, <3>1
    <2>2. QED
      BY <1>7, <2>1 DEF Waits
  <1>8. CASE Ends
    <2>1. begun' = begun /\ Returns(continuation) /\ Top.at = Nil /\ ~Top.running
      BY <1>8 DEF Ends, Returns, InList
    <2>2. ASSUME NEW u, u # Nil, Waits(u)
          PROVE  WaitsThen(u)
      <3>1. CASE continuation = u
        BY <1>5, <2>1, <3>1
      <3>2. CASE \E j \in 1 .. Len(frames) - 1 : frames[j].running /\ next[frames[j].at] = u
        BY <1>5, <2>1, <3>2 DEF WaitsThen
      <3>3. QED
        BY <1>7, <2>1, <2>2, <3>1, <3>2
    <2>3. QED
      BY <2>1, <2>2, MissingStill
  <1>9. CASE CallsBack
    <2>1. begun' = begun
      BY <1>9 DEF CallsBack
    <2>2. /\ Len(frames') = Len(frames) + 1 /\ \A i \in 1 .. Len(frames) : frames'[i] = frames[i]
          /\ Top'.at = child[Top.at] /\ Top'.running = FALSE /\ Top.running
      BY <1>9, CallEffect
    <2>3. \A j \in 1 .. Len(frames) : j \in 1 .. Len(frames')
      BY <1>1, <2>2
    <2>4. \A u : Waits(u) => WaitsThen(u)
      BY <2>2, <2>3 DEF Waits, WaitsThen
    <2>5. QED
      BY <2>1, <2>4, MissingStill
  <1>10. CASE Works
    <2>1. /\ begun' = begun /\ frames' = frames /\ child' = child /\ Top' = Top
          /\ continuation' = continuation \/ (child[active] = Nil /\ continuation' = Nil)
      BY <1>10 DEF Works, Top
    <2>2. Top.running /\ active = Top.at
      BY <1>10, RunsBegun DEF Works
    <2>3. ASSUME NEW u, u # Nil, Waits(u)
          PROVE  WaitsThen(u)
      BY <2>1, <2>2, <2>3 DEF Waits, WaitsThen
    <2>4. QED
      BY <2>1, <2>3, MissingStill
  <1>11. CASE Finishes
    <2>1. begun' = begun /\ continuation' = continuation
      BY <1>11 DEF Finishes
    <2>2. Top.at \in Node /\ Complete /\ Top.running
      BY <1>11, RunsBegun DEF Finishes
    <2>3. /\ Len(frames') = Len(frames) /\ \A i \in 1 .. Len(frames) - 1 : frames'[i] = frames[i]
          /\ Top'.at = next[Top.at] /\ Top'.running = FALSE
      BY <1>1, <2>2, CompleteEffect
    <2>4. ASSUME NEW u, u # Nil, Waits(u)
          PROVE  WaitsThen(u)
      <3>1. CASE continuation = u
        BY <2>1, <2>3, <3>1 DEF WaitsThen
      <3>2. ASSUME NEW j \in 1 .. Len(frames), frames[j].running, next[frames[j].at] = u
            PROVE  WaitsThen(u)
        <4>1. CASE j = Len(frames)
          BY <1>1, <2>3, <3>2, <4>1 DEF WaitsThen
        <4>2. CASE j # Len(frames)
          <5>1. j \in 1 .. Len(frames) - 1 /\ j \in 1 .. Len(frames')
            BY <1>1, <2>3, <4>2
          <5>2. frames'[j] = frames[j]
            BY <2>3, <5>1
          <5>3. QED
            BY <3>2, <5>1, <5>2 DEF WaitsThen
        <4>3. QED
          BY <4>1, <4>2
      <3>3. QED
        BY <2>2, <2>4, <3>1, <3>2 DEF Waits
    <2>5. QED
      BY <2>1, <2>4, MissingStill
  <1>12. QED
    BY <1>2, <1>3, <1>4, <1>6, <1>8, <1>9, <1>10, <1>11 DEF ControlStep
-----------------------------------------------------------------------------
(* The machine and its copy.                                                *)

\* The lines of a list come to an end: the next line is a later one.
LEMMA SiblingsEnd ==
    ASSUME TreeInv, fate = "tree", NEW first \in 0 .. Len(script)
    PROVE  Siblings(first) \in Seq(Node)
  <1>1. Document(script) /\ Node = 1 .. Len(script) /\ Len(script) \in Nat /\ Len(script) > 0
    BY RunningTree
  <1>2. PICK L : L = Len(script)
    OBVIOUS
  <1>3. L \in Nat /\ L > 0 /\ Node = 1 .. L
    BY <1>1, <1>2
  <1>4. ASSUME NEW n \in Node
        PROVE  next[n] = Nil \/ (next[n] \in Node /\ n < next[n])
    <2>1. next[n] \in 0 .. L
      BY <1>2, <1>4, RunningTree
    <2>2. CASE next[n] # Nil
      <3>1. next[n] \in Node
        BY <1>3, <2>1, <2>2 DEF Nil
      <3>2. PICK q \in Node : q = next[n]
        BY <3>1
      <3>3. n < q
        BY <1>4, <3>2, RunningTree
      <3>4. QED
        BY <3>2, <3>3
    <2>3. QED
      BY <2>2
  <1> DEFINE Value(h, n) == IF n = Nil THEN <<>> ELSE <<n>> \o h[next[n]]
             Final(k) == {n \in 0 .. L : n = Nil \/ n > L - k}
             Upto(k) == \E h : h = [n \in Final(k) |-> Value(h, n)]
             Bad == {k \in 0 .. L : ~Upto(k)}
  <1>5. Upto(0)
    <2> DEFINE h == [n \in Final(0) |-> <<>>]
    <2>1. \A n \in Final(0) : n = Nil
      BY <1>3
    <2>2. h = [n \in Final(0) |-> Value(h, n)]
      BY <2>1
    <2> HIDE DEF h
    <2>3. QED
      BY <2>2
  <1>6. ASSUME NEW k \in 1 .. L, Upto(k - 1)
        PROVE  Upto(k)
    <2>1. PICK h : h = [n \in Final(k - 1) |-> Value(h, n)]
      BY <1>6
    <2> DEFINE g == [n \in Final(k) |-> IF n \in Final(k - 1) THEN h[n] ELSE <<n>> \o h[next[n]]]
    <2>2. \A n \in Final(k - 1) : n \in Final(k) /\ g[n] = h[n]
      BY <1>3, <1>6
    <2>3. \A n \in Final(k) : n # Nil => next[n] \in Final(k - 1)
      <3> SUFFICES ASSUME NEW n \in Final(k), n # Nil
                   PROVE  next[n] \in Final(k - 1)
        OBVIOUS
      <3>1. n \in Node /\ n > L - k /\ 0 \in 0 .. L
        BY <1>3 DEF Nil
      <3>2. CASE next[n] = Nil
        BY <3>1, <3>2 DEF Nil
      <3>3. CASE next[n] \in Node /\ n < next[n]
        <4>1. next[n] \in 0 .. L
          BY <1>3, <3>3
        <4>2. next[n] > L - (k - 1)
          BY <1>3, <1>6, <3>1, <3>3
        <4>3. QED
          BY <4>1, <4>2
      <3>4. QED
        BY <1>4, <3>1, <3>2, <3>3
    <2>4. \A n \in Final(k - 1) : h[n] = Value(h, n)
      BY <2>1
    <2>5. \A n \in Final(k) : g[n] = IF n \in Final(k - 1) THEN h[n] ELSE <<n>> \o h[next[n]]
      OBVIOUS
    <2>6. Nil \in Final(k - 1)
      BY <1>3, <1>6 DEF Nil
    <2>7. g = [n \in Final(k) |-> g[n]]
      OBVIOUS
    <2> HIDE DEF g, Final
    <2>8. ASSUME NEW n \in Final(k)
          PROVE  g[n] = Value(g, n)
      <3>1. CASE n = Nil
        BY <2>2, <2>4, <2>6, <3>1
      <3>2. CASE n # Nil
        <4>1. g[next[n]] = h[next[n]]
          BY <2>2, <2>3, <2>8, <3>2
        <4>2. g[n] = <<n>> \o h[next[n]]
          BY <2>4, <2>5, <2>8, <3>2
        <4>3. QED
          BY <3>2, <4>1, <4>2
      <3>3. QED
        BY <3>1, <3>2
    <2>9. g = [n \in Final(k) |-> Value(g, n)]
      BY <2>7, <2>8
    <2>10. QED
      BY <2>9
  <1>7. Upto(L)
    <2>1. Bad \in SUBSET Nat
      BY <1>3
    <2>0. L \in 0 .. L
      BY <1>3
    <2> HIDE DEF Upto
    <2> SUFFICES ASSUME Bad # {}
                 PROVE  FALSE
      BY <2>0
    <2>2. PICK k \in Bad : \A j \in Bad : k <= j
      BY <2>1, LeastNumber
    <2>3. k \in 1 .. L /\ k - 1 \in 0 .. L /\ k - 1 \notin Bad
      BY <1>3, <1>5, <2>2
    <2>4. QED
      BY <1>6, <2>2, <2>3
  <1>8. Final(L) = 0 .. L
    BY <1>3 DEF Nil
  <1> DEFINE Chain == CHOOSE h : h = [n \in 0 .. L |-> Value(h, n)]
  <1>9. Chain = [n \in 0 .. L |-> Value(Chain, n)]
    BY <1>7, <1>8
  <1>10. Siblings(first) = Chain[first]
    BY <1>2 DEF Siblings
  <1> HIDE DEF Chain
  <1> DEFINE Odd == {k \in 0 .. L : Chain[L - k] \notin Seq(Node)}
  <1>11. Odd = {}
    <2> SUFFICES ASSUME Odd # {}
                 PROVE  FALSE
      OBVIOUS
    <2>1. Odd \in SUBSET Nat
      BY <1>3
    <2>2. PICK k \in Odd : \A j \in Odd : k <= j
      BY <2>1, LeastNumber
    <2>3. PICK n : n = L - k
      OBVIOUS
    <2>4. n \in 0 .. L /\ Chain[n] \notin Seq(Node)
      BY <1>3, <2>2, <2>3
    <2>5. Chain[n] = IF n = Nil THEN <<>> ELSE <<n>> \o Chain[next[n]]
      BY <1>9, <2>4
    <2>6. n # Nil /\ n \in Node
      <3>1. <<>> \in Seq(Node)
        OBVIOUS
      <3>2. n # Nil
        BY <2>4, <2>5, <3>1
      <3>3. QED
        BY <1>3, <2>4, <3>2 DEF Nil
    <2>7. Chain[next[n]] \in Seq(Node)
      <3>1. CASE next[n] = Nil
        <4>1. Nil \in 0 .. L
          BY <1>3 DEF Nil
        <4>2. Chain[Nil] = <<>>
          BY <1>9, <4>1
        <4>3. QED
          BY <3>1, <4>2
      <3>2. CASE next[n] \in Node /\ n < next[n]
        <4>1. PICK q : q = next[n]
          OBVIOUS
        <4>2. L - q \in 0 .. L /\ L - q < k /\ L - (L - q) = q
          BY <1>3, <2>2, <2>3, <3>2, <4>1
        <4>3. L - q \notin Odd
          BY <2>2, <4>2
        <4>4. QED
          BY <4>1, <4>2, <4>3
      <3>3. QED
        BY <1>4, <2>6, <3>1, <3>2
    <2>8. PICK s \in Seq(Node) : s = Chain[next[n]]
      BY <2>7
    <2>9. <<n>> \in Seq(Node)
      BY <2>6
    <2>10. <<n>> \o s \in Seq(Node)
      BY <2>9, ConcatProperties
    <2>11. QED
      BY <2>4, <2>5, <2>6, <2>8, <2>10
  <1>12. L - first \in 0 .. L /\ L - (L - first) = first
    BY <1>2, <1>3
  <1>13. Chain[first] \in Seq(Node)
    BY <1>11, <1>12
  <1>14. QED
    BY <1>10, <1>13

\* What an item of a TEST command may come to.
Outcomes == {"PASS", "FAIL", "TEST_ERROR", "CRASH", "ERROR", "EXIT"}

Sound(r) == r.result \in Outcomes /\ DOMAIN r.shadow = Location /\ r.callback_id \in 0 .. 8

\* An item that passes.
LEMMA PassSound ==
    ASSUME NEW st, Sound(st), NEW f, DOMAIN f = Location
    PROVE  Sound(Pass(st, f))
  BY DEF Sound, Pass, Outcomes

\* An item that stops the command.
LEMMA StopSound ==
    ASSUME NEW st, Sound(st), NEW how \in Outcomes
    PROVE  Sound(Stop(st, how))
  BY DEF Sound, Stop

\* What is written over a copy leaves it its locations.
LEMMA OverwriteKeeps ==
    ASSUME NEW f, NEW g
    PROVE  DOMAIN Overwrite(f, g) = DOMAIN f
  BY DEF Overwrite

\* An item that sets a number.
LEMMA SetIntSound ==
    ASSUME NEW st, Sound(st), NEW location, NEW t
    PROVE  Sound(SetInt(st, location, t))
  <1>1. PICK f : f = [st.shadow EXCEPT ![location] = IntOf[t]]
    OBVIOUS
  <1>2. DOMAIN f = Location
    BY <1>1 DEF Sound
  <1>3. Sound(Pass(st, f)) /\ Sound(Stop(st, "TEST_ERROR"))
    BY <1>2, PassSound, StopSound DEF Outcomes
  <1>4. QED
    BY <1>1, <1>3 DEF SetInt

\* stack-lock and stack-pos.
LEMMA StackScalarSound ==
    ASSUME NEW st, Sound(st), NEW item
    PROVE  Sound(StackScalarItem(st, item))
  <1>1. Sound(Stop(st, "TEST_ERROR")) /\ Sound(SetInt(st, <<item[1]>>, item[2]))
    BY SetIntSound, StopSound DEF Outcomes
  <1>2. QED
    BY <1>1 DEF StackScalarItem

\* program.
LEMMA ProgramItemSound ==
    ASSUME NEW st, Sound(st), NEW item
    PROVE  Sound(ProgramItem(st, item))
  <1>1. PICK f : f = [st.shadow EXCEPT ![<<"program">>] = item[2], ![<<"memblocks">>] = item[2]]
    OBVIOUS
  <1>2. DOMAIN f = Location
    BY <1>1 DEF Sound
  <1>3. Sound(Pass(st, f)) /\ Sound(Stop(st, "TEST_ERROR"))
    BY <1>2, PassSound, StopSound DEF Outcomes
  <1>4. QED
    BY <1>1, <1>3 DEF ProgramItem

\* callback takes the callback that it names off.
LEMMA CallbackItemSound ==
    ASSUME NEW st, Sound(st), NEW item
    PROVE  Sound(CallbackItem(st, item))
  <1>1. Sound(Stop(st, "TEST_ERROR")) /\ Sound(Stop(st, "FAIL"))
    BY StopSound DEF Outcomes
  <1>2. Sound([Pass(st, st.shadow) EXCEPT !.callback_id = 0])
    BY DEF Sound, Pass, Outcomes
  <1>3. QED
    BY <1>1, <1>2 DEF CallbackItem

\* arg0 and arg1.
LEMMA ArgumentItemSound ==
    ASSUME NEW st, Sound(st), NEW item, NEW k
    PROVE  Sound(ArgumentItem(st, item, k))
  <1>1. Sound(Stop(st, "TEST_ERROR")) /\ Sound(Judge(st, st.shadow, IntOf[item[2]] = st.ccall_args[k]))
    BY StopSound DEF Outcomes, Judge, Pass, Sound
  <1>2. QED
    BY <1>1 DEF ArgumentItem

\* A vector register of numbers, compared and copied.
LEMMA FloatItemSound ==
    ASSUME NEW st, Sound(st), NEW item, NEW values
    PROVE  Sound(Float32Item(st, item, values)) /\ Sound(Float64Item(st, item, values))
  <1>1. PICK f : f = Overwrite(st.shadow, Observed(st, item[1]))
    OBVIOUS
  <1>2. DOMAIN f = Location
    BY <1>1, OverwriteKeeps DEF Sound
  <1>3. Sound(Float32Item(st, item, values))
    BY <1>1, <1>2 DEF Float32Item, Judge, Pass, Sound, Outcomes
  <1>4. Sound(Float64Item(st, item, values))
    BY <1>1, <1>2 DEF Float64Item, Judge, Pass, Sound, Outcomes
  <1>5. QED
    BY <1>3, <1>4

\* A vector register of integers.
LEMMA IntItemSound ==
    ASSUME NEW st, Sound(st), NEW item, NEW values
    PROVE  Sound(Int32Item(st, item, values)) /\ Sound(Int64Item(st, item, values))
  <1>1. \A g : Sound(Pass(st, Overwrite(st.shadow, g)))
    BY OverwriteKeeps, PassSound DEF Sound
  <1>2. Sound(Stop(st, "CRASH"))
    BY StopSound DEF Outcomes
  <1>3. Sound(Int32Item(st, item, values))
    BY <1>1, <1>2 DEF Int32Item
  <1>4. Sound(Int64Item(st, item, values))
    BY <1>1, <1>2 DEF Int64Item
  <1>5. QED
    BY <1>3, <1>4

\* A vector register.
LEMMA XmmItemSound ==
    ASSUME NEW st, Sound(st), NEW item
    PROVE  Sound(XmmItem(st, item))
  <1>1. PICK values : values = XmmValues(item)
    OBVIOUS
  <1>2. Sound(Stop(st, "CRASH")) /\ Sound(Stop(st, "ERROR"))
    BY StopSound DEF Outcomes
  <1>3. /\ Sound(Float32Item(st, item, values)) /\ Sound(Float64Item(st, item, values))
        /\ Sound(Int32Item(st, item, values)) /\ Sound(Int64Item(st, item, values))
    BY FloatItemSound, IntItemSound
  <1>4. QED
    BY <1>1, <1>2, <1>3 DEF XmmItem

\* A number in memory, compared and copied.
LEMMA MemFloatSound ==
    ASSUME NEW st, Sound(st), NEW shadowset, NEW source, NEW first, NEW type, NEW value
    PROVE  Sound(MemFloat(st, shadowset, source, first, type, value))
  <1>1. \A g : DOMAIN Overwrite(st.shadow, g) = Location
    BY OverwriteKeeps DEF Sound
  <1>2. QED
    BY <1>1 DEF MemFloat, Judge, Pass, Sound, Outcomes

\* mem.
LEMMA MemItemSound ==
    ASSUME NEW st, Sound(st), NEW item
    PROVE  Sound(MemItem(st, item))
  <1>1. \A g : Sound(Pass(st, Overwrite(st.shadow, g)))
    BY OverwriteKeeps, PassSound DEF Sound
  <1>2. Sound(Stop(st, "CRASH")) /\ Sound(Stop(st, "TEST_ERROR"))
    BY StopSound DEF Outcomes
  <1>3. Sound(Pass(st, st.shadow))
    BY PassSound DEF Sound
  <1>4. \A shadowset, source, first, type, value :
            Sound(MemValue(st, shadowset, source, first, type, value))
    BY <1>1, <1>2, MemFloatSound DEF MemValue
  <1>5. QED
    BY <1>1, <1>2, <1>3, <1>4 DEF MemItem

\* An address register.
LEMMA AddrItemSound ==
    ASSUME NEW st, Sound(st), NEW item
    PROVE  Sound(AddrItem(st, item))
  <1>1. /\ Sound(Stop(st, "EXIT")) /\ Sound(Stop(st, "CRASH")) /\ Sound(Stop(st, "TEST_ERROR"))
    BY StopSound DEF Outcomes
  <1>2. \A k : DOMAIN Unbound(st, k) = Location
    BY DEF Unbound, Sound
  <1>3. \A k : Sound(Pass(st, Unbound(st, k)))
    BY <1>2, PassSound
  <1>4. \A k, source, offset : DOMAIN Rebound(st, k, source, offset) = Location
    BY DEF Rebound, Sound
  <1>5. \A k, source, offset :
            Sound(Judge(st, Rebound(st, k, source, offset), st.real[At(k, "pointer")][2] = offset))
    BY <1>4 DEF Judge, Pass, Sound, Outcomes
  <1>6. QED
    BY <1>1, <1>3, <1>5 DEF AddrItem

\* lwcstack.
LEMMA LwcallStackItemSound ==
    ASSUME NEW st, Sound(st), NEW item
    PROVE  Sound(LwcallStackItem(st, item))
  <1>1. \A g : Sound(Pass(st, Overwrite(st.shadow, g)))
    BY OverwriteKeeps, PassSound DEF Sound
  <1>2. Sound(Stop(st, "CRASH")) /\ Sound(Stop(st, "TEST_ERROR"))
    BY StopSound DEF Outcomes
  <1>3. QED
    BY <1>1, <1>2 DEF LwcallStackItem

\* stash.
LEMMA StashItemSound ==
    ASSUME NEW st, Sound(st), NEW item
    PROVE  Sound(StashItem(st, item))
  <1>1. \A g : Sound(Pass(st, Overwrite(st.shadow, g)))
    BY OverwriteKeeps, PassSound DEF Sound
  <1>2. \A g, h : Sound(Pass(st, Overwrite(Overwrite(st.shadow, g), h)))
    BY OverwriteKeeps, PassSound DEF Sound
  <1>3. Sound(Stop(st, "CRASH")) /\ Sound(Stop(st, "TEST_ERROR")) /\ Sound(Stop(st, "FAIL"))
    BY StopSound DEF Outcomes
  <1>4. \A i, field, expected : Sound(StashFloat64(st, i, field, expected))
    BY <1>2, <1>3 DEF StashFloat64
  <1>5. \A i, expected : Sound(StashFloat80(st, i, expected))
    BY <1>1, <1>3 DEF StashFloat80
  <1>6. \A i, field, t : Sound(StashInteger(st, i, field, t))
    BY <1>1 DEF StashInteger
  <1>7. QED
    BY <1>3, <1>4, <1>5, <1>6 DEF StashItem

\* A line below a stack-entry item.
Entered(e) == "result" \in DOMAIN e /\ e.result \in {"PASS", "TEST_ERROR", "CRASH"}

\* Such a line stops the item or sets a field.
LEMMA EntryLineKeeps ==
    ASSUME NEW names, NEW e, Entered(e), NEW t
    PROVE  Entered(EntryLine(names, e, t))
  <1>1. Entered([e EXCEPT !.result = "TEST_ERROR"]) /\ Entered([e EXCEPT !.result = "CRASH"])
    BY DEF Entered
  <1>2. \A f, v : Entered([e EXCEPT !.value[f] = v])
    BY DEF Entered
  <1>3. \A v, w : /\ Entered([e EXCEPT !.dest = v, !.value["dest-program"] = w])
                  /\ Entered([e EXCEPT !.source = v, !.value["src-program"] = w])
    BY DEF Entered
  <1>4. Entered(EntryTarget(e, t))
    BY <1>1, <1>2 DEF EntryTarget
  <1>5. Entered(EntryReturn(e, t))
    BY <1>1, <1>2 DEF EntryReturn
  <1>6. \A v \in {"TEST_ERROR", "CRASH"} : Entered([e EXCEPT !.result = v])
    BY DEF Entered
  <1>7. QED
    BY <1>1, <1>2, <1>3, <1>4, <1>5, <1>6 DEF EntryLine

\* So do all the lines below it.
LEMMA EntryLinesKeep ==
    ASSUME NEW names, NEW start, Entered(start), NEW lines, NEW n \in Nat, DOMAIN lines = 1 .. n
    PROVE  Entered(EntryLines(names, start, lines))
  <1>1. PICK g : /\ g[0] = start /\ EntryLines(names, start, lines) = g[n]
                 /\ \A i \in 1 .. n : g[i] = EntryLine(names, g[i - 1], lines[i])
    <2>1. n \in Nat /\ DOMAIN lines = 1 .. n
      OBVIOUS
    <2>2. \A a, b, c : DOMAIN c = 1 .. n =>
              \E g : /\ g[0] = b /\ EntryLines(a, b, c) = g[n]
                     /\ \A i \in 1 .. n : g[i] = EntryLine(a, g[i - 1], c[i])
      BY FoldEntryLine
    <2>3. QED
      BY <2>1, <2>2
  <1> DEFINE Odd == {i \in 0 .. n : ~Entered(g[i])}
  <1>2. Odd = {}
    <2> SUFFICES ASSUME Odd # {}
                 PROVE  FALSE
      OBVIOUS
    <2>1. Odd \in SUBSET Nat
      OBVIOUS
    <2>2. PICK i \in Odd : \A j \in Odd : i <= j
      BY <2>1, LeastNumber
    <2>3. i # 0
      BY <1>1, <2>2
    <2>4. i \in 1 .. n /\ i - 1 \in 0 .. n /\ i - 1 \notin Odd
      BY <2>2, <2>3
    <2>5. Entered(g[i - 1]) /\ g[i] = EntryLine(names, g[i - 1], lines[i])
      BY <1>1, <2>4
    <2>6. QED
      BY <2>2, <2>5, EntryLineKeeps
  <1>3. n \in 0 .. n
    OBVIOUS
  <1>4. QED
    BY <1>1, <1>2, <1>3

\* stack-entry.
LEMMA StackEntrySound ==
    ASSUME NEW st, Sound(st), NEW item, NEW lines, NEW n \in Nat, DOMAIN lines = 1 .. n
    PROVE  Sound(StackEntryItem(st, item, lines))
  <1>1. \A g : Sound(Pass(st, Overwrite(st.shadow, g)))
    BY OverwriteKeeps, PassSound DEF Sound
  <1>2. Sound(Stop(st, "TEST_ERROR")) /\ Sound(Stop(st, "CRASH"))
    BY StopSound DEF Outcomes
  <1>3. PICK start :
            start = [result |-> "PASS", dest |-> NULL, source |-> NULL,
                     value |-> [f \in Numeric \cup {"dest-program", "src-program"} |->
                                    st.shadow[<<"entry", IntOf[item[2]], f>>]]]
    OBVIOUS
  <1>4. Entered(start)
    BY <1>3 DEF Entered
  <1>5. PICK entry : entry = EntryLines(st.programs, start, lines)
    OBVIOUS
  <1>6. entry.result \in {"PASS", "TEST_ERROR", "CRASH"}
    <2>1. PICK names : names = st.programs
      OBVIOUS
    <2>2. Entered(EntryLines(names, start, lines))
      BY <1>4, EntryLinesKeep
    <2>3. QED
      BY <1>5, <2>1, <2>2 DEF Entered
  <1>7. entry.result # "PASS" => Sound(Stop(st, entry.result))
    BY <1>2, <1>6
  <1>8. QED
    BY <1>1, <1>2, <1>3, <1>5, <1>7 DEF StackEntryItem

\* Every item of a TEST command leaves the copy its locations.
LEMMA ItemSound ==
    ASSUME NEW st, Sound(st), NEW line, NEW n \in Nat, DOMAIN line.below = 1 .. n
    PROVE  Sound(Item(st, line))
  <1>1. PICK item, below : item = line.tok /\ below = line.below
    OBVIOUS
  <1>2. Sound(Stop(st, "TEST_ERROR"))
    BY StopSound DEF Outcomes
  <1>3. Sound(ScalarItem(st, item)) /\ Sound(RegisterItem(st, item))
    BY SetIntSound DEF ScalarItem, RegisterItem
  <1>4. /\ Sound(StackScalarItem(st, item)) /\ Sound(XmmItem(st, item)) /\ Sound(AddrItem(st, item))
        /\ Sound(ProgramItem(st, item)) /\ Sound(CallbackItem(st, item))
        /\ Sound(ArgumentItem(st, item, ArgNames[item[1]]))
    BY StackScalarSound, XmmItemSound, AddrItemSound, ProgramItemSound, CallbackItemSound,
       ArgumentItemSound
  <1>5. Sound(MemItem(st, item)) /\ Sound(LwcallStackItem(st, item)) /\ Sound(StashItem(st, item))
    BY MemItemSound, LwcallStackItemSound, StashItemSound
  <1>6. Sound(StackEntryItem(st, item, below))
    BY <1>1, StackEntrySound
  <1>7. QED
    BY <1>1, <1>2, <1>3, <1>4, <1>5, <1>6 DEF Item

\* So do all of them, and the comparison after them.
Tested(st) == Sound(st) /\ {"result", "shadow", "callback_id"} \subseteq DOMAIN st

\* One more item.
LEMMA ApplyKeeps ==
    ASSUME NEW st, Tested(st), NEW line, NEW n \in Nat, DOMAIN line.below = 1 .. n
    PROVE  Tested(Apply(st, line))
  <1>1. Sound(st)
    BY DEF Tested
  <1>2. PICK r : r = Item(st, line)
    OBVIOUS
  <1>3. Sound(r)
    BY <1>1, <1>2, ItemSound
  <1>4. Tested([st EXCEPT !.result = r.result, !.shadow = r.shadow, !.callback_id = r.callback_id])
    BY <1>3 DEF Tested, Sound
  <1>5. QED
    BY <1>2, <1>4 DEF Apply

\* All items and the comparison.
LEMMA RunTestSound ==
    ASSUME NEW st, Tested(st), NEW items, NEW n \in Nat, DOMAIN items = 1 .. n,
           \A i \in 1 .. n : \E k \in Nat : DOMAIN items[i].below = 1 .. k
    PROVE  Sound(RunTest(st, items))
  <1>1. PICK g : /\ g[0] = st /\ ApplyAll(st, items) = g[n]
                 /\ \A i \in 1 .. n : g[i] = Apply(g[i - 1], items[i])
    BY FoldApply
  <1> DEFINE Odd == {i \in 0 .. n : ~Tested(g[i])}
  <1>2. Odd = {}
    <2> SUFFICES ASSUME Odd # {}
                 PROVE  FALSE
      OBVIOUS
    <2>1. Odd \in SUBSET Nat
      OBVIOUS
    <2>2. PICK i \in Odd : \A j \in Odd : i <= j
      BY <2>1, LeastNumber
    <2>3. i # 0
      BY <1>1, <2>2
    <2>4. i \in 1 .. n /\ i - 1 \in 0 .. n /\ i - 1 \notin Odd
      BY <2>2, <2>3
    <2>5. Tested(g[i - 1]) /\ g[i] = Apply(g[i - 1], items[i])
      BY <1>1, <2>4
    <2>9. PICK line : line = items[i]
      OBVIOUS
    <2>6. PICK k \in Nat : DOMAIN line.below = 1 .. k
      BY <2>4, <2>9
    <2>7. Tested(Apply(g[i - 1], line))
      BY <2>5, <2>6, ApplyKeeps
    <2>8. QED
      BY <2>2, <2>5, <2>7, <2>9
  <1>3. PICK after : after = ApplyAll(st, items)
    OBVIOUS
  <1>4. Tested(after)
    <2>1. n \in 0 .. n
      OBVIOUS
    <2>2. QED
      BY <1>1, <1>2, <1>3, <2>1
  <1>5. PICK c : c = Compare(after)
    OBVIOUS
  <1>6. c.result \in {"PASS", "FAIL"}
    BY <1>5 DEF Compare, Judge, Pass
  <1>7. Sound([after EXCEPT !.result = c.result])
    BY <1>4, <1>6 DEF Tested, Sound, Outcomes
  <1>8. RunTest(st, items) = IF after.result = "PASS" THEN [after EXCEPT !.result = c.result] ELSE after
    BY <1>3, <1>5 DEF RunTest, ApplyAll
  <1>9. QED
    BY <1>4, <1>7, <1>8 DEF Tested

\* The machine and its copies have the same locations, and what selects memory names a
\* program that has been built.
MachineInv ==
    /\ DOMAIN real = Location /\ DOMAIN shadow = Location /\ DOMAIN seen = Location
    /\ callback_id \in 0 .. 8
    /\ programs \subseteq Program /\ {tprg, shadow_memblocks} \subseteq programs \cup {NULL}

\* A TEST command comes to one of the outcomes, with all locations.
LEMMA TestSound ==
    ASSUME CommandInv, MachineInv, AtCommand
    PROVE  Sound(RunTest(State, Items(Top.at)))
  <1>1. TreeInv /\ fate = "tree" /\ Top.at \in Node
    BY ReachedIsReady DEF CommandInv
  <1>2. \A n \in Node : Siblings(child[n]) \in Seq(Node)
    <2>1. ASSUME NEW n \in Node
          PROVE  Siblings(child[n]) \in Seq(Node)
      <3>1. PICK c \in 0 .. Len(script) : c = child[n]
        BY <1>1 DEF TreeInv
      <3>2. Siblings(c) \in Seq(Node)
        BY <1>1, SiblingsEnd
      <3>3. QED
        BY <3>1, <3>2
    <2>2. QED
      BY <2>1
  <1>3. PICK s \in Seq(Node) : s = Siblings(child[Top.at])
    BY <1>1, <1>2
  <1>4. PICK n \in Nat : n = Len(s)
    OBVIOUS
  <1>5. \A m \in Node : \E k \in Nat : DOMAIN Below(m) = 1 .. k
    <2>1. ASSUME NEW m \in Node
          PROVE  \E k \in Nat : DOMAIN Below(m) = 1 .. k
      <3>1. PICK t \in Seq(Node) : t = Siblings(child[m])
        BY <1>2
      <3>2. DOMAIN Below(m) = 1 .. Len(t) /\ Len(t) \in Nat
        BY <3>1 DEF Below
      <3>3. QED
        BY <3>2
    <2>2. QED
      BY <2>1
  <1>6. PICK items : items = Items(Top.at)
    OBVIOUS
  <1>7. DOMAIN items = 1 .. n /\ \A i \in 1 .. n : items[i].below = Below(s[i])
    BY <1>3, <1>4, <1>6 DEF Items
  <1>8. \A i \in 1 .. n : \E k \in Nat : DOMAIN items[i].below = 1 .. k
    <2>1. \A i \in 1 .. n : s[i] \in Node
      BY <1>4, ElementOfSeq
    <2>2. QED
      BY <1>5, <1>7, <2>1
  <1>9. PICK st : st = State
    OBVIOUS
  <1>10. Tested(st)
    BY <1>9 DEF State, Tested, Sound, Outcomes, MachineInv
  <1>11. Sound(RunTest(st, items))
    BY <1>7, <1>8, <1>10, RunTestSound
  <1>12. QED
    BY <1>6, <1>9, <1>11

\* The name that PROGRAM gives.
LEMMA ProgramName ==
    ASSUME CommandInv, AtCommand, Word(Top.at) = "PROGRAM"
    PROVE  (IF Args(Top.at) = <<>> THEN "DEFAULT" ELSE Args(Top.at)[1]) \in Program
  <1>1. Top.at \in Node /\ script \in Seq(CommandLine)
    BY ReachedIsReady DEF CommandInv, TreeInv
  <1>2. PICK l : l = script[Top.at]
    OBVIOUS
  <1>3. l \in CommandLine
    BY <1>1, <1>2, ElementOfSeq DEF Node
  <1>4. PICK t \in Seq(STRING) : t = l.tok
    BY <1>3 DEF CommandLine, TextLine
  <1>5. t # <<>> /\ (t[1] = "PROGRAM" /\ Len(t) > 1 => t[2] \in Program)
    BY <1>3, <1>4 DEF CommandLine
  <1>6. Word(Top.at) = t[1] /\ Args(Top.at) = Tail(t)
    BY <1>2, <1>4 DEF Word, Args
  <1>7. Tail(t) # <<>> => Len(t) > 1 /\ Tail(t)[1] = t[2]
    <2>1. Len(t) \in Nat /\ Len(t) > 0
      BY <1>5, EmptySeq
    <2>2. Tail(t) \in Seq(STRING) /\ Len(Tail(t)) = Len(t) - 1
      BY <1>5, HeadTailProperties
    <2>3. Tail(t) # <<>> => Len(Tail(t)) > 0
      BY <2>2, EmptySeq
    <2>4. \A i \in 1 .. Len(Tail(t)) : Tail(t)[i] = t[i + 1]
      BY <1>5, <2>1, <2>2
    <2>5. QED
      BY <2>1, <2>2, <2>3, <2>4
  <1>8. "DEFAULT" \in Program
    BY CallbacksAssumption
  <1>9. QED
    BY <1>5, <1>6, <1>7, <1>8

\* What the commands write over the machine leaves it its locations.
LEMMA WritesKeep ==
    ASSUME NEW f, DOMAIN f = Location
    PROVE  /\ \A p : DOMAIN Prepared(f, p) = Location
           /\ \A p, data : DOMAIN Replaced(f, p, data) = Location
           /\ \A by : \A g \in Delivered(by, f) : DOMAIN g = Location
           /\ \A g : DOMAIN Overwrite(f, g) = Location
           /\ \A g : DOMAIN Copied(g, f) = Location
  <1>1. \A p : DOMAIN Prepared(f, p) = Location
    BY DEF Prepared
  <1>2. \A g : DOMAIN Overwrite(f, g) = Location
    BY OverwriteKeeps
  <1>3. \A p, data : DOMAIN Replaced(f, p, data) = Location
    BY <1>2 DEF Replaced
  <1>4. \A by : \A g \in Delivered(by, f) : DOMAIN g = Location
    BY DEF Delivered
  <1>5. QED
    BY <1>1, <1>2, <1>3, <1>4 DEF Copied

\* Every action keeps the locations and the programs that memory is selected by.
LEMMA MachineStays ==
    ASSUME CommandInv, MachineInv, Next
    PROVE  MachineInv'
  <1>1. /\ DOMAIN real = Location /\ DOMAIN shadow = Location /\ DOMAIN seen = Location
        /\ callback_id \in 0 .. 8
        /\ programs \subseteq Program /\ {tprg, shadow_memblocks} \subseteq programs \cup {NULL}
    BY DEF MachineInv
  <1>2. CASE MissedCallback \/ ReturnValue \/ XmmDisplayMode \/ Placeholder \/ ExitCommand
                 \/ UndefinedFunction \/ ProgramError
    BY <1>1, <1>2 DEF MachineInv, MissedCallback, ReturnValue, XmmDisplayMode, Placeholder, ExitCommand,
           UndefinedFunction, ProgramError, callback, machine, history
  <1>3. CASE Program_
    <2>1. PICK name : name = IF Args(Top.at) = <<>> THEN "DEFAULT" ELSE Args(Top.at)[1]
      OBVIOUS
    <2>2. name \in Program
      BY <1>3, <2>1, ProgramName DEF Program_, Begin
    <2>3. callback_id' = callback_id
      BY <1>3 DEF Program_, callback
    <2>4. CASE UNCHANGED <<machine, seen>>
      BY <1>1, <2>3, <2>4 DEF machine, MachineInv
    <2>5. CASE ~UNCHANGED <<machine, seen>>
      <3>1. /\ tprg' = name /\ shadow_memblocks' = name /\ programs' = programs \cup {name}
            /\ DOMAIN real' = Location /\ DOMAIN shadow' = Location /\ DOMAIN seen' = Location
        BY <1>3, <2>1, <2>5 DEF Program_
      <3>2. QED
        BY <1>1, <2>2, <2>3, <3>1 DEF MachineInv
    <2>6. QED
      BY <2>4, <2>5
  <1>4. CASE Alloc
    <2>1. UNCHANGED <<callback_id, tprg, programs, shadow_memblocks>>
      BY <1>4 DEF Alloc, callback
    <2>2. \/ UNCHANGED <<real, shadow, seen>>
          \/ \E p, q, data : /\ real' = Replaced(real, p, data) /\ shadow' = Replaced(shadow, q, data)
                             /\ seen' = Replaced(seen, p, data)
      BY <1>4 DEF Alloc
    <2>3. QED
      BY <1>1, <2>1, <2>2, WritesKeep DEF MachineInv
  <1>5. CASE Exec
    <2>1. UNCHANGED <<callback_id, programs>>
      BY <1>5 DEF Exec, callback
    <2>2. {tprg', shadow_memblocks'} \subseteq programs \cup {NULL}
      BY <1>1, <1>5 DEF Exec
    <2>3. /\ real' = real \/ \E p : real' = [Prepared(real, p) EXCEPT ![<<"status">>] = 1]
          /\ \/ shadow' = shadow \/ shadow' = Copied(real, shadow)
             \/ \E p : shadow' = Prepared(shadow, p) \/ shadow' = Prepared(Copied(real, shadow), p)
          /\ \/ seen' = seen
             \/ \E p : seen' = Prepared(seen, p) \/ seen' = Prepared(Copied(real, seen), p)
      BY <1>5 DEF Exec
    <2>4. DOMAIN real' = Location
      BY <1>1, <2>3, WritesKeep
    <2>5. \A f : DOMAIN f = Location => /\ \A p : DOMAIN Prepared(f, p) = Location
                                        /\ \A g : DOMAIN Copied(g, f) = Location
      BY WritesKeep
    <2>6. DOMAIN shadow' = Location /\ DOMAIN seen' = Location
      BY <1>1, <2>3, <2>5
    <2>7. QED
      BY <1>1, <2>1, <2>2, <2>4, <2>6 DEF MachineInv
  <1>6. CASE Resume
    <2>1. UNCHANGED <<callback_id, programs, shadow, shadow_memblocks, seen>>
      BY <1>6 DEF Resume, callback
    <2>2. tprg' \in programs \cup {NULL} /\ DOMAIN real' = Location
      BY <1>1, <1>6 DEF Resume
    <2>3. QED
      BY <1>1, <2>1, <2>2 DEF MachineInv
  <1>7. CASE Test
    <2>1. PICK after : after = RunTest(State, Items(Top.at))
      OBVIOUS
    <2>2. DOMAIN after.shadow = Location /\ after.callback_id \in 0 .. 8
      BY <1>7, <2>1, TestSound DEF Test, Begin, Sound
    <2>3. /\ shadow' = after.shadow /\ callback_id' = after.callback_id
          /\ UNCHANGED <<real, tprg, programs, shadow_memblocks>>
          /\ DOMAIN seen' = Location
      BY <1>1, <1>7, <2>1 DEF Test
    <2>4. QED
      BY <1>1, <2>2, <2>3 DEF MachineInv
  <1>8. CASE Continue \/ EndOfList
    <2>1. UNCHANGED <<callback, shadow, tprg, programs, shadow_memblocks, seen>>
      BY <1>8 DEF Continue, EndOfList, ReturnToProgram, machine
    <2>2. real' = real \/ \E by : real' \in Delivered(by, real)
      BY <1>8 DEF Continue, EndOfList, ReturnToProgram, machine
    <2>3. DOMAIN real' = Location
      BY <1>1, <2>2, WritesKeep
    <2>4. QED
      BY <1>1, <2>1, <2>3 DEF MachineInv, callback
  <1>9. CASE Instruction \/ TvmTransfer
    <2>1. UNCHANGED <<callback, shadow, tprg, programs, shadow_memblocks, seen>>
      BY <1>9 DEF Instruction, TvmTransfer, history
    <2>2. (\E g : real' = Overwrite(real, g)) \/ (\E p : real' = Prepared(real, p))
      BY <1>9 DEF Instruction, TvmTransfer
    <2>3. DOMAIN real' = Location
      BY <1>1, <2>2, WritesKeep
    <2>4. QED
      BY <1>1, <2>1, <2>3 DEF MachineInv, callback
  <1>10. ASSUME NEW k \in CallbackIds, Callback(k)
         PROVE  MachineInv'
    <2>1. UNCHANGED <<shadow, tprg, programs, shadow_memblocks, seen>> /\ callback_id' = k
      BY <1>10 DEF Callback, history
    <2>2. real' = real \/ real' \in Delivered(k, real)
      BY <1>10 DEF Callback
    <2>3. DOMAIN real' = Location
      BY <1>1, <2>2, WritesKeep
    <2>4. k \in 0 .. 8
      BY CallbacksAssumption
    <2>5. QED
      BY <1>1, <2>1, <2>3, <2>4 DEF MachineInv
  <1>11. CASE Finish
    BY <1>1, <1>11 DEF Finish, MachineInv, callback
  <1>12. QED
    BY <1>2, <1>3, <1>4, <1>5, <1>6, <1>7, <1>8, <1>9, <1>10, <1>11 DEF Next
-----------------------------------------------------------------------------
(* Every action is one of the control steps.                                *)

\* What is known of the command that is reached.
LEMMA Reached ==
    ASSUME CommandInv, AtCommand
    PROVE  /\ verdict = "RUNNING" /\ raised = Nil /\ Top.at \in 0 .. Len(script) /\ Nil \in 0 .. Len(script)
           /\ {active, continuation, raised} \subseteq 0 .. Len(script)
           /\ next[Top.at] \in 0 .. Len(script) /\ child[Top.at] \in 0 .. Len(script)
  <1>1. verdict = "RUNNING" /\ Top.at \in Node /\ TreeInv /\ FrameInv
    BY ReachedIsReady DEF CommandInv
  <1>2. Len(script) \in Nat /\ Node = 1 .. Len(script)
    BY <1>1, RunningTree
  <1>3. next[Top.at] \in 0 .. Len(script) /\ child[Top.at] \in 0 .. Len(script)
    BY <1>1 DEF TreeInv
  <1>4. raised = Nil /\ {active, continuation, raised} \subseteq 0 .. Len(script)
    BY <1>1 DEF FrameInv
  <1>5. Top.at \in 0 .. Len(script) /\ Nil \in 0 .. Len(script)
    BY <1>1, <1>2 DEF Nil
  <1>6. QED
    BY <1>1, <1>3, <1>4, <1>5

\* A command that ends the script, with whatever verdict but a pass of its own.
LEMMA CommandHalts ==
    ASSUME CommandInv, AtCommand, begun' = Append(begun, Top.at), NEW how, Exit(how),
           how \in {"FAIL", "TEST_ERROR", "CONTINUE", "CRASHED"}, UNCHANGED document,
           active' \in {active, Top.at},
           continuation' \in {continuation, child[Top.at], next[Top.at]},
           raised' \in {raised, Top.at}
    PROVE  Halts
  <1>1. verdict' \in Results \ {"RUNNING", "none"} /\ verdict' # "PASS"
    BY DEF Exit, Results
  <1>2. {active', continuation', raised'} \subseteq 0 .. Len(script)
    BY Reached
  <1>3. QED
    BY <1>1, <1>2, Reached DEF Halts, Exit, document

\* A command that passes the script.
LEMMA CommandPasses ==
    ASSUME CommandInv, AtCommand, begun' = Append(begun, Top.at), Word(Top.at) # "ERROR",
           Exit("PASS"), UNCHANGED document, active' = Top.at, continuation' = continuation,
           raised' = raised \/ (raised' = Top.at /\ ErrorFollows(Top.at))
    PROVE  Halts
  <1>1. verdict' = "PASS" /\ verdict' \in Results \ {"RUNNING", "none"}
    BY DEF Exit, Results
  <1>2. {active', continuation', raised'} \subseteq 0 .. Len(script)
    BY Reached
  <1>3. raised' # Nil => ErrorFollows(raised')
    BY Reached
  <1>4. QED
    BY <1>1, <1>2, <1>3, Reached DEF Halts, Exit, document

\* An error raised by a command.
LEMMA CommandRaises ==
    ASSUME CommandInv, AtCommand, begun' = Append(begun, Top.at), Word(Top.at) # "ERROR",
           RaiseAt(Top.at), UNCHANGED document, active' = Top.at, continuation' = continuation
    PROVE  Halts
  <1>1. CASE ErrorFollows(Top.at)
    BY <1>1, CommandPasses DEF RaiseAt
  <1>2. CASE ~ErrorFollows(Top.at)
    <2>1. Exit("FAIL") /\ raised' = Top.at
      BY <1>2 DEF RaiseAt
    <2>2. PICK how : how = "FAIL"
      OBVIOUS
    <2>3. QED
      BY <2>1, <2>2, CommandHalts
  <1>3. QED
    BY <1>1, <1>2

\* The commands that leave the machine alone.
LEMMA PlainControls ==
    ASSUME CommandInv,
           MissedCallback \/ ReturnValue \/ XmmDisplayMode \/ Placeholder \/ ExitCommand
               \/ UndefinedFunction
    PROVE  ControlStep
  <1>1. CASE MissedCallback
    <2>1. verdict = "RUNNING" /\ FrameInv
      BY <1>1 DEF MissedCallback, InList, CommandInv
    <2>2. {active, continuation, raised} \subseteq 0 .. Len(script)
      BY <2>1 DEF FrameInv
    <2>3. Halts
      BY <1>1, <2>1, <2>2 DEF MissedCallback, Halts, document, history, Results
    <2>4. QED
      BY <2>3 DEF ControlStep
  <1>2. CASE ReturnValue \/ Placeholder
    BY <1>2 DEF ReturnValue, Placeholder, Begin, Unaffected, document, ControlStep, Completes
  <1>3. CASE XmmDisplayMode
    <2>1. AtCommand /\ Word(Top.at) = "XMM-DISPLAYMODE" /\ begun' = Append(begun, Top.at)
          /\ active' = Top.at /\ UNCHANGED <<document, continuation, raised>>
      BY <1>3 DEF XmmDisplayMode, Begin, Unaffected
    <2>2. Complete => Completes
      BY <2>1 DEF Completes, document
    <2>3. Exit("TEST_ERROR") => Halts
      <3>1. PICK how : how = "TEST_ERROR"
        OBVIOUS
      <3>2. QED
        BY <2>1, <3>1, CommandHalts
    <2>4. QED
      BY <1>3, <2>2, <2>3 DEF XmmDisplayMode, ControlStep
  <1>4. CASE ExitCommand
    BY <1>4, CommandPasses DEF ExitCommand, Begin, Unaffected, ControlStep
  <1>5. CASE UndefinedFunction
    <2>1. PICK how : how = "TEST_ERROR"
      OBVIOUS
    <2>2. Halts
      BY <1>5, <2>1, CommandHalts DEF UndefinedFunction, Unaffected
    <2>3. QED
      BY <2>2 DEF ControlStep
  <1>6. QED
    BY <1>1, <1>2, <1>3, <1>4, <1>5

\* The commands that touch the machine.
LEMMA MachineControls ==
    ASSUME CommandInv, MachineInv, Program_ \/ Alloc \/ Exec \/ Resume \/ Test
    PROVE  ControlStep
  <1>1. PICK words : words = {"PROGRAM", "ALLOC", "EXEC", "RESUME", "TEST"}
    OBVIOUS
  <1>2. /\ AtCommand /\ Word(Top.at) \in words /\ active' = Top.at /\ begun' = Append(begun, Top.at)
        /\ UNCHANGED document
    BY <1>1 DEF Program_, Alloc, Exec, Resume, Test, Begin, Unaffected
  <1>3. Word(Top.at) # "ERROR"
    BY <1>1, <1>2
  <1>4. \A how \in {"FAIL", "TEST_ERROR", "CRASHED"} :
            Exit(how) /\ raised' = raised /\ continuation' \in {continuation, child[Top.at]} => Halts
    BY <1>2, CommandHalts
  <1>5. RaiseAt(Top.at) /\ continuation' = continuation => Halts
    BY <1>2, <1>3, CommandRaises
  <1>6. Complete /\ Word(Top.at) # "EXEC" /\ continuation' = continuation /\ raised' = raised => Completes
    BY <1>2, <1>3 DEF Completes, document
  <1>7. CASE Program_
    <2>1. continuation' = continuation /\ Word(Top.at) # "EXEC"
      BY <1>7 DEF Program_, Begin
    <2>2. RaiseAt(Top.at) \/ (Complete /\ raised' = raised)
      BY <1>7 DEF Program_
    <2>3. QED
      BY <1>5, <1>6, <2>1, <2>2 DEF ControlStep
  <1>8. CASE Alloc
    <2>1. continuation' = continuation /\ raised' = raised /\ Word(Top.at) # "EXEC"
      BY <1>8 DEF Alloc, Begin
    <2>2. Exit("TEST_ERROR") \/ Exit("CRASHED") \/ Complete
      BY <1>8 DEF Alloc
    <2>3. QED
      BY <1>4, <1>6, <2>1, <2>2 DEF ControlStep
  <1>9. CASE Exec
    <2>1. continuation' = child[Top.at] /\ raised' = raised /\ Word(Top.at) = "EXEC"
      BY <1>9 DEF Exec, Begin
    <2>2. \/ Exit("TEST_ERROR") \/ Exit("CRASHED")
          \/ frames' = [frames EXCEPT ![Len(frames)].running = TRUE] /\ UNCHANGED <<verdict, done>>
      BY <1>9 DEF Exec
    <2>3. frames' = [frames EXCEPT ![Len(frames)].running = TRUE] /\ UNCHANGED <<verdict, done>> => Starts
      BY <1>2, <1>3, <2>1 DEF Starts, document
    <2>4. QED
      BY <1>4, <2>1, <2>2, <2>3 DEF ControlStep
  <1>10. CASE Resume
    <2>1. continuation' = continuation /\ Word(Top.at) # "EXEC"
      BY <1>10 DEF Resume, Begin
    <2>2. \/ Exit("TEST_ERROR") /\ raised' = raised
          \/ RaiseAt(Top.at)
          \/ /\ frames' = [frames EXCEPT ![Len(frames)].running = TRUE]
             /\ UNCHANGED <<verdict, done, raised>>
      BY <1>10 DEF Resume
    <2>3. frames' = [frames EXCEPT ![Len(frames)].running = TRUE] /\ UNCHANGED <<verdict, done, raised>>
              => Starts
      BY <1>2, <1>3, <2>1 DEF Starts, document
    <2>4. QED
      BY <1>4, <1>5, <2>1, <2>2, <2>3 DEF ControlStep
  <1>11. CASE Test
    <2>1. continuation' = continuation /\ Word(Top.at) # "EXEC"
      BY <1>11 DEF Test, Begin
    <2>2. PICK after : after = RunTest(State, Items(Top.at))
      OBVIOUS
    <2>3. after.result \in Outcomes
      BY <1>2, <2>2, TestSound DEF Sound
    <2>4. /\ after.result = "PASS" => Complete /\ UNCHANGED raised
          /\ after.result = "EXIT" => Exit("PASS") /\ UNCHANGED raised
          /\ after.result = "CRASH" => Exit("CRASHED") /\ UNCHANGED raised
          /\ after.result = "ERROR" => RaiseAt(Top.at)
          /\ after.result \in {"FAIL", "TEST_ERROR"} => Exit(after.result) /\ UNCHANGED raised
      BY <1>11, <2>2 DEF Test
    <2>5. \/ Complete /\ raised' = raised
          \/ Exit("PASS") /\ raised' = raised
          \/ Exit("CRASHED") /\ raised' = raised
          \/ RaiseAt(Top.at)
          \/ Exit("FAIL") /\ raised' = raised
          \/ Exit("TEST_ERROR") /\ raised' = raised
      BY <2>3, <2>4 DEF Outcomes
    <2>6. Exit("PASS") /\ raised' = raised => Halts
      BY <1>2, <1>3, <2>1, CommandPasses
    <2>7. QED
      BY <1>4, <1>5, <1>6, <2>1, <2>5, <2>6 DEF ControlStep
  <1>12. QED
    BY <1>7, <1>8, <1>9, <1>10, <1>11

\* The end of a list, and what a program does.
LEMMA ProgramControls ==
    ASSUME CommandInv,
           \/ Continue \/ EndOfList \/ Instruction \/ TvmTransfer
           \/ (\E k \in CallbackIds : Callback(k)) \/ ProgramError \/ Finish
    PROVE  ControlStep
  <1>1. \A rest : ReturnToProgram(rest) /\ InList /\ Len(frames) > 1 => Returns(rest)
    BY DEF ReturnToProgram, Returns
  <1>2. CASE Continue
    <2>1. AtCommand /\ Word(Top.at) = "CONTINUE" /\ begun' = Append(begun, Top.at) /\ InList
      BY <1>2 DEF Continue, AtCommand
    <2>2. CASE Len(frames) > 1
      BY <1>1, <1>2, <2>1, <2>2 DEF Continue, Continues, ControlStep
    <2>3. CASE ~(Len(frames) > 1)
      <3>1. PICK how : how = "CONTINUE"
        OBVIOUS
      <3>2. /\ Exit(how) /\ UNCHANGED document /\ active' = Top.at
            /\ continuation' = next[Top.at] /\ raised' = raised
        BY <1>2, <2>3, <3>1 DEF Continue, Unaffected
      <3>3. QED
        BY <2>1, <3>1, <3>2, CommandHalts DEF ControlStep
    <2>4. QED
      BY <2>2, <2>3
  <1>3. CASE EndOfList
    <2>1. InList /\ Top.at = Nil /\ begun' = begun
      BY <1>3 DEF EndOfList
    <2>2. CASE Len(frames) > 1
      BY <1>1, <1>3, <2>1, <2>2 DEF EndOfList, Ends, ControlStep
    <2>3. CASE ~(Len(frames) > 1)
      <3>1. verdict = "RUNNING" /\ FrameInv
        BY <2>1 DEF InList, CommandInv
      <3>2. {active, continuation, raised} \subseteq 0 .. Len(script) /\ raised = Nil
        BY <3>1 DEF FrameInv
      <3>3. Exit("PASS") /\ UNCHANGED <<document, active, continuation, raised>>
        BY <1>3, <2>3 DEF EndOfList, Unaffected
      <3>4. Halts
        BY <2>1, <3>1, <3>2, <3>3 DEF Halts, Exit, Results, document
      <3>5. QED
        BY <3>4 DEF ControlStep
    <2>4. QED
      BY <2>2, <2>3
  <1>4. CASE Instruction \/ TvmTransfer
    BY <1>4 DEF Instruction, TvmTransfer, document, history, Works, ControlStep
  <1>5. ASSUME NEW k \in CallbackIds, Callback(k)
        PROVE  ControlStep
    <2>1. /\ InProgram /\ continuation' = Nil
          /\ UNCHANGED <<script, next, child, fate, active, verdict, begun, done, raised>>
      BY <1>5 DEF Callback, document, history
    <2>2. CASE child[active] = Nil
      BY <1>5, <2>1, <2>2 DEF Callback, Works, ControlStep
    <2>3. CASE child[active] # Nil
      BY <1>5, <2>1, <2>3 DEF Callback, CallsBack, ControlStep
    <2>4. QED
      BY <2>2, <2>3
  <1>6. CASE ProgramError
    <2>1. InProgram /\ RaiseAt(active) /\ UNCHANGED <<document, active, continuation, begun>>
      BY <1>6 DEF ProgramError
    <2>2. FrameInv /\ verdict = "RUNNING" /\ Top.running /\ active = Top.at
      BY <2>1, RunsBegun DEF CommandInv
    <2>3. {active, continuation, raised} \subseteq 0 .. Len(script)
      BY <2>2 DEF FrameInv
    <2>4. raised' = active /\ verdict' = IF ErrorFollows(active) THEN "PASS" ELSE "FAIL"
      BY <2>1, <2>2 DEF RaiseAt, Exit
    <2>5. verdict' \in Results \ {"RUNNING", "none"} /\ UNCHANGED <<frames, done>>
      BY <2>1, <2>4 DEF Results, RaiseAt, Exit
    <2>6. Halts
      BY <2>1, <2>2, <2>3, <2>4, <2>5 DEF Halts, document
    <2>7. QED
      BY <2>6 DEF ControlStep
  <1>7. CASE Finish
    BY <1>7 DEF Finish, Finishes, document, ControlStep
  <1>8. QED
    BY <1>2, <1>3, <1>4, <1>5, <1>6, <1>7

\* All of them.
LEMMA NextControls ==
    ASSUME CommandInv, MachineInv, Next
    PROVE  ControlStep
  BY PlainControls, MachineControls, ProgramControls DEF Next
-----------------------------------------------------------------------------
(* The invariant, and the theorems.                                         *)

IInv == CommandInv /\ ErrorInv /\ MissingInv /\ MachineInv

\* The document that the interpreter starts with.
LEMMA InitTree ==
    ASSUME Init
    PROVE  TreeInv /\ Len(script) \in Nat /\ Len(script) > 0
  <1>1. PICK s \in Scripts : script = RemoveBlanks(s.text)
    BY DEF Init
  <1>2. PICK text : text = s.text
    OBVIOUS
  <1>3. /\ text \in Seq(TextLine) /\ RemoveBlanks(text) # <<>>
        /\ \A i \in 1 .. Len(text) : LET t == text[i].tok IN
               t # <<>> /\ t[1] = "PROGRAM" /\ Len(t) > 1 => t[2] \in Program
    BY <1>2, ScriptsAssumption
  <1>4. RemoveBlanks(text) \in Seq(CommandLine)
    BY <1>3, RemainingLines
  <1>5. script \in Seq(CommandLine) /\ script # <<>>
    BY <1>1, <1>2, <1>3, <1>4
  <1>6. PICK lines \in Seq(CommandLine) : lines = script
    BY <1>5
  <1>7. lines \in Seq(TextLine) /\ Document(lines)
    BY CommandsDocument
  <1>8. PICK tree : tree = Stratify(lines)
    OBVIOUS
  <1>9. Links(lines, tree)
    BY <1>5, <1>6, <1>7, <1>8, StratifyLinks
  <1>10. next = tree.next /\ child = tree.child /\ fate = tree.fate
    BY <1>6, <1>8 DEF Init
  <1>11. Len(script) \in Nat /\ Len(script) > 0 /\ Node = 1 .. Len(script)
    BY <1>5, EmptySeq DEF Node
  <1>12. next \in [Node -> 0 .. Len(script)] /\ child \in [Node -> 0 .. Len(script)]
    BY <1>6, <1>9, <1>10, <1>11 DEF Links
  <1>13. /\ fate \in {"tree", "rejected", "undefined", "crashed"}
         /\ fate = "tree" <=> Len(script) > 1 /\ WellIndented(script)
    BY <1>6, <1>9, <1>10 DEF Links
  <1>14. fate = "tree" => NextLinked(script, Len(script), [next |-> next])
    BY <1>6, <1>9, <1>10 DEF Links, NextLinked
  <1>15. fate = "tree" => \A n \in Node \ Begun : child[n] = FirstBelow(n)
    BY <1>6, <1>9, <1>10, <1>11 DEF Links, ChildLinked, FirstBelow
  <1>16. verdict # "none" => fate = "tree"
    BY DEF Init
  <1>17. QED
    BY <1>5, <1>11, <1>12, <1>13, <1>14, <1>15, <1>16 DEF TreeInv

\* Nothing has begun at the start, and the first line is reached.
LEMMA InitInvariant ==
    ASSUME Init
    PROVE  IInv
  <1>1. TreeInv /\ Len(script) \in Nat /\ Len(script) > 0 /\ Node = 1 .. Len(script)
    BY InitTree DEF Node
  <1>2. Begun = {} /\ begun = <<>> /\ done = <<>> /\ Range(done) = {} /\ Len(begun) = 0
    BY DEF Init, Begun, Range
  <1>3. raised = Nil /\ continuation = Nil /\ active \in {1, Nil} /\ verdict \in {"RUNNING", "none"}
        /\ (verdict = "RUNNING" <=> fate = "tree")
    BY DEF Init
  <1>4. PICK f : f = [at |-> 1, running |-> FALSE, by |-> 0, spec |-> Nil]
    OBVIOUS
  <1>5. f \in Frames
    BY <1>1, <1>4 DEF Frames, Nil
  <1>6. frames = IF fate = "tree" THEN <<f>> ELSE <<>>
    BY <1>4 DEF Init
  <1>7. frames \in Seq(Frames) /\ (fate = "tree" => Len(frames) = 1 /\ frames[1] = f /\ Top = f /\ frames # <<>>)
    <2>1. CASE fate = "tree"
      BY <1>5, <1>6, <2>1 DEF Top
    <2>2. CASE fate # "tree"
      BY <1>6, <2>2
    <2>3. QED
      BY <2>1, <2>2
  <1>8. fate # "tree" => Len(frames) = 0
    BY <1>6
  <1>9. FrameInv
    <2>1. {active, continuation, raised} \subseteq 0 .. Len(script)
      BY <1>1, <1>3 DEF Nil
    <2>2. \A i \in 1 .. Len(frames) - 1 : frames[i].running /\ frames[i + 1].spec = frames[i].at
      BY <1>7, <1>8
    <2>3. verdict \in Results
      BY <1>3 DEF Results
    <2>4. InProgram => active = Top.at
      BY <1>3, <1>4, <1>7 DEF InProgram
    <2>5. QED
      BY <1>3, <1>7, <2>1, <2>2, <2>3, <2>4 DEF FrameInv
  <1>10. BegunInv
    <2>1. <<>> \in Seq(Node)
      OBVIOUS
    <2>2. QED
      BY <1>2, <2>1 DEF BegunInv
  <1>11. OrderInv
    <2> SUFFICES ASSUME verdict = "RUNNING"
                 PROVE  OrderTop /\ OrderAwaited /\ OrderRunning /\ OrderNested /\ OrderBelow
      BY DEF OrderInv
    <2>1. /\ Len(frames) = 1 /\ frames[1] = f /\ Top = f /\ f.running = FALSE /\ f.at = 1
      BY <1>3, <1>4, <1>7
    <2>2. \A i \in 1 .. Len(frames) : frames[i].running = FALSE
      BY <2>1
    <2>3. Ready(1)
      <3>1. Enc(1) = {}
        BY DEF Enc, Enclosing
      <3>2. QED
        BY <1>1, <1>2, <3>1 DEF Ready
    <2>4. QED
      BY <1>3, <2>1, <2>2, <2>3
         DEF OrderTop, OrderAwaited, OrderRunning, OrderNested, OrderBelow, Inside
  <1>12. ErrorInv
    BY <1>2, <1>3 DEF ErrorInv
  <1>13. MissingInv
    BY <1>2 DEF MissingInv
  <1>14. MachineInv
    BY DEF Init, MachineInv, Blank
  <1>15. QED
    BY <1>1, <1>9, <1>10, <1>11, <1>12, <1>13, <1>14 DEF IInv, CommandInv

\* A step that changes nothing keeps everything.
LEMMA StutterInvariant ==
    ASSUME IInv, UNCHANGED vars
    PROVE  IInv'
  <1>1. /\ script' = script /\ next' = next /\ child' = child /\ fate' = fate /\ frames' = frames
        /\ active' = active /\ continuation' = continuation /\ verdict' = verdict
        /\ begun' = begun /\ done' = done /\ raised' = raised /\ seen' = seen
        /\ real' = real /\ shadow' = shadow /\ callback_id' = callback_id
        /\ tprg' = tprg /\ programs' = programs /\ shadow_memblocks' = shadow_memblocks
    BY DEF vars, document, callback, machine, history
  <1>2. /\ Node' = Node /\ Begun' = Begun /\ Top' = Top /\ Frames' = Frames /\ InProgram' = InProgram
        /\ \A n : Word(n)' = Word(n) /\ Enc(n)' = Enc(n) /\ FirstBelow(n)' = FirstBelow(n)
    BY <1>1 DEF Node, Begun, Top, Frames, InProgram, Word, Enc, FirstBelow
  <1>3. TreeInv'
    BY <1>1, <1>2 DEF IInv, CommandInv, TreeInv
  <1>4. FrameInv'
    BY <1>1, <1>2 DEF IInv, CommandInv, FrameInv
  <1>5. BegunInv'
    BY <1>1, <1>2 DEF IInv, CommandInv, BegunInv
  <1>6. /\ \A n : Ready(n)' <=> Ready(n)
        /\ \A n : Latest(n)' <=> Latest(n)
        /\ \A n : Inside(n)' <=> Inside(n)
    BY <1>1, <1>2 DEF Ready, Latest, Inside
  <1>7. OrderInv'
    BY <1>1, <1>2, <1>6
       DEF IInv, CommandInv, OrderInv, OrderTop, OrderAwaited, OrderRunning, OrderNested, OrderBelow
  <1>8. \A n : ErrorFollows(n)' <=> ErrorFollows(n)
    BY <1>1, <1>2 DEF ErrorFollows
  <1>9. ErrorInv'
    BY <1>1, <1>2, <1>8 DEF IInv, ErrorInv
  <1>10. /\ \A e : Left(e)' = Left(e)
         /\ \A u : Waits(u)' <=> Waits(u)
    BY <1>1, <1>2 DEF Left, Subordinate, Waits
  <1>11. MissingInv'
    BY <1>1, <1>2, <1>6, <1>10 DEF IInv, MissingInv
  <1>12. MachineInv'
    BY <1>1 DEF IInv, MachineInv
  <1>13. QED
    BY <1>3, <1>4, <1>5, <1>7, <1>9, <1>11, <1>12 DEF IInv, CommandInv

\* Every state that the interpreter reaches satisfies the invariant.
THEOREM InterpreterInvariant == Spec => []IInv
  <1>1. Init => IInv
    BY InitInvariant
  <1>2. IInv /\ [Next]_vars => IInv'
    <2> SUFFICES ASSUME IInv, [Next]_vars
                 PROVE  IInv'
      OBVIOUS
    <2>1. CASE Next
      <3>1. CommandInv /\ ErrorInv /\ MissingInv /\ MachineInv
        BY DEF IInv
      <3>2. ControlStep
        BY <2>1, <3>1, NextControls
      <3>3. TreeInv' /\ FrameInv' /\ BegunInv' /\ OrderInv'
        BY <3>1, <3>2, TreeStays, FrameStays, BegunStays, OrderStays
      <3>4. ErrorInv' /\ MissingInv'
        BY <3>1, <3>2, ErrorStays, MissingStays
      <3>5. MachineInv'
        BY <2>1, <3>1, MachineStays
      <3>6. QED
        BY <3>3, <3>4, <3>5 DEF IInv, CommandInv
    <2>2. CASE UNCHANGED vars
      BY <2>2, StutterInvariant
    <2>3. QED
      BY <2>1, <2>2
  <1>3. QED
    BY <1>1, <1>2, PTL DEF Spec

\* TypeOK: the lists of commands and the active command are lines of the script, every
\* list but the innermost waits at a command that runs a program, and TEST never adds
\* or loses a location of the copy, whichever items it has (exec_test_commands,
\* tactyk_test__exec_test, the handlers of base_tests).
THEOREM ShadowKeepsItsShape == Spec => []TypeOK
  <1>1. IInv => TypeOK
    <2> SUFFICES ASSUME IInv
                 PROVE  TypeOK
      OBVIOUS
    <2>1. TreeInv /\ FrameInv /\ BegunInv /\ MachineInv
      BY DEF IInv, CommandInv
    <2>2. Range(next) \subseteq 0 .. Len(script) /\ Range(child) \subseteq 0 .. Len(script)
      BY <2>1 DEF TreeInv, Range
    <2>3. {active, continuation, raised} \cup Range(next) \cup Range(child) \subseteq 0 .. Len(script)
      BY <2>1, <2>2 DEF FrameInv
    <2>4. Range(done) \subseteq Range(begun)
      BY <2>1 DEF BegunInv, Begun
    <2>5. QED
      BY <2>1, <2>3, <2>4 DEF TypeOK, TreeInv, FrameInv, MachineInv
  <1>2. QED
    BY <1>1, InterpreterInvariant, PTL

\* TreeFollowsIndentation: stratify gives every line the next line of its own level and
\* the first line below it, for any text, and accepts a text of more than one line
\* exactly when its indentation has a meaning (tactyk_dblock__stratify).
THEOREM LinksFollowIndentation == Spec => []TreeFollowsIndentation
  <1>1. IInv => TreeFollowsIndentation
    <2> SUFFICES ASSUME IInv
                 PROVE  TreeFollowsIndentation
      OBVIOUS
    <2>1. TreeInv
      BY DEF IInv, CommandInv
    <2>2. Document(script) /\ Node = 1 .. Len(script) /\ Len(script) \in Nat
      BY <2>1, RunningTree
    <2>3. fate = "tree" <=> Len(script) > 1 /\ WellIndented(script)
      BY <2>1 DEF TreeInv
    <2>4. ASSUME begun = <<>>, fate = "tree", NEW n \in 1 .. Len(script)
          PROVE  /\ {next[n]} \ {Nil} = {m \in 1 .. Len(script) : SiblingOf(script, n, m)}
                 /\ child[n] = IF n < Len(script) /\ script[n + 1].ind > script[n].ind THEN n + 1 ELSE Nil
      <3>1. n \in Node /\ n \notin Begun
        BY <2>2, <2>4 DEF Begun, Range
      <3>2. child[n] = FirstBelow(n)
        BY <2>1, <2>4, <3>1 DEF TreeInv
      <3>3. n + 1 - 1 = n
        BY <2>2, <3>1
      <3>4. child[n] = IF n < Len(script) /\ script[n + 1].ind > script[n].ind THEN n + 1 ELSE Nil
        BY <3>2, <3>3 DEF FirstBelow, Deepens
      <3>5. next[n] \in 0 .. Len(script)
        BY <2>1, <3>1 DEF TreeInv
      <3>6. \A m \in Node : next[n] = m <=> SiblingOf(script, n, m)
        <4>1. \A m \in Node : next[n] = m <=> Peers(script, n, m)
          BY <2>1, <2>4, <3>1, RunningTree
        <4>2. \A m \in Node : SiblingOf(script, n, m) <=> Peers(script, n, m)
          BY <2>2, <3>1, PeersAreSiblings
        <4>3. QED
          BY <4>1, <4>2
      <3>7. next[n] = Nil \/ next[n] \in Node
        BY <2>2, <3>5 DEF Nil
      <3>8. Nil \notin Node
        BY <2>2 DEF Nil
      <3>9. {next[n]} \ {Nil} = {m \in Node : SiblingOf(script, n, m)}
        BY <3>6, <3>7, <3>8
      <3>10. QED
        BY <2>2, <3>4, <3>9
    <2>5. QED
      BY <2>3, <2>4 DEF TreeFollowsIndentation, IsTreeOf
  <1>2. QED
    BY <1>1, InterpreterInvariant, PTL

\* A command is answered by the ERROR line that follows it.
LEMMA AnsweredByNext ==
    ASSUME TreeInv, fate = "tree", NEW n \in Node
    PROVE  Answered(n) <=> ErrorFollows(n)
  <1>1. Document(script) /\ Node = 1 .. Len(script) /\ Len(script) \in Nat
    BY RunningTree
  <1>2. next[n] \in 0 .. Len(script)
    BY DEF TreeInv
  <1>3. next[n] # Nil <=> next[n] \in Node
    BY <1>1, <1>2 DEF Nil
  <1>4. \A m \in Node : next[n] = m <=> SiblingOf(script, n, m)
    <2>1. \A m \in Node : next[n] = m <=> Peers(script, n, m)
      BY RunningTree
    <2>2. \A m \in Node : SiblingOf(script, n, m) <=> Peers(script, n, m)
      BY <1>1, PeersAreSiblings
    <2>3. QED
      BY <2>1, <2>2
  <1>5. QED
    BY <1>3, <1>4 DEF Answered, ErrorFollows

\* ErrorsAnswered: a pass because of an error means that the command that was running
\* stands directly before an ERROR line, and no command before an ERROR line completes
\* in a script that passes, in callbacks too (tactyk_test__error_handler).
THEOREM PassAnswersErrors == Spec => []ErrorsAnswered
  <1>1. IInv => ErrorsAnswered
    <2> SUFFICES ASSUME IInv, verdict = "PASS"
                 PROVE  /\ raised # Nil => Answered(raised)
                        /\ \A i \in DOMAIN done : ~Answered(done[i])
      BY DEF ErrorsAnswered
    <2>1. TreeInv /\ FrameInv /\ BegunInv /\ ErrorInv
      BY DEF IInv, CommandInv
    <2>2. fate = "tree"
      BY <2>1 DEF TreeInv
    <2>3. \A n \in Node : Answered(n) <=> ErrorFollows(n)
      BY <2>1, <2>2, AnsweredByNext
    <2>4. raised # Nil => raised \in Node
      <3>1. Len(script) \in Nat /\ Node = 1 .. Len(script)
        BY <2>1, RunningTree
      <3>2. raised \in 0 .. Len(script)
        BY <2>1 DEF FrameInv
      <3>3. QED
        BY <3>1, <3>2 DEF Nil
    <2>5. \A i \in DOMAIN done : done[i] \in Node /\ done[i] \in Range(done)
      BY <2>1 DEF BegunInv, Range
    <2>6. QED
      BY <2>1, <2>3, <2>4, <2>5 DEF ErrorInv
  <1>2. QED
    BY <1>1, InterpreterInvariant, PTL

\* CommandsInOrder: commands begin in document order, at most once, and only after the
\* commands they are below of, however callbacks take lines from the lists
\* (exec_test_commands, tactyk_test__callback).
THEOREM ScriptRunsInOrder == Spec => []CommandsInOrder
  <1>1. IInv => CommandsInOrder
    <2> SUFFICES ASSUME IInv
                 PROVE  CommandsInOrder
      OBVIOUS
    <2>1. BegunInv
      BY DEF IInv, CommandInv
    <2>2. ASSUME NEW i \in 2 .. Len(begun)
          PROVE  begun[i - 1] < begun[i] /\ \A m \in Enclosing(script, begun[i]) : m \in Range(begun)
      <3>1. begun[i - 1] < begun[i] /\ begun \in Seq(Node)
        BY <2>1 DEF BegunInv
      <3>2. begun[i] \in Begun
        BY <3>1 DEF Begun, Range
      <3>3. Enc(begun[i]) \subseteq Begun
        BY <2>1, <3>2 DEF BegunInv
      <3>4. QED
        BY <3>1, <3>3 DEF Enc, Begun
    <2>3. QED
      BY <2>2 DEF CommandsInOrder
  <1>2. QED
    BY <1>1, InterpreterInvariant, PTL

\* MissedOnlyAtEnd: a script that passes has run every line below its EXEC commands,
\* except below the last command it began or inside of a callback it ended in
\* (exec_test_commands, test_continuation).
THEOREM NothingMissed == Spec => []MissedOnlyAtEnd
  <1>1. IInv => MissedOnlyAtEnd
    <2> SUFFICES ASSUME IInv, NEW e \in Range(begun), Word(e) = "EXEC"
                 PROVE  \/ Subordinate(e) \subseteq Range(begun)
                        \/ \A n \in Range(begun) : n <= e \/ e \in Enclosing(script, n)
      BY DEF MissedOnlyAtEnd
    <2>1. MissingInv /\ e \in Begun
      BY DEF IInv, Begun
    <2>2. CASE Left(e) = {}
      BY <2>2 DEF Left, Begun
    <2>3. CASE Left(e) # {}
      <3>1. Latest(e)
        BY <2>1, <2>3 DEF MissingInv
      <3>2. QED
        BY <3>1 DEF Latest, Enc, Begun
    <2>4. QED
      BY <2>2, <2>3
  <1>2. QED
    BY <1>1, InterpreterInvariant, PTL

=============================================================================
