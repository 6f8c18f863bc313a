------------------------ MODULE TestSchedulerProofs ------------------------
(***************************************************************************)
(* For any number of tests and of jobs: where a signalled child executes    *)
(* nothing more, no slot has two writers, every test is accounted for once, *)
(* and a test that passes has reported it itself.                           *)
(***************************************************************************)
EXTENDS TestScheduler, FiniteSetTheorems, TLAPS

Writer(t) == child[t] \in {"forked", "initializing", "running"} /\ CanAct(t)

Started(t) == child[t] # "none"
Judged(t)  == verdicts[t] # {}

Occupied(s) == result[s] # "INACTIVE"

Accounted == {t \in Test : Judged(t)}

\* Tests start in the order of the command line.
InOrder == \A t \in Test : (Started(t) <=> t < tests_started) /\ (Judged(t) => Started(t))

\* An occupied slot holds the test that was forked for it, and only the slot the
\* parent is about to reset holds a test that has been accounted for.
SlotsNamed ==
    \A s \in Slot : Occupied(s) =>
        /\ home[testid[s]] = s /\ Started(testid[s])
        /\ Judged(testid[s]) => pc = "wait" /\ slot = s

\* A test that was started and not accounted for yet has its slot.
PendingInSlot ==
    \A t \in Test : Started(t) /\ ~Judged(t) => Occupied(home[t]) /\ testid[home[t]] = t

\* Whoever can still write has not been accounted for; whoever was sent a signal has.
WritersPending ==
    /\ \A t \in Test : Writer(t) => ~Judged(t)
    /\ \A t \in signalled : Judged(t)

\* What a slot says of the process it belongs to.
ResultsTrue ==
    \A s \in Slot :
        /\ result[s] = "PREPARING" => pc = "await" /\ slot = s
        /\ Occupied(s) /\ child[testid[s]] = "forked" => result[s] = "PREPARING"
        /\ result[s] \in Final /\ ~Judged(testid[s]) =>
              child[testid[s]] \in {"reported", "exited", "reaped"}

\* What the parent read is still of use when it acts.
SeenHolds ==
    pc = "act" =>
        /\ seen \in Final \cup Busy \cup {"INACTIVE"}
        /\ seen = "INACTIVE" <=> ~Occupied(slot)
        /\ seen \in Final => result[slot] = seen

WaitsForJudged == pc = "wait" => Occupied(slot) /\ Judged(testid[slot])

OneVerdictEach ==
    /\ verdicts \in [Test -> SUBSET ({"passed", "failed", "errored"} \X Nat)]
    /\ \A t \in Test : Judged(t) => \E v : verdicts[t] = {v}

Counted ==
    /\ tests_completed = Cardinality(Accounted)
    /\ pc = "done" => tests_completed >= TestCount

IInv == /\ TypeOK /\ InOrder /\ SlotsNamed /\ PendingInSlot /\ WritersPending
        /\ ResultsTrue /\ SeenHolds /\ WaitsForJudged /\ OneVerdictEach /\ Counted

-----------------------------------------------------------------------------
(* Slots, tests and their number.                                           *)

LEMMA SlotType == max_active_jobs \in Nat \ {0} /\ max_active_jobs <= TestCount
BY SchedulerAssumption DEF max_active_jobs

LEMMA TestsFinite == IsFiniteSet(Test) /\ Cardinality(Test) = TestCount
<1>1. TestCount \in Nat \ {0} /\ 0 \in Int /\ TestCount - 1 \in Int
  BY SchedulerAssumption
<1> QED
  BY <1>1, FS_Interval DEF Test

LEMMA AccountedFinite ==
    /\ IsFiniteSet(Accounted) /\ Cardinality(Accounted) \in Nat
    /\ Cardinality(Accounted) <= TestCount
    /\ Cardinality(Accounted) = TestCount => Accounted = Test
<1>1. Accounted \in SUBSET Test
  BY DEF Accounted
<1>2. IsFiniteSet(Accounted) /\ Cardinality(Accounted) <= Cardinality(Test)
       /\ (Cardinality(Test) = Cardinality(Accounted) => Test = Accounted)
  BY <1>1, TestsFinite, FS_Subset
<1>3. Cardinality(Accounted) \in Nat
  BY <1>2, FS_CardinalityType
<1> QED
  BY <1>2, <1>3, TestsFinite

LEMMA Types ==
    ASSUME IInv
    PROVE  /\ child \in [Test -> {"none", "forked", "initializing", "running", "reported",
                                 "exited", "killed", "reaped"}]
           /\ result \in [Slot -> Final \cup Busy \cup {"INACTIVE", "PREPARING"}]
           /\ testid \in [Slot -> Test] /\ home \in [Test -> Slot]
           /\ signalled \subseteq Test /\ slot \in Slot
           /\ verdicts \in [Test -> SUBSET ({"passed", "failed", "errored"} \X Nat)]
BY DEF IInv, TypeOK, OneVerdictEach

\* A step that starts and judges no test, frees no slot and makes no writer.
LEMMA Unmoved ==
    ASSUME IInv, UNCHANGED <<testid, home, tests_started, pc, slot>>,
           signalled' \subseteq signalled,
           \A u \in Test : (Started(u)' <=> Started(u)) /\ (Judged(u)' <=> Judged(u)),
           \A u \in Test : Writer(u)' => Writer(u),
           \A s \in Slot : Occupied(s)' <=> Occupied(s)
    PROVE  InOrder' /\ SlotsNamed' /\ PendingInSlot' /\ WritersPending'
<1>1. InOrder'
  BY DEF IInv, InOrder
<1>2. SlotsNamed'
  BY Types DEF IInv, SlotsNamed
<1>3. PendingInSlot'
  BY Types DEF IInv, PendingInSlot
<1>4. WritersPending'
  BY Types DEF IInv, WritersPending
<1> QED
  BY <1>1, <1>2, <1>3, <1>4

LEMMA InitInv == Init => IInv
<1> SUFFICES ASSUME Init PROVE IInv
  OBVIOUS
<1>1. \A t \in Test : ~Judged(t) /\ ~Started(t) /\ ~Writer(t)
  BY DEF Init, Judged, Started, Writer
<1>2. \A s \in Slot : ~Occupied(s) /\ result[s] = "INACTIVE"
  BY DEF Init, Occupied
<1>3. TypeOK
  BY SlotType, SchedulerAssumption DEF Init, TypeOK, Slot, Test
<1>4. InOrder
  BY <1>1, SchedulerAssumption DEF Init, InOrder, Test
<1>5. Counted
  <2>1. Accounted = {}
    BY <1>1 DEF Accounted
  <2> QED
    BY <2>1, FS_EmptySet DEF Init, Counted
<1>6. OneVerdictEach
  BY <1>1 DEF OneVerdictEach, Init
<1>7. SlotsNamed /\ PendingInSlot /\ WritersPending /\ ResultsTrue /\ SeenHolds /\ WaitsForJudged
  BY <1>1, <1>2 DEF Init, SlotsNamed, PendingInSlot, WritersPending, ResultsTrue, SeenHolds,
                    WaitsForJudged, Final
<1> QED
  BY <1>3, <1>4, <1>5, <1>6, <1>7 DEF IInv

-----------------------------------------------------------------------------
(* The children.                                                            *)

\* A child that may write owns its slot, and the slot has no final result yet.
LEMMA WriterOwns ==
    ASSUME IInv, NEW t \in Test, Writer(t)
    PROVE  /\ home[t] \in Slot /\ testid[home[t]] = t /\ Occupied(home[t])
           /\ Started(t) /\ ~Judged(t) /\ result[home[t]] \notin Final
           /\ pc = "act" /\ slot = home[t] => seen \in Busy
<1>1. home[t] \in Slot /\ Started(t) /\ ~Judged(t)
  BY DEF IInv, TypeOK, Writer, Started, WritersPending
<1>2. testid[home[t]] = t /\ Occupied(home[t])
  BY <1>1 DEF IInv, PendingInSlot
<1>3. result[home[t]] \notin Final
  BY <1>1, <1>2 DEF IInv, ResultsTrue, Writer
<1> QED
  BY <1>1, <1>2, <1>3 DEF IInv, SeenHolds

LEMMA ChildWrites ==
    ASSUME PromptKill, IInv, NEW t \in Test, Writer(t),
           NEW v \in Final \cup Busy, NEW c \in {"initializing", "running", "reported"},
           v \in Final => c = "reported", Become(t, c), Write(t, v)
    PROVE  IInv'
<1>1. /\ child' = [child EXCEPT ![t] = c] /\ result' = [result EXCEPT ![home[t]] = v]
      /\ UNCHANGED <<testid, expired, now, pc, slot, seen, tests_started, tests_completed,
                     verdicts, home, signalled>>
  BY DEF Become, Write, parent, counts
<1>2. /\ home[t] \in Slot /\ testid[home[t]] = t /\ Occupied(home[t])
      /\ Started(t) /\ ~Judged(t) /\ result[home[t]] \notin Final
      /\ pc = "act" /\ slot = home[t] => seen \in Busy
  BY WriterOwns
<1>3. v # "INACTIVE" /\ v # "PREPARING"
  BY DEF Final, Busy
<1>4. TypeOK'
  BY <1>1 DEF IInv, TypeOK, Write
<1>5. \A u \in Test : (Started(u)' <=> Started(u)) /\ (Judged(u)' <=> Judged(u))
  <2>1. c # "none" /\ child[t] # "none"
    BY DEF Writer
  <2> QED
    BY <2>1, <1>1, Types DEF Started, Judged
<1>6. \A u \in Test : Writer(u)' => Writer(u)
  BY <1>1, Types DEF Writer, CanAct
<1>7. \A s \in Slot : (Occupied(s)' <=> Occupied(s)) /\ testid[s] \in Test
  BY <1>1, <1>2, <1>3, Types DEF Occupied
<1>8. InOrder' /\ SlotsNamed' /\ PendingInSlot' /\ WritersPending'
  BY <1>1, <1>5, <1>6, <1>7, Types, Unmoved
<1>9. ResultsTrue'
  <2> SUFFICES ASSUME NEW s \in Slot
               PROVE  /\ result'[s] = "PREPARING" => pc' = "await" /\ slot' = s
                      /\ Occupied(s)' /\ child'[testid'[s]] = "forked" => result'[s] = "PREPARING"
                      /\ result'[s] \in Final /\ ~Judged(testid[s])' =>
                            child'[testid'[s]] \in {"reported", "exited", "reaped"}
    BY <1>1 DEF ResultsTrue
  <2>1. CASE s = home[t]
    BY <2>1, <1>1, <1>2, <1>3 DEF IInv, TypeOK
  <2>2. CASE s # home[t]
    <3>1. result'[s] = result[s] /\ testid'[s] = testid[s] /\ testid[s] \in Test
      BY <2>2, <1>1, <1>7, Types
    <3>2. Occupied(s) => testid[s] # t
      BY <2>2 DEF IInv, SlotsNamed
    <3>3. Occupied(s) => child'[testid[s]] = child[testid[s]]
      BY <3>1, <3>2, <1>1 DEF IInv, TypeOK
    <3>4. result[s] \in Final => Occupied(s)
      BY DEF Final, Occupied
    <3> QED
      BY <3>1, <3>3, <3>4, <1>1, <1>5, <1>7 DEF IInv, ResultsTrue
  <2> QED
    BY <2>1, <2>2
<1>10. SeenHolds' /\ WaitsForJudged'
  <2>1. slot \in Slot
    BY DEF IInv, TypeOK
  <2>2. pc = "act" /\ slot = home[t] => seen \notin Final
    BY <1>2 DEF Busy, Final
  <2>3. slot # home[t] => result'[slot] = result[slot]
    BY <1>1, <2>1, Types
  <2>4. SeenHolds'
    BY <2>1, <2>2, <2>3, <1>1, <1>2, <1>7 DEF IInv, SeenHolds
  <2> QED
    BY <2>1, <2>4, <1>1, <1>5, <1>7, Types DEF IInv, WaitsForJudged
<1>11. OneVerdictEach' /\ Counted'
  BY <1>1 DEF IInv, OneVerdictEach, Counted, Accounted, Judged
<1> QED
  BY <1>4, <1>8, <1>9, <1>10, <1>11 DEF IInv

LEMMA ChildEnds ==
    ASSUME PromptKill, IInv, NEW t \in Test, NEW c \in {"exited", "killed"},
           Live(t), Become(t, c), Silent, signalled' \in {signalled, signalled \ {t}},
           c = "killed" => Judged(t) \/ child[t] # "reported"
    PROVE  IInv'
<1>1. /\ child' = [child EXCEPT ![t] = c]
      /\ UNCHANGED <<result, testid, expired, now, pc, slot, seen, tests_started, tests_completed,
                     verdicts, home>>
  BY DEF Become, Silent, parent, counts
<1>2. TypeOK'
  BY <1>1 DEF IInv, TypeOK
<1>3. \A u \in Test : (Started(u)' <=> Started(u)) /\ (Judged(u)' <=> Judged(u))
  <2>1. child[t] # "none"
    BY DEF Live
  <2> QED
    BY <2>1, <1>1, Types DEF Started, Judged
<1>4. \A s \in Slot : (Occupied(s)' <=> Occupied(s)) /\ testid[s] \in Test
  BY <1>1, Types DEF Occupied
<1>5. InOrder' /\ SlotsNamed' /\ PendingInSlot' /\ WritersPending'
  <2>1. \A u \in Test : Writer(u)' => Writer(u)
    <3> SUFFICES ASSUME NEW u \in Test, Writer(u)' PROVE Writer(u)
      OBVIOUS
    <3>1. u # t
      BY <1>1, Types DEF Writer
    <3> QED
      BY <3>1, <1>1, Types DEF Writer, CanAct
  <2> QED
    BY <2>1, <1>1, <1>3, <1>4, Unmoved
<1>6. ResultsTrue'
  <2>1. \A s \in Slot : /\ child'[testid[s]] = "forked" => child[testid[s]] = "forked"
                        /\ ~Judged(testid[s]) /\ child[testid[s]] \in {"reported", "exited", "reaped"} =>
                              child'[testid[s]] \in {"reported", "exited", "reaped"}
    BY <1>1, <1>4, Types DEF Live
  <2> QED
    BY <2>1, <1>1, <1>3, <1>4 DEF IInv, ResultsTrue
<1>7. SeenHolds' /\ WaitsForJudged'
  BY <1>1, <1>3, <1>4 DEF IInv, TypeOK, SeenHolds, WaitsForJudged
<1>8. OneVerdictEach' /\ Counted'
  BY <1>1 DEF IInv, OneVerdictEach, Counted, Accounted, Judged
<1> QED
  BY <1>2, <1>5, <1>6, <1>7, <1>8 DEF IInv

LEMMA ChildKeeps ==
    ASSUME PromptKill, IInv, NEW t \in Test, Child(t) \/ DieOfSignal(t)
    PROVE  IInv'
<1>1. CASE Initialize(t)
  BY <1>1, ChildWrites DEF Initialize, Writer, Busy, Final
<1>2. CASE RunCommands(t)
  BY <1>2, ChildWrites DEF RunCommands, Writer, Busy, Final
<1>3. ASSUME NEW r \in Final, Report(t, r) PROVE IInv'
  BY <1>3, ChildWrites DEF Report, Writer
<1>4. CASE Exit(t) \/ ExitUnreported(t) \/ DieOfFault(t)
  BY <1>4, ChildEnds DEF Exit, ExitUnreported, DieOfFault, Live
<1>5. CASE DieOfSignal(t)
  <2>1. Judged(t)
    BY <1>5 DEF DieOfSignal, IInv, WritersPending
  <2> QED
    BY <2>1, <1>5, ChildEnds DEF DieOfSignal
<1> QED
  BY <1>1, <1>2, <1>3, <1>4, <1>5 DEF Child

-----------------------------------------------------------------------------
(* The parent.                                                              *)

LEMMA NextSlotType ==
    ASSUME slot \in Slot, NextSlot
    PROVE  slot' \in Slot /\ pc' \in {"poll", "clock"}
BY SlotType DEF NextSlot, Slot

\* What waitpid does to the processes.
OnlyReaps ==
    /\ child' \in [Test -> {"none", "forked", "initializing", "running", "reported",
                            "exited", "killed", "reaped"}]
    /\ \A u \in Test : child'[u] = child[u] \/ (Zombie(u) /\ child'[u] = "reaped")

LEMMA ReapedStay ==
    ASSUME IInv, OnlyReaps, signalled \subseteq signalled'
    PROVE  \A u \in Test :
              /\ Started(u)' <=> Started(u)
              /\ Writer(u)' => Writer(u)
              /\ child'[u] = "forked" => child[u] = "forked"
              /\ child[u] \in {"reported", "exited", "reaped"} =>
                    child'[u] \in {"reported", "exited", "reaped"}
<1> SUFFICES ASSUME NEW u \in Test
             PROVE  /\ Started(u)' <=> Started(u)
                    /\ Writer(u)' => Writer(u)
                    /\ child'[u] = "forked" => child[u] = "forked"
                    /\ child[u] \in {"reported", "exited", "reaped"} =>
                          child'[u] \in {"reported", "exited", "reaped"}
  OBVIOUS
<1>1. CASE child'[u] = child[u]
  BY <1>1 DEF Started, Writer, CanAct
<1>2. CASE Zombie(u) /\ child'[u] = "reaped"
  BY <1>2 DEF Started, Writer, Zombie
<1> QED
  BY <1>1, <1>2 DEF OnlyReaps

\* A child that ended is taken off the process table.
LEMMA OneReaped ==
    ASSUME IInv, NEW t \in Test, child' = [child EXCEPT ![t] = IF Zombie(t) THEN "reaped" ELSE @]
    PROVE  OnlyReaps
<1>1. \A u \in Test : child'[u] = child[u] \/ (Zombie(u) /\ child'[u] = "reaped")
  BY Types
<1>2. child' \in [Test -> {"none", "forked", "initializing", "running", "reported",
                          "exited", "killed", "reaped"}]
  BY Types
<1> QED
  BY <1>1, <1>2 DEF OnlyReaps

\* The parent goes on without judging or starting a test.
LEMMA ParentMoves ==
    ASSUME IInv, pc # "wait", OnlyReaps,
           UNCHANGED <<result, testid, expired, counts, home, signalled>>,
           \A s \in Slot : result[s] # "PREPARING",
           pc' \in {"clock", "poll", "act", "done", "failed"}, slot' \in Slot, now' \subseteq Slot,
           SeenHolds', pc' = "done" => tests_completed >= TestCount
    PROVE  IInv'
<1>1. UNCHANGED <<tests_started, tests_completed, verdicts>>
  BY DEF counts
<1>2. TypeOK'
  BY <1>1 DEF IInv, TypeOK, OnlyReaps
<1>3. /\ \A u \in Test : Judged(u)' <=> Judged(u)
      /\ \A s \in Slot : Occupied(s)' <=> Occupied(s)
  BY <1>1 DEF Judged, Occupied
<1>4. InOrder' /\ PendingInSlot' /\ WritersPending'
  BY <1>1, <1>3, ReapedStay, Types DEF IInv, InOrder, PendingInSlot, WritersPending
<1>5. SlotsNamed'
  BY <1>1, <1>3, ReapedStay, Types DEF IInv, SlotsNamed
<1>6. ResultsTrue'
  BY <1>1, <1>3, ReapedStay, Types DEF IInv, ResultsTrue
<1>7. WaitsForJudged' /\ OneVerdictEach' /\ Counted'
  BY <1>1 DEF IInv, WaitsForJudged, OneVerdictEach, Counted, Accounted, Judged
<1> QED
  BY <1>2, <1>4, <1>5, <1>6, <1>7 DEF IInv

\* While no start is awaited, no slot is being prepared.
LEMMA NonePreparing == ASSUME IInv, pc # "await" PROVE \A s \in Slot : result[s] # "PREPARING"
BY DEF IInv, ResultsTrue

LEMMA ReadClockKeeps == ASSUME IInv, ReadClock PROVE IInv'
<1>1. pc' \in {"poll", "done"} /\ slot' \in Slot /\ now' \subseteq Slot
  <2>1. 1 \in Slot
    BY SlotType DEF Slot
  <2>2. slot \in Slot /\ now \subseteq Slot /\ expired \subseteq Slot
    BY DEF IInv, TypeOK
  <2> QED
    BY <2>1, <2>2 DEF ReadClock
<1>2. pc' = "done" => tests_completed >= TestCount
  BY SchedulerAssumption, SlotType DEF ReadClock, IInv, TypeOK
<1>3. SeenHolds'
  BY <1>1 DEF SeenHolds
<1>4. OnlyReaps
  BY Types DEF ReadClock, OnlyReaps
<1> QED
  BY <1>1, <1>2, <1>3, <1>4, NonePreparing, ParentMoves DEF ReadClock

LEMMA ReadResultKeeps == ASSUME IInv, ReadResult PROVE IInv'
<1>1. slot' \in Slot /\ now' \subseteq Slot /\ slot \in Slot
  BY DEF ReadResult, IInv, TypeOK
<1>2. SeenHolds'
  BY <1>1, Types, NonePreparing DEF ReadResult, SeenHolds, Occupied, Final, Busy
<1>3. OnlyReaps
  BY Types DEF ReadResult, OnlyReaps
<1> QED
  BY <1>1, <1>2, <1>3, NonePreparing, ParentMoves DEF ReadResult

LEMMA AwaitStartKeeps == ASSUME IInv, AwaitStart PROVE IInv'
<1>1. slot' \in Slot /\ pc' \in {"poll", "clock"} /\ now' \subseteq Slot
  BY NextSlotType DEF AwaitStart, IInv, TypeOK
<1>2. \A s \in Slot : result[s] # "PREPARING"
  BY DEF AwaitStart, IInv, ResultsTrue
<1>3. SeenHolds'
  BY <1>1 DEF SeenHolds
<1>4. OnlyReaps
  BY Types DEF AwaitStart, OnlyReaps
<1> QED
  BY <1>1, <1>2, <1>3, <1>4, ParentMoves DEF AwaitStart

LEMMA StartTestKeeps == ASSUME IInv, StartTest PROVE IInv'
<1>1. pc = "act" /\ slot \in Slot /\ ~Occupied(slot) /\ now' = now /\ now \subseteq Slot
  BY DEF StartTest, IInv, TypeOK, SeenHolds
<1>2. CASE ~(tests_started < TestCount)
  <2>1. slot' \in Slot /\ pc' \in {"poll", "clock"}
    BY <1>1, <1>2, NextSlotType DEF StartTest
  <2>2. SeenHolds'
    BY <2>1 DEF SeenHolds
  <2>3. OnlyReaps
    BY <1>2, Types DEF StartTest, OnlyReaps
  <2>4. UNCHANGED <<result, testid, expired, counts, home, signalled>>
    BY <1>2 DEF StartTest, counts
  <2> QED
    BY <1>1, <2>1, <2>2, <2>3, <2>4, NonePreparing, ParentMoves
<1>3. CASE tests_started < TestCount
  <2> DEFINE t == tests_started
  <2>1. /\ testid' = [testid EXCEPT ![slot] = t] /\ result' = [result EXCEPT ![slot] = "PREPARING"]
        /\ expired' = expired \ {slot} /\ tests_started' = t + 1
        /\ child' = [child EXCEPT ![t] = "forked"] /\ home' = [home EXCEPT ![t] = slot]
        /\ pc' = "await" /\ slot' = slot
        /\ UNCHANGED <<seen, now, tests_completed, verdicts, signalled>>
    BY <1>3 DEF StartTest
  <2>2. t \in Test /\ t \in Nat
    BY <1>3, SchedulerAssumption DEF IInv, TypeOK, Test
  <2>3. ~Started(t) /\ ~Judged(t)
    BY <2>2 DEF IInv, InOrder
  <2>4. tests_started' \in 0 .. TestCount
    BY <1>3, <2>1, <2>2, SchedulerAssumption
  <2> HIDE DEF t
  <2>5. TypeOK'
    BY <2>1, <2>2, <2>4, <1>1 DEF IInv, TypeOK
  <2>6. /\ \A u \in Test : (Judged(u)' <=> Judged(u)) /\ (Started(u)' <=> Started(u) \/ u = t)
        /\ \A s \in Slot : Occupied(s)' <=> Occupied(s) \/ s = slot
        /\ \A u \in Test \ {t} : Writer(u)' => Writer(u)
    BY <2>1, <2>2, <1>1, Types DEF Judged, Started, Occupied, Writer, CanAct
  <2>7. InOrder'
    <3>1. \A u \in Test : u < t + 1 <=> u < t \/ u = t
      BY <2>2 DEF Test
    <3>2. \A u \in Test : (Started(u) <=> u < t) /\ (Judged(u) => Started(u))
      BY DEF IInv, InOrder, t
    <3> QED
      BY <3>1, <3>2, <2>1, <2>6 DEF InOrder
  <2>8. SlotsNamed'
    BY <2>1, <2>2, <2>3, <2>6, <1>1, Types DEF IInv, SlotsNamed
  <2>9. PendingInSlot'
    BY <2>1, <2>2, <2>3, <2>6, <1>1, Types DEF IInv, PendingInSlot
  <2>10. WritersPending'
    BY <2>1, <2>2, <2>3, <2>6, Types DEF IInv, WritersPending
  <2>11. ResultsTrue'
    <3>1. \A s \in Slot \ {slot} :
             /\ result'[s] = result[s] /\ testid'[s] = testid[s] /\ testid[s] \in Test
             /\ result[s] # "PREPARING" /\ result[s] \in Final => Occupied(s)
             /\ Occupied(s) => testid[s] # t
      BY <2>1, <2>3, <1>1, Types, NonePreparing DEF IInv, SlotsNamed, Final, Occupied
    <3>2. \A s \in Slot \ {slot} : Occupied(s) => child'[testid[s]] = child[testid[s]]
      BY <3>1, <2>1, Types
    <3>3. result'[slot] = "PREPARING" /\ "PREPARING" \notin Final
      BY <2>1, <1>1, Types DEF Final
    <3> QED
      BY <3>1, <3>2, <3>3, <2>1, <2>6 DEF IInv, ResultsTrue
  <2>12. SeenHolds' /\ WaitsForJudged' /\ OneVerdictEach' /\ Counted'
    BY <2>1 DEF IInv, SeenHolds, WaitsForJudged, OneVerdictEach, Counted, Accounted, Judged
  <2> QED
    BY <2>5, <2>7, <2>8, <2>9, <2>10, <2>11, <2>12 DEF IInv
<1> QED
  BY <1>2, <1>3

-----------------------------------------------------------------------------
(* Accounting for a test.                                                   *)

\* The slot the parent acts on belongs to a test that has not been accounted for.
LEMMA SlotPending ==
    ASSUME IInv, pc = "act", seen # "INACTIVE"
    PROVE  /\ slot \in Slot /\ testid[slot] \in Test /\ Occupied(slot)
           /\ home[testid[slot]] = slot /\ ~Judged(testid[slot]) /\ Started(testid[slot])
           /\ seen \in Final \cup Busy
BY Types DEF IInv, SeenHolds, SlotsNamed

LEMMA AccountJudges ==
    ASSUME IInv, testid[slot] \in Test, ~Judged(testid[slot]),
           NEW kind \in {"passed", "failed", "errored"}, Account(kind)
    PROVE  /\ \A u \in Test : Judged(u)' <=> Judged(u) \/ u = testid[slot]
           /\ OneVerdictEach'
           /\ tests_completed' = Cardinality(Accounted')
           /\ tests_completed' \in 0 .. TestCount + max_active_jobs
           /\ tests_started' = tests_started
<1> DEFINE t == testid[slot]
           v == <<kind, tests_completed>>
<1>1. verdicts' = [verdicts EXCEPT ![t] = @ \cup {v}] /\ tests_completed' = tests_completed + 1
      /\ tests_started' = tests_started
  BY DEF Account
<1>2. tests_completed \in Nat /\ v \in {"passed", "failed", "errored"} \X Nat
  BY SlotType, SchedulerAssumption DEF IInv, TypeOK
<1>3. verdicts[t] = {}
  BY DEF Judged
<1> HIDE DEF t, v
<1>4. t \in Test
  BY DEF t
<1>5. verdicts'[t] = {v} /\ \A u \in Test \ {t} : verdicts'[u] = verdicts[u]
  BY <1>1, <1>3, <1>4, Types
<1>6. \A u \in Test : Judged(u)' <=> Judged(u) \/ u = t
  BY <1>3, <1>5 DEF Judged
<1>7. OneVerdictEach'
  <2>1. verdicts' \in [Test -> SUBSET ({"passed", "failed", "errored"} \X Nat)]
    BY <1>1, <1>2, <1>3, <1>4, Types
  <2>2. \A u \in Test : Judged(u)' => \E w : verdicts'[u] = {w}
    BY <1>5, <1>6 DEF IInv, OneVerdictEach
  <2> QED
    BY <2>1, <2>2 DEF OneVerdictEach
<1>8. tests_completed' = Cardinality(Accounted') /\ tests_completed' <= TestCount
  <2>1. Accounted' = Accounted \cup {t} /\ t \notin Accounted
    BY <1>3, <1>4, <1>6 DEF Accounted, Judged
  <2>2. Cardinality(Accounted') = Cardinality(Accounted) + 1
    BY <2>1, AccountedFinite, FS_AddElement
  <2>3. tests_completed = Cardinality(Accounted)
    BY DEF IInv, Counted
  <2>4. Accounted' \in SUBSET Test
    BY DEF Accounted
  <2>5. Cardinality(Accounted') <= TestCount
    BY <2>4, TestsFinite, FS_Subset
  <2> QED
    BY <2>2, <2>3, <2>5, <1>1
<1>9. tests_completed' \in 0 .. TestCount + max_active_jobs
  BY <1>1, <1>2, <1>8, SlotType, SchedulerAssumption
<1> QED
  BY <1>1, <1>6, <1>7, <1>8, <1>9 DEF t

\* The slot of a test that is accounted for, and can write no more, is freed.
LEMMA SlotFreed ==
    ASSUME IInv, pc \in {"act", "wait"}, Occupied(slot), ~Writer(testid[slot]),
           \A u \in Test : Judged(u)' <=> Judged(u) \/ u = testid[slot],
           Reset, NextSlot, OnlyReaps, UNCHANGED <<testid, home, signalled, tests_started>>
    PROVE  /\ InOrder' /\ SlotsNamed' /\ PendingInSlot' /\ WritersPending'
           /\ ResultsTrue' /\ SeenHolds' /\ WaitsForJudged'
<1> DEFINE t == testid[slot]
<1>1. slot \in Slot /\ t \in Test /\ home[t] = slot /\ Started(t)
  BY Types DEF IInv, SlotsNamed
<1>2. slot' \in Slot /\ pc' \in {"poll", "clock"}
  BY <1>1, NextSlotType
<1>3. result' = [result EXCEPT ![slot] = "INACTIVE"]
  BY DEF Reset
<1>4. /\ \A s \in Slot : s = slot => ~Occupied(s)'
      /\ \A s \in Slot \ {slot} : (Occupied(s)' <=> Occupied(s)) /\ result'[s] = result[s]
  BY <1>1, <1>3, Types DEF Occupied
<1>5. \A s \in Slot \ {slot} : Occupied(s) => testid[s] \in Test /\ testid[s] # t /\ ~Judged(testid[s])'
  <2>1. \A s \in Slot \ {slot} : Occupied(s) => testid[s] \in Test /\ testid[s] # t /\ ~Judged(testid[s])
    BY <1>1, Types DEF IInv, SlotsNamed
  <2> QED
    BY <2>1
<1>6. InOrder'
  BY <1>1, ReapedStay DEF IInv, InOrder
<1>7. SlotsNamed'
  <2> SUFFICES ASSUME NEW s \in Slot, Occupied(s)'
               PROVE  home[testid[s]] = s /\ Started(testid[s])' /\ ~Judged(testid[s])'
    BY DEF SlotsNamed
  <2>1. s # slot /\ Occupied(s)
    BY <1>4
  <2>2. home[testid[s]] = s /\ Started(testid[s]) /\ testid[s] \in Test
    BY <2>1, Types DEF IInv, SlotsNamed
  <2>3. Started(testid[s])'
    BY <2>2, ReapedStay DEF Started
  <2> QED
    BY <2>1, <2>2, <2>3, <1>5
<1>8. PendingInSlot'
  <2> SUFFICES ASSUME NEW u \in Test, Started(u)', ~Judged(u)'
               PROVE  Occupied(home[u])' /\ testid[home[u]] = u
    BY DEF PendingInSlot
  <2>1. Started(u) /\ ~Judged(u) /\ u # t
    BY ReapedStay
  <2>2. Occupied(home[u]) /\ testid[home[u]] = u /\ home[u] \in Slot
    BY <2>1, Types DEF IInv, PendingInSlot
  <2> QED
    BY <2>1, <2>2, <1>4
<1>9. WritersPending'
  BY ReapedStay, Types DEF IInv, WritersPending
<1>10. ResultsTrue'
  <2>1. "INACTIVE" # "PREPARING" /\ "INACTIVE" \notin Final /\ result'[slot] = "INACTIVE"
    BY <1>1, <1>3, Types DEF Final
  <2>2. \A s \in Slot : result[s] # "PREPARING"
    BY NonePreparing
  <2> SUFFICES ASSUME NEW s \in Slot, s # slot
               PROVE  /\ Occupied(s)' /\ child'[testid[s]] = "forked" => result'[s] = "PREPARING"
                      /\ result'[s] \in Final /\ ~Judged(testid[s])' =>
                            child'[testid[s]] \in {"reported", "exited", "reaped"}
                      /\ result'[s] # "PREPARING"
    BY <2>1, <1>4 DEF ResultsTrue
  <2>3. result[s] \in Final => Occupied(s)
    BY DEF Final, Occupied
  <2>4. Occupied(s) => testid[s] \in Test /\ ~Judged(testid[s])
    BY <1>5
  <2> QED
    BY <2>2, <2>3, <2>4, <1>4, ReapedStay DEF IInv, ResultsTrue
<1>11. SeenHolds' /\ WaitsForJudged'
  BY <1>2 DEF SeenHolds, WaitsForJudged
<1> QED
  BY <1>6, <1>7, <1>8, <1>9, <1>10, <1>11

LEMMA AccountResultKeeps == ASSUME IInv, AccountResult PROVE IInv'
<1>1. pc = "act" /\ seen # "INACTIVE" /\ seen \notin Busy
  BY DEF AccountResult
<1>2. /\ slot \in Slot /\ testid[slot] \in Test /\ Occupied(slot)
      /\ home[testid[slot]] = slot /\ ~Judged(testid[slot]) /\ seen \in Final
  BY <1>1, SlotPending
<1>3. result[slot] \in Final
  BY <1>1, <1>2 DEF IInv, SeenHolds
<1>4. ~Writer(testid[slot])
  BY <1>2, <1>3 DEF IInv, ResultsTrue, Writer
<1>5. /\ \A u \in Test : Judged(u)' <=> Judged(u) \/ u = testid[slot]
      /\ OneVerdictEach'
      /\ tests_completed' = Cardinality(Accounted')
      /\ tests_completed' \in 0 .. TestCount + max_active_jobs
      /\ tests_started' = tests_started
  BY <1>2, AccountJudges DEF AccountResult, Kind
<1>6. OnlyReaps
  BY Types DEF AccountResult, OnlyReaps
<1>7. /\ InOrder' /\ SlotsNamed' /\ PendingInSlot' /\ WritersPending'
      /\ ResultsTrue' /\ SeenHolds' /\ WaitsForJudged'
  BY <1>1, <1>2, <1>4, <1>5, <1>6, SlotFreed DEF AccountResult
<1>8. slot' \in Slot /\ pc' \in {"poll", "clock"}
  BY <1>2, NextSlotType DEF AccountResult
<1>9. TypeOK'
  BY <1>2, <1>5, <1>8 DEF AccountResult, IInv, TypeOK, Reset
<1>10. Counted'
  BY <1>5, <1>8 DEF Counted
<1> QED
  BY <1>5, <1>7, <1>9, <1>10 DEF IInv

LEMMA CheckProcessKeeps == ASSUME PromptKill, IInv, CheckProcess PROVE IInv'
<1> DEFINE t == testid[slot]
<1>1. /\ pc = "act" /\ seen # "INACTIVE" /\ seen \in Busy
      /\ child' = [child EXCEPT ![t] = IF Zombie(t) THEN "reaped" ELSE @]
      /\ UNCHANGED <<seen, now, testid, expired, home>>
  BY DEF CheckProcess, Busy
<1>2. slot \in Slot /\ t \in Test /\ Occupied(slot) /\ home[t] = slot /\ ~Judged(t)
  BY <1>1, SlotPending
<1>3. OnlyReaps
  BY <1>1, <1>2, OneReaped
<1>4. CASE child[t] = "killed"
  <2>1. Account("failed") /\ Reset /\ NextSlot /\ UNCHANGED signalled
    BY <1>4 DEF CheckProcess
  <2>2. /\ \A u \in Test : Judged(u)' <=> Judged(u) \/ u = t
        /\ OneVerdictEach'
        /\ tests_completed' = Cardinality(Accounted')
        /\ tests_completed' \in 0 .. TestCount + max_active_jobs
        /\ tests_started' = tests_started
    BY <1>2, <2>1, AccountJudges
  <2>3. ~Writer(t)
    BY <1>4 DEF Writer
  <2>4. /\ InOrder' /\ SlotsNamed' /\ PendingInSlot' /\ WritersPending'
        /\ ResultsTrue' /\ SeenHolds' /\ WaitsForJudged'
    BY <1>1, <1>2, <1>3, <2>1, <2>2, <2>3, SlotFreed
  <2>5. slot' \in Slot /\ pc' \in {"poll", "clock"}
    BY <1>2, <2>1, NextSlotType
  <2>6. TypeOK'
    BY <1>1, <1>2, <1>3, <2>1, <2>2, <2>5 DEF IInv, TypeOK, Reset, OnlyReaps
  <2>7. Counted'
    BY <2>2, <2>5 DEF Counted
  <2> QED
    BY <2>2, <2>4, <2>6, <2>7 DEF IInv
<1>5. CASE child[t] # "killed" /\ TooOld
  <2>1. /\ Account("failed") /\ pc' = "wait" /\ UNCHANGED <<result, slot>>
        /\ signalled' = signalled \cup (IF Live(t) THEN {t} ELSE {})
    BY <1>5 DEF CheckProcess, Signal
  <2>2. /\ \A u \in Test : Judged(u)' <=> Judged(u) \/ u = t
        /\ OneVerdictEach'
        /\ tests_completed' = Cardinality(Accounted')
        /\ tests_completed' \in 0 .. TestCount + max_active_jobs
        /\ tests_started' = tests_started
    BY <1>2, <2>1, AccountJudges
  <2>3. signalled \subseteq signalled' /\ signalled' \subseteq signalled \cup {t}
    BY <2>1
  <2> HIDE DEF t
  <2>4. \A s \in Slot : (Occupied(s)' <=> Occupied(s)) /\ testid[s] \in Test
    BY <2>1, Types DEF Occupied
  <2>5. TypeOK'
    BY <1>1, <1>2, <1>3, <2>1, <2>2, <2>3 DEF IInv, TypeOK, OnlyReaps
  <2>6. InOrder'
    BY <1>1, <1>3, <2>2, <2>3, SlotPending, ReapedStay DEF IInv, InOrder, t
  <2>7. SlotsNamed'
    <3> SUFFICES ASSUME NEW s \in Slot, Occupied(s)'
                 PROVE  home[testid[s]] = s /\ Started(testid[s])' /\ (Judged(testid[s])' => slot = s)
      BY <1>1, <2>1 DEF SlotsNamed
    <3>1. home[testid[s]] = s /\ Started(testid[s]) /\ ~Judged(testid[s])
      BY <1>1, <2>4 DEF IInv, SlotsNamed
    <3>2. Started(testid[s])' /\ (Judged(testid[s])' => testid[s] = t)
      BY <3>1, <1>1, <1>3, <2>2, <2>3, <2>4, ReapedStay DEF Started, Judged
    <3> QED
      BY <3>1, <3>2, <1>2
  <2>8. PendingInSlot'
    <3> SUFFICES ASSUME NEW u \in Test, Started(u)', ~Judged(u)'
                 PROVE  Occupied(home[u])' /\ testid[home[u]] = u
      BY <1>1 DEF PendingInSlot
    <3>1. Started(u) /\ ~Judged(u)
      BY <1>3, <2>2, <2>3, ReapedStay
    <3>2. Occupied(home[u]) /\ testid[home[u]] = u
      BY <3>1 DEF IInv, PendingInSlot
    <3> QED
      BY <3>2, <1>1, <2>1 DEF Occupied
  <2>9. WritersPending'
    <3>1. ~(child'[t] \in {"forked", "initializing", "running"} /\ (t \notin signalled'))
      BY <1>2, <1>3, <2>1 DEF OnlyReaps, Live
    <3>2. \A u \in Test : Writer(u)' => Writer(u) /\ u # t
      BY <3>1, <1>3, <2>3, ReapedStay DEF Writer, CanAct
    <3>3. \A u \in Test : Writer(u)' => ~Judged(u)'
      BY <3>2, <2>2 DEF IInv, WritersPending
    <3>4. \A u \in signalled' : Judged(u)'
      BY <1>2, <2>2, <2>3, Types DEF IInv, WritersPending
    <3> QED
      BY <3>3, <3>4 DEF WritersPending
  <2>10. ResultsTrue'
    <3> SUFFICES ASSUME NEW s \in Slot
                 PROVE  /\ Occupied(s)' /\ child'[testid[s]] = "forked" => result[s] = "PREPARING"
                        /\ result[s] \in Final /\ ~Judged(testid[s])' =>
                              child'[testid[s]] \in {"reported", "exited", "reaped"}
                        /\ result[s] # "PREPARING"
      BY <1>1, <2>1 DEF ResultsTrue
    <3>1. ~Judged(testid[s])' => ~Judged(testid[s])
      BY <1>1, <2>2, <2>4 DEF Judged
    <3> QED
      BY <3>1, <1>1, <1>3, <2>3, <2>4, NonePreparing, ReapedStay DEF IInv, ResultsTrue
  <2>11. SeenHolds' /\ WaitsForJudged' /\ Counted'
    BY <1>1, <1>2, <2>1, <2>2, <2>4 DEF SeenHolds, WaitsForJudged, Counted, Occupied, Judged, t
  <2> QED
    BY <2>2, <2>5, <2>6, <2>7, <2>8, <2>9, <2>10, <2>11 DEF IInv
<1>6. CASE child[t] # "killed" /\ ~TooOld
  <2>1. NextSlot /\ UNCHANGED <<counts, result, signalled>>
    BY <1>6 DEF CheckProcess
  <2>2. slot' \in Slot /\ pc' \in {"poll", "clock"} /\ now' \subseteq Slot
    BY <1>1, <1>2, <2>1, NextSlotType DEF IInv, TypeOK
  <2>3. SeenHolds'
    BY <2>2 DEF SeenHolds
  <2> QED
    BY <1>1, <1>3, <2>1, <2>2, <2>3, NonePreparing, ParentMoves
<1> QED
  BY <1>4, <1>5, <1>6

LEMMA WaitAnyChildKeeps == ASSUME IInv, WaitAnyChild PROVE IInv'
<1>1. /\ pc = "wait" /\ Reset /\ NextSlot
      /\ UNCHANGED <<seen, now, testid, expired, tests_started, tests_completed, verdicts,
                     home, signalled>>
  BY DEF WaitAnyChild, counts
<1>2. slot \in Slot /\ testid[slot] \in Test /\ Occupied(slot) /\ Judged(testid[slot])
  BY <1>1, Types DEF IInv, WaitsForJudged
<1>3. ~Writer(testid[slot])
  BY <1>2 DEF IInv, WritersPending
<1>4. OnlyReaps
  <2>1. CASE UNCHANGED child
    BY <2>1, Types DEF OnlyReaps
  <2>2. ASSUME NEW t \in Test, Zombie(t), child' = [child EXCEPT ![t] = "reaped"] PROVE OnlyReaps
    BY <2>2, OneReaped
  <2> QED
    BY <2>1, <2>2 DEF WaitAnyChild
<1>5. \A u \in Test : Judged(u)' <=> Judged(u) \/ u = testid[slot]
  BY <1>1, <1>2 DEF Judged
<1>6. /\ InOrder' /\ SlotsNamed' /\ PendingInSlot' /\ WritersPending'
      /\ ResultsTrue' /\ SeenHolds' /\ WaitsForJudged'
  BY <1>1, <1>2, <1>3, <1>4, <1>5, SlotFreed
<1>7. slot' \in Slot /\ pc' \in {"poll", "clock"}
  BY <1>1, <1>2, NextSlotType
<1>8. TypeOK'
  BY <1>1, <1>2, <1>4, <1>7 DEF IInv, TypeOK, Reset, OnlyReaps
<1>9. OneVerdictEach' /\ Counted'
  BY <1>1, <1>7 DEF IInv, OneVerdictEach, Counted, Accounted, Judged
<1> QED
  BY <1>6, <1>8, <1>9 DEF IInv

LEMMA GrowOldKeeps == ASSUME IInv, NEW s \in Slot, GrowOld(s) PROVE IInv'
<1>1. /\ expired' = expired \cup {s}
      /\ UNCHANGED <<result, testid, now, pc, slot, seen, tests_started, tests_completed, verdicts,
                     child, home, signalled>>
  BY DEF GrowOld, parent, counts
<1>2. TypeOK'
  BY <1>1 DEF IInv, TypeOK
<1>3. InOrder' /\ SlotsNamed' /\ PendingInSlot' /\ WritersPending'
  BY <1>1, Unmoved DEF Started, Judged, Writer, CanAct, Occupied
<1>4. ResultsTrue' /\ SeenHolds' /\ WaitsForJudged' /\ OneVerdictEach' /\ Counted'
  BY <1>1 DEF IInv, ResultsTrue, SeenHolds, WaitsForJudged, OneVerdictEach, Counted, Accounted,
              Judged, Occupied
<1> QED
  BY <1>2, <1>3, <1>4 DEF IInv

-----------------------------------------------------------------------------
(* What follows for every run of the shell.                                 *)

LEMMA ParentKeeps == ASSUME PromptKill, IInv, Parent PROVE IInv'
BY ReadClockKeeps, ReadResultKeeps, StartTestKeeps, AwaitStartKeeps, AccountResultKeeps,
   CheckProcessKeeps, WaitAnyChildKeeps DEF Parent

LEMMA ForkFailsKeeps == ASSUME IInv, ForkFails PROVE IInv'
<1>1. /\ pc = "act" /\ pc' = "failed"
      /\ UNCHANGED <<slot, seen, now, result, testid, expired, counts, child, home, signalled>>
  BY DEF ForkFails
<1>2. OnlyReaps
  BY <1>1, Types DEF OnlyReaps
<1>3. slot' \in Slot /\ now' \subseteq Slot /\ SeenHolds'
  BY <1>1 DEF IInv, TypeOK, SeenHolds
<1> QED
  BY <1>1, <1>2, <1>3, NonePreparing, ParentMoves

LEMMA StepKeeps == ASSUME PromptKill, IInv, [Next]_vars PROVE IInv'
<1>1. CASE UNCHANGED vars
  BY <1>1 DEF vars, parent, counts, IInv, TypeOK, InOrder, SlotsNamed, PendingInSlot, WritersPending,
              ResultsTrue, SeenHolds, WaitsForJudged, OneVerdictEach, Counted, Accounted,
              Started, Judged, Occupied, Writer, CanAct
<1>2. CASE Next
  BY <1>2, ParentKeeps, ForkFailsKeeps, ChildKeeps, GrowOldKeeps DEF Next
<1> QED
  BY <1>1, <1>2

LEMMA InvKept == Spec => [](PromptKill => IInv)
<1>1. Init => (PromptKill => IInv)
  BY InitInv
<1>2. (PromptKill => IInv) /\ [Next]_vars => (PromptKill => IInv)'
  BY StepKeeps
<1> QED
  BY <1>1, <1>2, PTL DEF Spec

\* For any number of tests and jobs, the shell's table and its counters stay in
\* range: no more tests are accounted for than there are.
THEOREM SchedulerTyped == Spec => [](PromptKill => TypeOK)
<1>1. (PromptKill => IInv) => (PromptKill => TypeOK)
  BY DEF IInv
<1> QED
  BY <1>1, InvKept, PTL

\* However children and parent interleave, and whatever dies or hangs, no two
\* children that can still write share a slot.
THEOREM NoTwoWriters == Spec => [](PromptKill => OneWriterPerSlot)
<1>1. (PromptKill => IInv) => (PromptKill => OneWriterPerSlot)
  <2> SUFFICES ASSUME PromptKill, IInv, NEW t \in Test, NEW u \in Test,
                      t # u, home[t] = home[u], Writer(t), Writer(u)
               PROVE  FALSE
    BY DEF OneWriterPerSlot, Writer
  <2> QED
    BY WriterOwns
<1> QED
  BY <1>1, InvKept, PTL

\* When the shell prints its totals, it has accounted for every test once.
THEOREM AllAccounted == Spec => [](PromptKill => EachTestAccountedOnce)
<1>1. (PromptKill => IInv) => (PromptKill => EachTestAccountedOnce)
  <2> SUFFICES ASSUME IInv, pc = "done", NEW t \in Test
               PROVE  Cardinality(verdicts[t]) = 1
    BY DEF EachTestAccountedOnce
  <2>1. Cardinality(Accounted) >= TestCount
    BY DEF IInv, Counted
  <2>2. Accounted = Test
    BY <2>1, AccountedFinite, SchedulerAssumption
  <2>3. PICK v : verdicts[t] = {v}
    BY <2>2 DEF IInv, OneVerdictEach, Accounted
  <2> QED
    BY <2>3, FS_Singleton
<1> QED
  BY <1>1, InvKept, PTL

\* A test passes only on the report of its own process, never on what an earlier
\* test left in the slot.
THEOREM PassesEarned == ASSUME PromptKill PROVE Spec => PassIsEarned
<1> DEFINE Earned == AccountResult /\ seen = "PASS" =>
                        child[testid[slot]] \in {"reported", "exited", "reaped"}
<1>1. (PromptKill => IInv) => Earned
  <2> SUFFICES ASSUME IInv, AccountResult, seen = "PASS"
               PROVE  child[testid[slot]] \in {"reported", "exited", "reaped"}
    OBVIOUS
  <2>1. pc = "act" /\ seen \in Final
    BY DEF AccountResult, Final
  <2>2. slot \in Slot /\ ~Judged(testid[slot]) /\ result[slot] \in Final
    BY <2>1, SlotPending DEF IInv, SeenHolds, Final
  <2> QED
    BY <2>2 DEF IInv, ResultsTrue
<1>2. Spec => [][Earned]_vars
  BY <1>1, InvKept, PTL DEF Spec
<1> QED
  BY <1>2 DEF PassIsEarned
=============================================================================
