---------------------------- MODULE TestScheduler ----------------------------
(***************************************************************************)
(* The test shell: a parent that polls one shared-memory slot per job,     *)
(* forks a child for each test, and accounts for the test when the child   *)
(* has written a result, was terminated by a signal, or has run too long.  *)
(* Parent and children run concurrently; a child writes test_result at any *)
(* time, and the parent reads it once per poll and acts on what it read.   *)
(***************************************************************************)
EXTENDS Naturals, FiniteSets

CONSTANTS
    TestCount,    \* test files on the command line
    JobsArgument, \* the value of --jobs
    PromptKill    \* TRUE: a signalled child executes nothing more

ASSUME SchedulerAssumption ==
    /\ TestCount \in Nat \ {0}
    /\ JobsArgument \in Nat
    /\ PromptKill \in BOOLEAN

VARIABLES
    tests_started, tests_completed,
    result,    \* tstate_list[s]->test_result
    testid,    \* tstate_list[s]->testid; the child of test t has pid t
    expired,   \* slots whose test is max_age old
    now,       \* slots that were expired when the poll read the clock
    pc, slot, seen,     \* the parent: control point, slot polled, test_result it read
    child,     \* state of each test's process
    home,      \* the slot whose shared memory each child was forked with
    signalled, \* children with a pending signal
    verdicts   \* history: what each test was accounted as

parent == <<pc, slot, seen, now>>
counts == <<tests_started, tests_completed, verdicts>>
vars   == <<result, testid, expired, parent, counts, child, home, signalled>>

Test == 0 .. TestCount - 1

max_active_jobs == IF JobsArgument >= TestCount THEN TestCount
                   ELSE IF JobsArgument = 0 THEN 1 ELSE JobsArgument
Slot == 1 .. max_active_jobs

Final == {"PASS", "FAIL", "TEST_ERROR", "CONTINUE"}
Busy  == {"INITIALIZING", "RUNNING"}

Live(t)   == child[t] \in {"forked", "initializing", "running", "reported"}
Zombie(t) == child[t] \in {"exited", "killed"}

Init ==
    /\ tests_started = 0 /\ tests_completed = 0
    /\ result = [s \in Slot |-> "INACTIVE"]
    /\ testid = [s \in Slot |-> 0]
    /\ expired = {} /\ now = {}
    /\ pc = "clock" /\ slot = 1 /\ seen = "INACTIVE"
    /\ child = [t \in Test |-> "none"]
    /\ home = [t \in Test |-> 1]
    /\ signalled = {}
    /\ verdicts = [t \in Test |-> {}]

-----------------------------------------------------------------------------
(* The parent.                                                              *)

\* The head of the while loop, where time() is read once for all slots.
ReadClock ==
    /\ pc = "clock"
    /\ IF tests_completed < TestCount
       THEN pc' = "poll" /\ slot' = 1 /\ now' = expired
       ELSE pc' = "done" /\ UNCHANGED <<slot, now>>
    /\ UNCHANGED <<result, testid, expired, seen, counts, child, home, signalled>>

\* Mutant: the loop runs one slot too far.
NextSlotTooFar ==
    IF slot <= max_active_jobs THEN pc' = "poll" /\ slot' = slot + 1
                               ELSE pc' = "clock" /\ slot' = 1

NextSlot ==
    IF slot < max_active_jobs THEN pc' = "poll" /\ slot' = slot + 1
                              ELSE pc' = "clock" /\ slot' = 1

ReadResult ==
    /\ pc = "poll"
    /\ seen' = result[slot]
    /\ pc' = "act"
    /\ UNCHANGED <<slot, now, result, testid, expired, counts, child, home, signalled>>

\* tactyk_test__prepare, fork, and on to tactyk_test__await_start.
StartTest ==
    /\ pc = "act" /\ seen = "INACTIVE"
    /\ IF tests_started < TestCount
       THEN /\ testid' = [testid EXCEPT ![slot] = tests_started]
            /\ result' = [result EXCEPT ![slot] = "PREPARING"]
            /\ expired' = expired \ {slot}
            /\ tests_started' = tests_started + 1
            /\ child' = [child EXCEPT ![tests_started] = "forked"]
            /\ home' = [home EXCEPT ![tests_started] = slot]
            /\ pc' = "await"
            /\ UNCHANGED slot
       ELSE /\ NextSlot
            /\ UNCHANGED <<testid, result, expired, tests_started, child, home>>
    /\ UNCHANGED <<seen, now, tests_completed, verdicts, signalled>>

\* fork may fail, and then the shell exits at once.  What prepare wrote into the
\* slot is read by nobody any more.
ForkFails ==
    /\ pc = "act" /\ seen = "INACTIVE" /\ tests_started < TestCount
    /\ pc' = "failed"
    /\ UNCHANGED <<slot, seen, now, result, testid, expired, counts, child, home, signalled>>

AwaitStart ==
    /\ pc = "await"
    /\ result[slot] # "PREPARING"
    /\ NextSlot
    /\ UNCHANGED <<seen, now, result, testid, expired, counts, child, home, signalled>>

\* One more test completed: a counter goes up and a line is written to the log.
Account(kind) ==
    /\ tests_completed' = tests_completed + 1
    /\ verdicts' = [verdicts EXCEPT ![testid[slot]] = @ \cup {<<kind, tests_completed>>}]
    /\ UNCHANGED tests_started

Kind(r) == CASE r = "PASS" -> "passed" [] r = "FAIL" -> "failed" [] OTHER -> "errored"

\* Mutant: an accounted slot keeps its result.
ResetForgotten == UNCHANGED result

\* tactyk_test__reset_state.
Reset == result' = [result EXCEPT ![slot] = "INACTIVE"]

AccountResult ==
    /\ pc = "act" /\ seen \notin Busy \cup {"INACTIVE"}
    /\ Account(Kind(seen))
    /\ Reset
    /\ NextSlot
    /\ UNCHANGED <<seen, now, testid, expired, child, home, signalled>>

\* Mutant: the child is left running.
SignalForgotten(t) == UNCHANGED signalled

Signal(t) == signalled' = signalled \cup (IF Live(t) THEN {t} ELSE {})

\* Mutant: a test may run for ever.
NeverTooOld == FALSE

TooOld == slot \in now

\* waitpid(pid, &status, WNOHANG) on a busy slot, then the test of the age with
\* the time read at the head of the loop, then kill.
CheckProcess ==
    LET t == testid[slot] IN
    /\ pc = "act" /\ seen \in Busy
    /\ child' = [child EXCEPT ![t] = IF Zombie(t) THEN "reaped" ELSE @]
    /\ CASE child[t] = "killed" ->
              Account("failed") /\ Reset /\ NextSlot /\ UNCHANGED signalled
         [] child[t] # "killed" /\ TooOld ->
              /\ Account("failed")
              /\ Signal(t)
              /\ pc' = "wait"
              /\ UNCHANGED <<result, slot>>
         [] OTHER -> NextSlot /\ UNCHANGED <<counts, result, signalled>>
    /\ UNCHANGED <<seen, now, testid, expired, home>>

NoChildLeft == \A t \in Test : ~Live(t) /\ ~Zombie(t)

\* waitpid(-1, &status, 0): reaps whichever child has ended, fails at once when
\* none is left, and otherwise blocks.
WaitAnyChild ==
    /\ pc = "wait"
    /\ \/ \E t \in Test : Zombie(t) /\ child' = [child EXCEPT ![t] = "reaped"]
       \/ NoChildLeft /\ UNCHANGED child
    /\ Reset
    /\ NextSlot
    /\ UNCHANGED <<seen, now, testid, expired, counts, home, signalled>>

Parent == ReadClock \/ ReadResult \/ StartTest \/ AwaitStart \/ AccountResult
            \/ CheckProcess \/ WaitAnyChild

-----------------------------------------------------------------------------
(* A child, and the kernel.                                                 *)

CanAct(t) == t \notin signalled \/ ~PromptKill

Become(t, state) == child' = [child EXCEPT ![t] = state]

Write(t, value) ==
    /\ result' = [result EXCEPT ![home[t]] = value]
    /\ UNCHANGED <<testid, expired, parent, counts, home, signalled>>

Silent == UNCHANGED <<result, testid, expired, parent, counts, home>>

\* tactyk_test__run: the first store, then set-up, then the commands of the test.
Initialize(t) ==
    child[t] = "forked" /\ CanAct(t) /\ Become(t, "initializing") /\ Write(t, "INITIALIZING")

RunCommands(t) ==
    child[t] = "initializing" /\ CanAct(t) /\ Become(t, "running") /\ Write(t, "RUNNING")

\* tactyk_test__exit: the error handler calls it during set-up too, but then
\* only with a failure or an error.
Report(t, r) ==
    /\ CanAct(t)
    /\ \/ child[t] = "running"
       \/ child[t] = "initializing" /\ r \in {"FAIL", "TEST_ERROR"}
    /\ Become(t, "reported") /\ Write(t, r)

\* _exit(0) after the report.
Exit(t) ==
    /\ CanAct(t) /\ child[t] = "reported"
    /\ Become(t, "exited")
    /\ Silent /\ UNCHANGED signalled

\* exit(1) without a report: set-up failed under the default error handler, or
\* the test script is wrongly indented.
ExitUnreported(t) ==
    /\ CanAct(t) /\ child[t] \in {"initializing", "running"}
    /\ Become(t, "exited")
    /\ Silent /\ UNCHANGED signalled

\* A fault of the code under test, or the signal the parent sent.
DieOfFault(t) ==
    /\ child[t] \in {"initializing", "running"} /\ t \notin signalled
    /\ Become(t, "killed")
    /\ Silent /\ UNCHANGED signalled

DieOfSignal(t) ==
    /\ t \in signalled /\ Live(t)
    /\ Become(t, "killed")
    /\ signalled' = signalled \ {t}
    /\ Silent

Child(t) == Initialize(t) \/ RunCommands(t) \/ (\E r \in Final : Report(t, r))
              \/ Exit(t) \/ ExitUnreported(t) \/ DieOfFault(t)

\* Four seconds since the slot's test was prepared.
GrowOld(s) ==
    /\ s \notin expired /\ result[s] \in Busy
    /\ expired' = expired \cup {s}
    /\ UNCHANGED <<result, testid, parent, counts, child, home, signalled>>

Next ==
    \/ Parent
    \/ ForkFails
    \/ \E t \in Test : Child(t) \/ DieOfSignal(t)
    \/ \E s \in Slot : GrowOld(s)

Spec == Init /\ [][Next]_vars

\* The scheduler of the machine runs the parent, delivers signals, lets a forked
\* child reach its first store and a child that has reported exit, and time
\* passes.  A test may hang for ever.
Fairness ==
    /\ WF_vars(Parent)
    /\ \A t \in Test : WF_vars(Initialize(t)) /\ WF_vars(Exit(t)) /\ WF_vars(DieOfSignal(t))
    /\ \A s \in Slot : WF_vars(GrowOld(s))

FairSpec == Spec /\ Fairness

\* Every test ends by itself in the end.
EndingSpec == FairSpec /\ \A t \in Test : WF_vars(Child(t))

-----------------------------------------------------------------------------
(* Properties.                                                              *)

TypeOK ==
    /\ tests_started \in 0 .. TestCount
    /\ tests_completed \in 0 .. TestCount + max_active_jobs
    /\ result \in [Slot -> Final \cup Busy \cup {"INACTIVE", "PREPARING"}]
    /\ testid \in [Slot -> Test] /\ home \in [Test -> Slot]
    /\ expired \subseteq Slot /\ now \subseteq Slot
    /\ pc \in {"clock", "poll", "act", "await", "wait", "done", "failed"} /\ slot \in Slot
    /\ child \in [Test -> {"none", "forked", "initializing", "running", "reported",
                           "exited", "killed", "reaped"}]
    /\ signalled \subseteq Test

\* A slot is never shared by two children that can still write a result, so a
\* result read from it belongs to the test whose name the slot holds.
OneWriterPerSlot ==
    \A t, u \in Test :
        /\ t # u /\ home[t] = home[u]
        /\ child[t] \in {"forked", "initializing", "running"} /\ CanAct(t)
        /\ child[u] \in {"forked", "initializing", "running"} /\ CanAct(u)
        => FALSE

\* The parent accounts for every test exactly once before it prints the totals:
\* it "invokes each input script, prints a single-char code to indicate a
\* pass/fail/error result, then exits" (doc/tactyk-test.txt:30).
EachTestAccountedOnce ==
    pc = "done" => \A t \in Test : Cardinality(verdicts[t]) = 1

\* A slot is accounted as passed only when the child of the very test it names
\* has reported: not after a fault, and not on the word of an earlier child.
PassIsEarned ==
    [][AccountResult /\ seen = "PASS" =>
         child[testid[slot]] \in {"reported", "exited", "reaped"}]_vars

\* The run ends, at the latest when a fork fails: the shell "monitors each test process to determine if it has
\* either been terminated by a signal or has been running for an excessive
\* amount of time" (doc/tactyk-test.txt:19).
Terminates == <>(pc \in {"done", "failed"})
=============================================================================
