---------------------------- MODULE TestLanguage ----------------------------
(***************************************************************************)
(* The interpreter of test scripts, as one test process runs it.  Commands *)
(* run in document order; EXEC and RESUME give control to the virtual      *)
(* machine, which changes its state, calls back into the script (where the *)
(* lines below the EXEC run), raises errors, and comes back.               *)
(***************************************************************************)
EXTENDS ShadowContext, StructuredText

CONSTANTS
    Scripts,       \* [text, changes]: a script, and what instructions of its programs may do
    Faults,        \* statuses above 100 that a program may stop with
    CallbackIds,   \* the callbacks that programs make, of the eight
    MaxChanges, MaxCallbacks \* bounds on what the programs of one script do

\* A line is indented no deeper than db_stack is long, a script has a line that is
\* more than a comment, and Program holds the names that PROGRAM gives.
TextLine == [ind : 0 .. MaxIndent, tok : Seq(STRING)]

ASSUME ScriptsAssumption ==
    \A s \in Scripts :
        /\ s.text \in Seq(TextLine)
        /\ RemoveBlanks(s.text) # <<>>
        /\ \A i \in 1 .. Len(s.text) :
              LET t == s.text[i].tok IN
              t # <<>> /\ t[1] = "PROGRAM" /\ Len(t) > 1 => t[2] \in Program

ASSUME CallbacksAssumption == CallbackIds \subseteq 1 .. 8 /\ "DEFAULT" \in Program

VARIABLES
    script, next, child, fate, \* the lines and the links between them
    changes,      \* what one instruction of the script's programs may do
    frames,       \* active exec_test_commands calls; a running one is inside a program
    active,       \* *active_test_spec
    continuation, \* test_continuation
    callback_id, ccall_args, ccall_retval,
    real, shadow, tprg, programs, shadow_memblocks,
    changed, called, \* instructions and callbacks so far
    verdict,      \* what the process wrote into test_result
    begun, done,  \* history: commands begun and commands completed, in order
    raised,       \* history: the command that was running when an error was raised
    seen          \* history: the machine where it was last compared or copied, if it was

document == <<script, next, child, fate, changes>>
callback == <<callback_id, ccall_args, ccall_retval>>
machine  == <<real, shadow, tprg, programs, shadow_memblocks>>
history  == <<begun, done, raised, seen>>
vars == <<document, frames, active, continuation, callback, machine, changed, called,
          verdict, history>>

Node    == 1 .. Len(script)
Word(n) == script[n].tok[1]
Args(n) == Tail(script[n].tok)

\* A line and the lines that follow it on its level.
Siblings(first) ==
    LET Chain[n \in 0 .. Len(script)] == IF n = Nil THEN <<>> ELSE <<n>> \o Chain[next[n]]
    IN  Chain[first]

Below(n) == [i \in 1 .. Len(Siblings(child[n])) |-> script[Siblings(child[n])[i]].tok]

Items(n) == [i \in 1 .. Len(Siblings(child[n])) |->
                LET m == Siblings(child[n])[i] IN [tok |-> script[m].tok, below |-> Below(m)]]

Frame(n, by) == [at |-> n, running |-> FALSE, by |-> by, spec |-> active]
Top == frames[Len(frames)]

\* The machine before the first PROGRAM, and a shadow that is all zeros.
Blank(vm) ==
    [l \in Location |->
        CASE l = <<"vm">> -> vm
          [] l[1] \in {"program", "memblocks"} -> NULL
          [] l[1] = "addr" -> CASE l[3] = "base" -> NULL
                                [] l[3] = "bounds" -> "none"
                                [] OTHER -> NullPointer
          [] l[1] = "entry" /\ l[3] \in {"dest-program", "src-program"} -> NULL
          [] l[1] = "stack-pos" -> -1
          [] l[1] = "length" -> MemSize
          [] OTHER -> 0]

Init ==
    /\ \E s \in Scripts : script = RemoveBlanks(s.text) /\ changes = s.changes
    /\ LET tree == Stratify(script) IN
          next = tree.next /\ child = tree.child /\ fate = tree.fate
    /\ active = IF fate = "tree" THEN 1 ELSE Nil
    /\ frames = IF fate = "tree" THEN <<[at |-> 1, running |-> FALSE, by |-> 0, spec |-> Nil]>>
                ELSE <<>>
    /\ continuation = Nil
    /\ callback_id = 0 /\ ccall_args = [k \in {0, 1} |-> 0] /\ ccall_retval = 0
    /\ real = Blank(1) /\ shadow = Blank(0)
    /\ tprg = NULL /\ programs = {} /\ shadow_memblocks = NULL
    /\ changed = 0 /\ called = 0
    /\ verdict = IF fate = "tree" THEN "RUNNING" ELSE "none"
    /\ begun = <<>> /\ done = <<>> /\ raised = Nil /\ seen = Blank(0)

-----------------------------------------------------------------------------
(* The loop over a list of commands.                                        *)

InList == verdict = "RUNNING" /\ ~Top.running

\* Mutant: the loop goes on without the callbacks.
NothingAwaited == FALSE

\* A command is reached only if the callbacks that the EXEC before it expected
\* have come.
Awaited   == continuation # Nil
AtCommand == InList /\ Top.at # Nil /\ ~Awaited

MissedCallback ==
    /\ InList /\ Top.at # Nil /\ Awaited
    /\ verdict' = "FAIL"
    /\ UNCHANGED <<document, frames, active, continuation, callback, machine, changed, called, history>>

Begin(words) ==
    /\ AtCommand
    /\ Word(Top.at) \in words
    /\ active' = Top.at
    /\ begun' = Append(begun, Top.at)

Complete ==
    /\ frames' = [frames EXCEPT ![Len(frames)].at = next[Top.at], ![Len(frames)].running = FALSE]
    /\ done' = Append(done, Top.at)
    /\ UNCHANGED verdict

Exit(how) == verdict' = how /\ UNCHANGED <<frames, done>>

\* Mutant: any later ERROR line will do.
ErrorLater(n) == \E m \in Range(Siblings(next[n])) : Word(m) = "ERROR"

\* tactyk_test__error_handler: an error is expected when the command that follows
\* the active one is ERROR.
ErrorFollows(n) == next[n] # Nil /\ Word(next[n]) = "ERROR"

RaiseAt(n) ==
    /\ raised' = Top.at
    /\ Exit(IF ErrorFollows(n) THEN "PASS" ELSE "FAIL")

Unaffected == UNCHANGED <<document, changed, called>>

\* Commands that only set a variable of the interpreter, or nothing.
ReturnValue ==
    /\ Begin({"RETURN"})
    /\ ccall_retval' = IF Args(Top.at) # <<>> /\ IsInt(Args(Top.at)[1])
                       THEN IntOf[Args(Top.at)[1]] ELSE 0
    /\ Complete
    /\ UNCHANGED <<continuation, callback_id, ccall_args, machine, raised, seen>> /\ Unaffected

DisplayModes == {"string", "int32", "int64", "float32", "float64"}

XmmDisplayMode ==
    /\ Begin({"XMM-DISPLAYMODE"})
    /\ Args(Top.at) # <<>>
    /\ IF Args(Top.at)[1] \in DisplayModes THEN Complete ELSE Exit("TEST_ERROR")
    /\ UNCHANGED <<continuation, callback, machine, raised, seen>> /\ Unaffected

Placeholder ==
    /\ Begin({"DATA", "REF"})
    /\ Complete
    /\ UNCHANGED <<continuation, callback, machine, raised, seen>> /\ Unaffected

ExitCommand ==
    /\ Begin({"EXIT"})
    /\ Exit("PASS")
    /\ UNCHANGED <<continuation, callback, machine, raised, seen>> /\ Unaffected

Functions == {"PROGRAM", "EXEC", "TEST", "ALLOC", "DATA", "REF", "CONTINUE", "RETURN",
              "RESUME", "EXIT", "XMM-DISPLAYMODE"}

\* A name that is not in test_functions, ERROR among them.
UndefinedFunction ==
    /\ AtCommand
    /\ Word(Top.at) \notin Functions
    /\ Exit("TEST_ERROR")
    /\ begun' = Append(begun, Top.at)
    /\ UNCHANGED <<active, continuation, callback, machine, raised, seen>> /\ Unaffected

-----------------------------------------------------------------------------
(* Commands that touch the machine.                                         *)

\* A program's text is not modelled: the line "bad" does not build.
Program_ ==
    /\ Begin({"PROGRAM"})
    /\ LET name == IF Args(Top.at) = <<>> THEN "DEFAULT" ELSE Args(Top.at)[1]
           Fresh(f) == [l \in Location |->
                           CASE l[1] = "mem" /\ l[2] = name -> 0
                             [] l = <<"length", name>> -> MemSize
                             [] OTHER -> f[l]]
       IN  IF \E m \in Node : m \in Range(Siblings(child[Top.at])) /\ Word(m) = "bad"
           THEN RaiseAt(Top.at) /\ UNCHANGED <<machine, seen>>
           ELSE /\ tprg' = name /\ shadow_memblocks' = name
                /\ programs' = programs \cup {name}
                /\ real' = [Fresh(real) EXCEPT ![<<"memblocks">>] = name]
                /\ shadow' = Fresh(shadow)
                /\ seen' = Fresh(seen)
                /\ Complete
                /\ UNCHANGED raised
    /\ UNCHANGED <<continuation, callback>> /\ Unaffected

\* The values of a line of data; without a type, every token is a qword.
DataValues(t) == IF t[1] \in {"byte", "word", "dword", "qword"} THEN Tail(t) ELSE t
DataWidth(t)  == IF t[1] \in {"byte", "word", "dword", "qword"} THEN Width[t[1]] ELSE 8

ReadData(lines) ==
    FlattenSeq([i \in 1 .. Len(lines) |->
        FlattenSeq([k \in 1 .. Len(DataValues(lines[i])) |->
            [b \in 1 .. DataWidth(lines[i]) |-> IF b = 1 THEN IntOf[DataValues(lines[i])[k]] ELSE 0]])])

\* The block is looked up in tprg's table and replaced in the context's table.
Replaced(f, p, data) ==
    [Overwrite(f, [l \in {<<"mem", p, b - 1>> : b \in DOMAIN data} |-> data[l[3] + 1]])
        EXCEPT ![<<"length", p>>] = Len(data)]

Alloc ==
    /\ Begin({"ALLOC"})
    /\ LET lines == Below(Top.at)
           data  == ReadData(lines)
       IN  IF \E i \in DOMAIN lines : \E k \in DOMAIN DataValues(lines[i]) :
                  ~IsInt(DataValues(lines[i])[k])
           THEN Exit("TEST_ERROR") /\ UNCHANGED <<real, shadow, seen>>
           ELSE IF tprg = NULL \/ Args(Top.at) # <<"m">>
           THEN Exit("CRASHED") /\ UNCHANGED <<real, shadow, seen>>
           ELSE /\ real'   = Replaced(real, real[<<"memblocks">>], data)
                /\ shadow' = Replaced(shadow, shadow_memblocks, data)
                /\ seen'   = Replaced(seen, real[<<"memblocks">>], data)
                /\ Complete
    /\ UNCHANGED <<continuation, callback, tprg, programs, shadow_memblocks, raised>> /\ Unaffected

Copied(from, to) == [l \in Location |-> IF l \in ContextLocation THEN from[l] ELSE to[l]]

Prepared(f, p) == [f EXCEPT ![<<"program">>] = p, ![<<"memblocks">>] = p]

\* Without a function, MAIN is called and the shadow is not brought up to date.  The
\* report of an unknown function exports the program's name, which only an EXEC with
\* two arguments has set.
Exec ==
    /\ Begin({"EXEC"})
    /\ continuation' = child[Top.at]
    /\ LET args     == Args(Top.at)
           named    == Len(args) = 2
           p        == IF named THEN args[1] ELSE tprg
           function == IF args = <<>> THEN "MAIN" ELSE IF named THEN args[2] ELSE args[1]
           built    == p \in programs
       IN  /\ tprg' = IF built THEN p ELSE NULL
           /\ shadow_memblocks' = IF ~named THEN shadow_memblocks ELSE IF built THEN p ELSE NULL
           /\ IF ~built
              THEN Exit("TEST_ERROR") /\ UNCHANGED <<real, shadow, seen>>
              ELSE IF function \notin DOMAIN FunctionIndex
              THEN /\ UNCHANGED <<real, seen>>
                   /\ shadow' = Copied(real, shadow)
                   /\ IF named THEN Exit("TEST_ERROR")
                      ELSE \E how \in {"TEST_ERROR", "CRASHED"} : Exit(how)
              ELSE /\ shadow' = Prepared(IF args = <<>> THEN shadow ELSE Copied(real, shadow), p)
                   /\ seen'   = Prepared(IF args = <<>> THEN seen ELSE Copied(real, seen), p)
                   /\ real'   = [Prepared(real, p) EXCEPT ![<<"status">>] = 1]
                   /\ frames' = [frames EXCEPT ![Len(frames)].running = TRUE]
                   /\ UNCHANGED <<verdict, done>>
    /\ UNCHANGED <<callback, programs, raised>> /\ Unaffected

\* Only a suspended machine can be resumed.
Resume ==
    /\ Begin({"RESUME"})
    /\ LET args == Args(Top.at) IN
       IF args # <<>> /\ args[1] \notin programs
       THEN Exit("TEST_ERROR") /\ tprg' = NULL /\ UNCHANGED <<real, raised>>
       ELSE /\ tprg' = IF args = <<>> THEN tprg ELSE args[1]
            /\ IF real[<<"status">>] # 3
               THEN RaiseAt(Top.at) /\ UNCHANGED real
               ELSE /\ real' = [real EXCEPT ![<<"status">>] = 1]
                    /\ frames' = [frames EXCEPT ![Len(frames)].running = TRUE]
                    /\ UNCHANGED <<verdict, done, raised>>
    /\ UNCHANGED <<continuation, callback, shadow, programs, shadow_memblocks, seen>> /\ Unaffected

State == [result |-> "PASS", real |-> real, shadow |-> shadow, tprg |-> tprg, programs |-> programs,
          shadow_memblocks |-> shadow_memblocks, callback_id |-> callback_id,
          ccall_args |-> ccall_args]

\* Memory of a program that is not in the context is not compared.
Unobserved(l) == l[1] = "mem" /\ l[2] # real[<<"memblocks">>]

Test ==
    /\ Begin({"TEST"})
    /\ LET after == RunTest(State, Items(Top.at)) IN
       /\ shadow' = after.shadow
       /\ callback_id' = after.callback_id
       /\ seen' = IF after.result = "PASS"
                  THEN [l \in Location |-> IF Unobserved(l) THEN seen[l] ELSE real[l]]
                  ELSE seen
       /\ CASE after.result = "PASS"  -> Complete /\ UNCHANGED raised
            [] after.result = "EXIT"  -> Exit("PASS") /\ UNCHANGED raised
            [] after.result = "CRASH" -> Exit("CRASHED") /\ UNCHANGED raised
            [] after.result = "ERROR" -> RaiseAt(Top.at)
            [] OTHER                  -> Exit(after.result) /\ UNCHANGED raised
    /\ UNCHANGED <<continuation, ccall_args, ccall_retval, real, tprg, programs, shadow_memblocks>>
    /\ Unaffected

-----------------------------------------------------------------------------
(* Callbacks and the end of a list.                                         *)

\* Mutant: the next callback starts over.
NothingForgotten(rest) == child

\* The callback forgets the lines it has run: the rest stays below the EXEC.
Remainder(rest) == [child EXCEPT ![Top.spec] = rest]

\* Mutant: the callback leaves the active command where it stopped.
NotRestored == active

Restored == Top.spec

\* A ccall may put the value it returns into a register.
Delivered(by, f) ==
    {f} \cup IF by <= 4 THEN {[f EXCEPT ![<<"reg", "rA">>] = ccall_retval]} ELSE {}

ReturnToProgram(rest) ==
    /\ frames' = Front(frames)
    /\ child' = Remainder(rest)
    /\ continuation' = rest
    /\ active' = Restored
    /\ real' \in Delivered(Top.by, real)
    /\ UNCHANGED <<script, next, fate, changes, callback, shadow, tprg, programs, shadow_memblocks,
                   changed, called, verdict, done, raised, seen>>

Continue ==
    /\ AtCommand
    /\ Word(Top.at) = "CONTINUE"
    /\ begun' = Append(begun, Top.at)
    /\ IF Len(frames) > 1 THEN ReturnToProgram(next[Top.at])
       ELSE /\ active' = Top.at
            /\ continuation' = next[Top.at]
            /\ Exit("CONTINUE")
            /\ UNCHANGED <<callback, machine, raised, seen>> /\ Unaffected

EndOfList ==
    /\ InList
    /\ Top.at = Nil
    /\ UNCHANGED begun
    /\ IF Len(frames) > 1 THEN ReturnToProgram(continuation)
       ELSE /\ Exit("PASS")
            /\ UNCHANGED <<active, continuation, callback, machine, raised, seen>> /\ Unaffected

-----------------------------------------------------------------------------
(* The program that an EXEC or RESUME has started.                          *)

InProgram == verdict = "RUNNING" /\ Top.running

Instruction ==
    /\ InProgram /\ changed < MaxChanges
    /\ \E change \in changes :
          /\ \A l \in DOMAIN change : l[1] = "mem" => l[2] \in programs
          /\ real' = Overwrite(real, change)
    /\ changed' = changed + 1
    /\ UNCHANGED <<document, frames, active, continuation, callback, shadow, tprg, programs,
                   shadow_memblocks, called, verdict, history>>

\* A tvm call or return leaves another program in the context.
TvmTransfer ==
    /\ InProgram /\ changed < MaxChanges
    /\ \E p \in programs \ {real[<<"program">>]} : real' = Prepared(real, p)
    /\ changed' = changed + 1
    /\ UNCHANGED <<document, frames, active, continuation, callback, shadow, tprg, programs,
                   shadow_memblocks, called, verdict, history>>

Recorded(k) == IF k <= 4 THEN [i \in {0, 1} |-> real[<<"reg", IF i = 0 THEN "rA" ELSE "rB">>]]
                         ELSE ccall_args

\* The lines that wait below the active command run; a callback that finds none
\* returns at once.
Callback(k) ==
    /\ InProgram /\ called < MaxCallbacks
    /\ called' = called + 1
    /\ callback_id' = k
    /\ ccall_args' = Recorded(k)
    /\ continuation' = Nil
    /\ IF child[active] = Nil
       THEN real' \in Delivered(k, real) /\ UNCHANGED frames
       ELSE frames' = Append(frames, Frame(child[active], k)) /\ UNCHANGED real
    /\ UNCHANGED <<document, active, ccall_retval, shadow, tprg, programs, shadow_memblocks,
                   changed, verdict, history>>

\* The emitter service raises errors from inside a program.
ProgramError ==
    /\ InProgram
    /\ RaiseAt(active)
    /\ UNCHANGED <<document, active, continuation, callback, machine, changed, called, begun, seen>>

\* By default the program is expected to have halted.
Finish ==
    /\ InProgram
    /\ \E status \in {3, 4} \cup Faults : real' = [real EXCEPT ![<<"status">>] = status]
    /\ shadow' = [shadow EXCEPT ![<<"status">>] = 4]
    /\ seen' = [seen EXCEPT ![<<"status">>] = 4]
    /\ Complete
    /\ UNCHANGED <<document, active, continuation, callback, tprg, programs, shadow_memblocks,
                   changed, called, begun, raised>>

Next ==
    \/ MissedCallback \/ ReturnValue \/ XmmDisplayMode \/ Placeholder \/ ExitCommand
    \/ UndefinedFunction \/ Program_ \/ Alloc \/ Exec \/ Resume \/ Test
    \/ Continue \/ EndOfList
    \/ Instruction \/ TvmTransfer \/ (\E k \in CallbackIds : Callback(k)) \/ ProgramError \/ Finish

Spec == Init /\ [][Next]_vars
=============================================================================
