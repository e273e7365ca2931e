--------------------------- MODULE AutotestProofs ---------------------------
(***************************************************************************)
(* Theorems about Autotest, for any test programs, heap, threads and       *)
(* commands.                                                               *)
(***************************************************************************)
EXTENDS Autotest, UnityProofs

-----------------------------------------------------------------------------
(* The results of a file.                                                  *)

Results == {"PASS", "FAIL", "IGNORE"}

(* How often a result is among the lines s.                                *)
Times(result, s) == Cardinality({i \in DOMAIN s : s[i] = result})

LEMMA TimesOfNone == ASSUME NEW r PROVE Times(r, <<>>) = 0
<1>1. {i \in DOMAIN <<>> : <<>>[i] = r} = {}
  OBVIOUS
<1>2. QED
  BY <1>1, FS_EmptySet DEF Times

(* One more line is counted once, where it belongs.                        *)
LEMMA TimesAppend ==
  ASSUME NEW s \in Seq(Results), NEW x \in Results, NEW r
  PROVE  /\ Times(r, s) \in 0 .. Len(s)
         /\ Times(r, Append(s, x)) = Times(r, s) + (IF x = r THEN 1 ELSE 0)
<1> DEFINE T == {i \in DOMAIN s : s[i] = r}
           U == {i \in DOMAIN Append(s, x) : Append(s, x)[i] = r}
           n == Len(s)
<1>1. n \in Nat /\ DOMAIN s = 1 .. n
  OBVIOUS
<1>2. IsFiniteSet(1 .. n) /\ Cardinality(1 .. n) = n
  BY <1>1, FS_Interval
<1>3. T \subseteq 1 .. n
  BY <1>1
<1>4. IsFiniteSet(T) /\ Cardinality(T) \in Nat /\ Cardinality(T) <= n
  BY <1>2, <1>3, FS_Subset, FS_CardinalityType
<1>5. /\ DOMAIN Append(s, x) = 1 .. n + 1
      /\ \A i \in 1 .. n : Append(s, x)[i] = s[i]
      /\ Append(s, x)[n + 1] = x
  BY <1>1, AppendProperties
<1>6. U = IF x = r THEN T \cup {n + 1} ELSE T
  BY <1>1, <1>5
<1>7. n + 1 \notin T
  BY <1>1
<1>8. Times(r, s) = Cardinality(T) /\ Times(r, Append(s, x)) = Cardinality(U)
  BY DEF Times
<1> HIDE DEF T, U, n
<1>9. Cardinality(T \cup {n + 1}) = Cardinality(T) + 1
  BY <1>4, <1>7, FS_AddElement
<1>10. QED
  BY <1>1, <1>4, <1>6, <1>8, <1>9 DEF n

(* Lines without a failure.                                                *)
LEMMA TimesZero ==
  ASSUME NEW s \in Seq(Results), NEW r
  PROVE  Times(r, s) = 0 <=> r \notin Range(s)
<1> DEFINE T == {i \in DOMAIN s : s[i] = r}
<1>1. IsFiniteSet(T)
  <2>1. DOMAIN s = 1 .. Len(s) /\ Len(s) \in Nat
    OBVIOUS
  <2>2. IsFiniteSet(1 .. Len(s))
    BY <2>1, FS_Interval
  <2>3. QED
    BY <2>1, <2>2, FS_Subset
<1>2. Cardinality(T) = 0 <=> T = {}
  BY <1>1, FS_EmptySet
<1>3. T = {} <=> r \notin Range(s)
  BY DEF Range
<1>4. QED
  BY <1>2, <1>3 DEF Times


-----------------------------------------------------------------------------
(* An assertion reports at most once, whatever its arguments are.          *)

IsReport(r) == r = <<>> \/ \E s, p, e, w : r = Report(s, p, e, w)

LEMMA IntegerReports ==
  ASSUME NEW expected, NEW actual, NEW n, NEW style, NEW flags, NEW delta, NEW compare
  PROVE  /\ IsReport(UnityAssertEqualNumber(expected, actual, style))
         /\ IsReport(UnityAssertGreaterOrLessOrEqualNumber(expected, actual, compare, style))
         /\ IsReport(UnityAssertNumbersWithin(delta, expected, actual, style))
         /\ IsReport(UnityAssertEqualIntArray(expected, actual, n, style, flags))
         /\ IsReport(UnityAssertNumbersArrayWithin(delta, expected, actual, n, style, flags))
<1>1. IsReport(UnityAssertEqualNumber(expected, actual, style))
  BY DEF IsReport, UnityAssertEqualNumber
<1>2. IsReport(UnityAssertGreaterOrLessOrEqualNumber(expected, actual, compare, style))
  BY DEF IsReport, UnityAssertGreaterOrLessOrEqualNumber
<1>3. IsReport(UnityAssertNumbersWithin(delta, expected, actual, style))
  BY DEF IsReport, UnityAssertNumbersWithin
<1>4. IsReport(UnityAssertEqualIntArray(expected, actual, n, style, flags))
  BY DEF IsReport, ArrayReport, UnityPrintPointlessAndBail, UnityIsOneArrayNull,
       Says, UnityAssertEqualIntArray, Walk
<1>5. IsReport(UnityAssertNumbersArrayWithin(delta, expected, actual, n, style, flags))
  BY DEF IsReport, ArrayReport, UnityPrintPointlessAndBail, UnityIsOneArrayNull,
       Says, UnityAssertNumbersArrayWithin, Walk
<1>6. QED
  BY <1>1, <1>2, <1>3, <1>4, <1>5

LEMMA FloatReports ==
  ASSUME NEW expected, NEW actual, NEW n, NEW flags, NEW delta, NEW trait, NEW should
  PROVE  /\ IsReport(UnityAssertFloatsWithin(delta, expected, actual))
         /\ IsReport(UnityAssertEqualFloatArray(expected, actual, n, flags))
         /\ IsReport(UnityAssertFloatSpecial(actual, trait, should))
<1>1. IsReport(UnityAssertFloatsWithin(delta, expected, actual))
  BY DEF IsReport, UnityAssertFloatsWithin, Says
<1>2. IsReport(UnityAssertEqualFloatArray(expected, actual, n, flags))
  BY DEF IsReport, ArrayReport, UnityPrintPointlessAndBail, UnityIsOneArrayNull,
       Says, UnityAssertEqualFloatArray, Walk
<1>3. IsReport(UnityAssertFloatSpecial(actual, trait, should))
  BY DEF IsReport, UnityAssertFloatSpecial, Says
<1>4. QED
  BY <1>1, <1>2, <1>3

LEMMA ByteReports ==
  ASSUME NEW expected, NEW actual, NEW n, NEW flags, NEW length
  PROVE  /\ IsReport(UnityAssertEqualString(expected, actual))
         /\ IsReport(UnityAssertEqualStringLen(expected, actual, length))
         /\ IsReport(UnityAssertEqualStringArray(expected, actual, n, flags))
         /\ IsReport(UnityAssertEqualMemory(expected, actual, length, n, flags))
         /\ IsReport(UnityAssertBits(n, expected, actual))
<1>1. IsReport(UnityAssertEqualString(expected, actual))
  BY DEF IsReport, UnityAssertEqualString, StringReport
<1>2. IsReport(UnityAssertEqualStringLen(expected, actual, length))
  BY DEF IsReport, UnityAssertEqualStringLen, StringReport
<1>3. IsReport(UnityAssertEqualStringArray(expected, actual, n, flags))
  BY DEF IsReport, ArrayReport, UnityPrintPointlessAndBail, UnityIsOneArrayNull,
       Says, UnityAssertEqualStringArray, Walk, StringReport
<1>4. IsReport(UnityAssertEqualMemory(expected, actual, length, n, flags))
  BY DEF IsReport, ArrayReport, UnityPrintPointlessAndBail, UnityIsOneArrayNull,
       Says, UnityAssertEqualMemory, Walk
<1>5. IsReport(UnityAssertBits(n, expected, actual))
  BY DEF IsReport, UnityAssertBits
<1>6. QED
  BY <1>1, <1>2, <1>3, <1>4, <1>5

LEMMA AssertReports ==
  ASSUME NEW macro \in Macros, NEW a
  PROVE  Len(UnityAssert(macro, a)) <= 1
<1> USE DEF IntegerMacros, ArrayMacros, FloatMacros, FloatArrayMacros, TraitMacros,
            StringMacros, StringArrayMacros, MemoryMacros
<1>1. ASSUME macro \in IntegerMacros \cup ArrayMacros
      PROVE  IsReport(IntegerReport(macro, a))
  BY <1>1, IntegerReports DEF IntegerReport
<1>2. ASSUME macro \in FloatMacros \cup FloatArrayMacros \cup TraitMacros
      PROVE  IsReport(FloatReport(macro, a))
  BY <1>2, FloatReports DEF FloatReport, UnityAssertDoublesWithin,
       UnityAssertEqualDoubleArray, UnityAssertDoubleSpecial
<1>3. ASSUME macro \in StringMacros \cup StringArrayMacros \cup MemoryMacros
      PROVE  IsReport(ByteReport(macro, a))
  BY <1>3, ByteReports DEF ByteReport
<1>4. CASE macro = "TRUE"
  <2>1. UnityAssert(macro, a) = IF a.condition THEN <<>> ELSE Says("Condition")
    BY <1>4 DEF UnityAssert
  <2>2. QED
    BY <2>1 DEF Says, Report
<1>5. IsReport(UnityAssert(macro, a)) \/ macro = "TRUE"
  BY <1>1, <1>2, <1>3, ByteReports DEF UnityAssert, Macros
<1>6. ASSUME NEW r, IsReport(r)
      PROVE  Len(r) <= 1
  BY <1>6 DEF IsReport, Report
<1>7. QED
  BY <1>4, <1>5, <1>6


-----------------------------------------------------------------------------
(* The framework.                                                          *)

(* The assertion a test is in was given arguments of its macro, and has    *)
(* reported what it reports of them; outside of one there is no report.    *)
Answered ==
  /\ asked.macro = "none" => asked.report = <<>>
  /\ asked.macro # "none" =>
       /\ asked.macro \in Macros /\ Typed(asked.macro, asked.a)
       /\ asked.report = UnityAssert(asked.macro, asked.a)

Asked == asked.macro \in Macros \cup {"none"} /\ Len(asked.report) <= 1 /\ Answered

RunTypes ==
  /\ UnityTypeOK /\ Answered
  /\ program \in DOMAIN Programs
  /\ lines \in [DOMAIN Files -> Seq(Results)]

InTest == stage \in {"setUp", "body", "tearDown", "conclude"}

(* The files before the current one are done, without a failure, and those *)
(* behind it have not begun.                                               *)
FilesInOrder ==
  /\ stage = "file" \/ InTest => file \in DOMAIN Files
  /\ stage = "main" /\ file \in DOMAIN Files => lines[file] = <<>>
  /\ \A f \in DOMAIN Files :
       /\ f < file => Len(lines[f]) = Files[f].tests /\ Times("FAIL", lines[f]) = 0
       /\ f > file => lines[f] = <<>>

(* The counters of Unity and the lines of the file, in the middle of a     *)
(* test: the result of the test that runs is printed as soon as it is      *)
(* known, and counted when the test is concluded.                          *)
ResultsAgree ==
  stage = "file" \/ InTest =>
    LET failed  == Unity.CurrentTestFailed
        ignored == Unity.CurrentTestIgnored
        results == lines[file]
    IN  /\ ~(failed /\ ignored)
        /\ stage \in {"file", "setUp", "body"} => ~failed /\ ~ignored
        /\ Unity.NumberOfTests <= Files[file].tests
        /\ Unity.NumberOfTests = Len(results) + (IF InTest /\ ~failed /\ ~ignored THEN 1 ELSE 0)
        /\ Times("FAIL", results)   = Unity.TestFailures + (IF failed THEN 1 ELSE 0)
        /\ Times("IGNORE", results) = Unity.TestIgnores + (IF ignored THEN 1 ELSE 0)

StatusAgrees ==
  stage = "exited" =>
    \/ status = 0 /\ file \notin DOMAIN Files
    \/ status # 0 /\ file \in DOMAIN Files /\ Times("FAIL", lines[file]) # 0

RunInv == RunTypes /\ FilesInOrder /\ ResultsAgree /\ StatusAgrees

(* What the programs are.                                                  *)
LEMMA FilesType ==
  ASSUME RunTypes
  PROVE  /\ Len(Files) \in Nat \ {0} /\ DOMAIN Files = 1 .. Len(Files)
         /\ \A f \in DOMAIN Files : /\ Files[f].tests \in 1 .. 255
                                    /\ DOMAIN Files[f].arguments = Macros
<1>1. /\ Files # <<>> /\ Files \in Seq(Range(Files))
      /\ \A f \in DOMAIN Files : /\ Files[f].tests \in 1 .. 255
                                 /\ DOMAIN Files[f].arguments = Macros
  BY ProgramsAssumption DEF RunTypes, Files
<1>2. QED
  BY <1>1, EmptySeq, LenProperties

(* The steps of the framework: a test goes on to its next part, or fails   *)
(* and is abandoned, or one of the actions.                                *)
GoesOn ==
  /\ stage' \in {stage} \cup (IF stage \in {"setUp", "body", "tearDown"}
                              THEN {"body", "tearDown", "conclude"} ELSE {})
  /\ stage' = "body" => stage \in {"body", "setUp"}
  /\ Asked' /\ UNCHANGED <<program, Unity, file, lines, status>>

Abandons ==
  /\ stage \in {"body", "tearDown"} /\ UnityFail
  /\ Asked' /\ UNCHANGED <<program, file, status>>

UnityStep ==
  \/ GoesOn \/ Abandons \/ UnityBegin \/ StartTest \/ UnityIgnore \/ UnityConcludeTest
  \/ UnityEnd \/ MainReturns

(* What the tests do with memory, threads and system calls is no more to   *)
(* the framework than that.                                                *)
LEMMA UnitySteps == RunInv /\ [Next]_vars => UnityStep
<1> SUFFICES ASSUME RunInv, [Next]_vars
             PROVE  UnityStep
  OBVIOUS
<1>1. Asked /\ (asked' = asked => Asked') /\ (asked' = NotAsked => Asked')
  BY DEF RunInv, RunTypes, UnityTypeOK, Asked, Answered, NotAsked
<1>2. ASSUME UNCHANGED unity
      PROVE  UnityStep
  BY <1>1, <1>2 DEF unity, UnityStep, GoesOn
<1>3. CASE MakeAssertion
  <2>1. PICK macro \in Macros :
          \E a \in Files[file].arguments[macro] :
            LET report == UnityAssert(macro, a)
            IN  /\ asked' = [macro |-> macro, a |-> a, report |-> report]
                /\ IF report = <<>> THEN UNCHANGED <<Unity, stage, lines>> ELSE UnityFail
    BY <1>3 DEF MakeAssertion
  <2>2. Asked'
    <3>1. program \in DOMAIN Programs /\ file \in DOMAIN Programs[program]
      BY <1>3 DEF RunInv, RunTypes, FilesInOrder, InTest, MakeAssertion, Files
    <3>2. PICK a \in Files[file].arguments[macro] :
            asked' = [macro |-> macro, a |-> a, report |-> UnityAssert(macro, a)]
      BY <2>1
    <3>3. Typed(macro, a)
      BY <3>1, <3>2, ArgumentsAssumption DEF Files
    <3>4. macro # "none"
      BY DEF Macros, IntegerMacros, ArrayMacros, FloatMacros, FloatArrayMacros, TraitMacros,
             StringMacros, StringArrayMacros, MemoryMacros
    <3>5. QED
      BY <3>2, <3>3, <3>4, AssertReports DEF Asked, Answered
  <2>3. QED
    BY <1>3, <2>1, <2>2 DEF MakeAssertion, UnityStep, GoesOn, Abandons
<1>4. CASE Framework
  BY <1>1, <1>4 DEF Framework, AssertReturns, UnityStep, GoesOn
<1>5. CASE SetUp \/ TearDown \/ BodyEnds
  BY <1>1, <1>5 DEF SetUp, TearDown, BodyEnds, SetUpReturns, TearDownReturns, BodyReturns,
                    UnityStep, GoesOn
<1>6. CASE FailInTearDown \/ UnityIgnore \/ TestPass
  BY <1>1, <1>6 DEF FailInTearDown, TestPass, TEST_ABORT, InBody, UnityStep, GoesOn, Abandons
<1>7. CASE MemoryNext
  <2>1. CASE UnityMalloc_StartTest \/ UnityMalloc_EndTest
    BY <1>1, <2>1 DEF UnityMalloc_StartTest, UnityMalloc_EndTest, UnityStep, GoesOn, Abandons
  <2>2. ASSUME NEW countdown, UnityMalloc_MakeMallocFailAfterCount(countdown)
        PROVE  UnityStep
    BY <1>2, <2>2 DEF UnityMalloc_MakeMallocFailAfterCount
  <2>3. ASSUME NEW size, unity_malloc(size)
        PROVE  UnityStep
    BY <1>2, <2>3 DEF unity_malloc
  <2>4. ASSUME NEW b, Overrun(b) \/ ReallocToNothing(b)
        PROVE  UnityStep
    BY <1>2, <2>4 DEF Overrun, ReallocToNothing
  <2>5. ASSUME NEW b, unity_free(b) \/ ReallocOverrun(b)
        PROVE  UnityStep
    BY <1>1, <2>5 DEF unity_free, ReallocOverrun, InBody, UnityStep, GoesOn, Abandons
  <2>6. ASSUME NEW b, NEW size, ReallocInPlace(b, size) \/ ReallocMoves(b, size)
        PROVE  UnityStep
    BY <1>2, <2>6 DEF ReallocInPlace, ReallocMoves
  <2>7. QED
    BY <1>7, <2>1, <2>2, <2>3, <2>4, <2>5, <2>6 DEF MemoryNext
<1>8. CASE ThreadsNext
  <2>1. Fails /\ InBody("threads") => UnityStep
    BY <1>1 DEF Fails, InBody, UnityStep, Abandons
  <2>2. ASSUME NEW s, NEW t, Goes(s, t)
        PROVE  UnityStep
    BY <1>2, <2>2 DEF Goes
  <2>3. CASE ThreadTestBegins
    BY <1>1, <2>3 DEF ThreadTestBegins, UnityStep, GoesOn
  <2>4. CASE InitMutex \/ MutexLocked
    BY <2>2, <2>4 DEF InitMutex, MutexLocked
  <2>5. CASE start_thread_obtaining_mutex
    BY <2>1, <2>2, <2>5 DEF start_thread_obtaining_mutex, NextStarted, Testing
  <2>6. CASE UnlockMutex
    BY <2>1, <2>2, <2>6 DEF UnlockMutex, Testing
  <2>7. CASE JoinThread
    BY <2>1, <2>2, <2>7 DEF JoinThread, NextJoined, Testing
  <2>8. CASE LockMutex
    BY <1>2, <2>8 DEF LockMutex
  <2>9. ASSUME NEW t, threadfunc(t)
        PROVE  UnityStep
    BY <1>2, <2>9 DEF threadfunc, ThreadLocks, ThreadUnlocks, ThreadReturns
  <2>10. QED
    BY <1>8, <2>3, <2>4, <2>5, <2>6, <2>7, <2>8, <2>9 DEF ThreadsNext, ThreadTest
<1>9. CASE CallsNext
  <2>1. CASE CallsTestBegins
    BY <1>1, <2>1 DEF CallsTestBegins, UnityStep, GoesOn
  <2>2. CASE CheckResult
    BY <1>1, <1>2, <2>2 DEF CheckResult, CallIs, InBody, UnityStep, Abandons
  <2>3. CASE Fork \/ Close \/ Wait \/ WaitInterrupted
    BY <1>2, <2>3 DEF Fork, Close, Wait, WaitInterrupted
  <2>4. ASSUME NEW c, do_system(c) \/ do_exec(c) \/ do_exec_redirect(c)
        PROVE  UnityStep
    BY <1>2, <2>4 DEF do_system, do_exec, do_exec_redirect
  <2>5. ASSUME NEW i, Child(i)
        PROVE  UnityStep
    BY <1>2, <2>5 DEF Child, Dup2, Execv, Runs
  <2>6. QED
    BY <1>9, <2>1, <2>2, <2>3, <2>4, <2>5 DEF CallsNext, Caller
<1>10. CASE UNCHANGED vars
  BY <1>2, <1>10 DEF vars
<1>11. QED
  BY <1>3, <1>4, <1>5, <1>6, <1>7, <1>8, <1>9, <1>10 DEF Next, Runner, Assertions


(* The first state.                                                        *)
LEMMA RunInit == Init => RunInv
<1> SUFFICES ASSUME Init
             PROVE  RunInv
  OBVIOUS
<1> USE DEF Init, InitUnity
<1>1. /\ Files # <<>> /\ Files \in Seq(Range(Files)) /\ Len(Files) \in Nat \ {0}
      /\ DOMAIN Files = 1 .. Len(Files)
  <2>1. Files # <<>> /\ Files \in Seq(Range(Files))
    BY ProgramsAssumption DEF Files
  <2>2. QED
    BY <2>1, EmptySeq, LenProperties
<1>2. lines \in [DOMAIN Files -> Seq(Results)] /\ \A f \in DOMAIN Files : lines[f] = <<>>
  <2>1. <<>> \in Seq(Results)
    OBVIOUS
  <2>2. QED
    BY <2>1
<1>3. RunTypes
  <2>1. /\ Unity \in [NumberOfTests : Nat, TestFailures : Nat, TestIgnores : Nat,
                      CurrentTestFailed : BOOLEAN, CurrentTestIgnored : BOOLEAN]
    BY DEF Zero
  <2>2. asked.macro = "none" /\ Len(asked.report) <= 1 /\ Answered
    BY DEF NotAsked, Answered
  <2>3. QED
    BY <1>1, <1>2, <2>1, <2>2 DEF RunTypes, UnityTypeOK, Results
<1>4. FilesInOrder
  BY <1>1, <1>2 DEF FilesInOrder, InTest
<1>5. QED
  BY <1>3, <1>4 DEF RunInv, ResultsAgree, StatusAgrees, InTest

(* A line more in the current file.                                        *)
LEMMA OneMoreLine ==
  ASSUME RunTypes, file \in DOMAIN Files, NEW x \in Results, PrintResult(x)
  PROVE  /\ lines' \in [DOMAIN Files -> Seq(Results)]
         /\ \A f \in DOMAIN Files : f # file => lines'[f] = lines[f]
         /\ Len(lines[file]) \in Nat
         /\ Len(lines'[file]) = Len(lines[file]) + 1
         /\ \A r \in Results : /\ Times(r, lines[file]) \in 0 .. Len(lines[file])
                               /\ Times(r, lines'[file]) = Times(r, lines[file])
                                                             + (IF x = r THEN 1 ELSE 0)
<1>1. lines[file] \in Seq(Results) /\ lines' = [lines EXCEPT ![file] = Append(lines[file], x)]
  BY DEF RunTypes, PrintResult
<1>2. /\ Append(lines[file], x) \in Seq(Results)
      /\ Len(Append(lines[file], x)) = Len(lines[file]) + 1
      /\ Len(lines[file]) \in Nat
  BY <1>1, AppendProperties, LenProperties
<1>3. lines'[file] = Append(lines[file], x)
  BY <1>1 DEF RunTypes
<1>4. QED
  BY <1>1, <1>2, <1>3, TimesAppend DEF RunTypes

LEMMA RunNext == RunInv /\ [Next]_vars => RunInv'
<1> SUFFICES ASSUME RunInv, [Next]_vars
             PROVE  RunInv'
  OBVIOUS
<1> USE DEF RunInv
<1> DEFINE n == Unity.NumberOfTests
<1>1. /\ Len(Files) \in Nat \ {0} /\ DOMAIN Files = 1 .. Len(Files)
      /\ \A f \in DOMAIN Files : Files[f].tests \in 1 .. 255
  BY FilesType
<1>2. /\ Unity \in [NumberOfTests : Nat, TestFailures : Nat, TestIgnores : Nat,
                    CurrentTestFailed : BOOLEAN, CurrentTestIgnored : BOOLEAN]
      /\ file \in 1 .. Len(Files) + 1 /\ status \in -1 .. 255
      /\ lines \in [DOMAIN Files -> Seq(Results)]
      /\ program \in DOMAIN Programs
      /\ stage \in {"main", "file", "setUp", "body", "tearDown", "conclude", "exited"}
      /\ Asked
  BY DEF RunTypes, UnityTypeOK, Asked
<1>3. ASSUME program' = program,
             Unity' \in [NumberOfTests : Nat, TestFailures : Nat, TestIgnores : Nat,
                         CurrentTestFailed : BOOLEAN, CurrentTestIgnored : BOOLEAN],
             file' \in 1 .. Len(Files) + 1, status' \in -1 .. 255,
             lines' \in [DOMAIN Files -> Seq(Results)], Asked',
             stage' \in {"main", "file", "setUp", "body", "tearDown", "conclude", "exited"}
      PROVE  RunTypes'
  BY <1>2, <1>3 DEF RunTypes, UnityTypeOK, Asked, Files, Results
<1>4. ASSUME UNCHANGED asked
      PROVE  Asked'
  BY <1>2, <1>4 DEF Asked, Answered
<1>5. CASE GoesOn
  <2>1. RunTypes'
    BY <1>2, <1>3, <1>5 DEF GoesOn
  <2>2. FilesInOrder'
    BY <1>5 DEF GoesOn, FilesInOrder, InTest, Files
  <2>3. ResultsAgree'
    BY <1>5 DEF GoesOn, ResultsAgree, InTest, Files
  <2>4. StatusAgrees'
    BY <1>5 DEF GoesOn, StatusAgrees, Files
  <2>5. QED
    BY <2>1, <2>2, <2>3, <2>4
<1>6. ASSUME NEW result \in {"FAIL", "IGNORE"}, PrintResult(result),
             stage \in {"body", "tearDown"}, TEST_ABORT, ~RETURN_IF_FAIL_OR_IGNORE,
             Unity' = IF result = "FAIL" THEN [Unity EXCEPT !.CurrentTestFailed = TRUE]
                                         ELSE [Unity EXCEPT !.CurrentTestIgnored = TRUE],
             Asked', UNCHANGED <<program, file, status>>
      PROVE  RunInv'
  <2>1. file \in DOMAIN Files /\ result \in Results /\ Files' = Files
    BY <1>6 DEF FilesInOrder, InTest, Results, Files
  <2>2. /\ lines' \in [DOMAIN Files -> Seq(Results)]
        /\ \A f \in DOMAIN Files : f # file => lines'[f] = lines[f]
        /\ Len(lines[file]) \in Nat
        /\ Len(lines'[file]) = Len(lines[file]) + 1
        /\ \A r \in Results : /\ Times(r, lines[file]) \in 0 .. Len(lines[file])
                              /\ Times(r, lines'[file]) = Times(r, lines[file])
                                                            + (IF result = r THEN 1 ELSE 0)
    BY <1>6, <2>1, OneMoreLine
  <2>3. stage' \in {"tearDown", "conclude"}
    BY <1>6 DEF TEST_ABORT
  <2>4. RunTypes'
    BY <1>2, <1>3, <1>6, <2>2, <2>3
  <2>5. FilesInOrder'
    <3>1. Files' = Files /\ file' = file /\ file \in DOMAIN Files
      BY <1>6, <2>1
    <3>2. \A f \in DOMAIN Files : f # file => lines'[f] = lines[f]
      BY <2>2
    <3>3. file \in Int /\ \A f \in DOMAIN Files : f < file \/ f > file => f # file
      BY <1>2
    <3>4. \A f \in DOMAIN Files :
            /\ f < file => Len(lines'[f]) = Files[f].tests /\ Times("FAIL", lines'[f]) = 0
            /\ f > file => lines'[f] = <<>>
      BY <1>1, <3>2, <3>3, Zenon DEF FilesInOrder
    <3>5. QED
      BY <3>1, <3>4, <2>3 DEF FilesInOrder
  <2>6. /\ Unity'.NumberOfTests = n /\ Unity'.TestFailures = Unity.TestFailures
        /\ Unity'.TestIgnores = Unity.TestIgnores
        /\ Unity'.CurrentTestFailed = (result = "FAIL")
        /\ Unity'.CurrentTestIgnored = (result = "IGNORE")
    BY <1>2, <1>6 DEF RETURN_IF_FAIL_OR_IGNORE
  <2>7. ResultsAgree'
    BY <1>1, <1>2, <1>6, <2>1, <2>2, <2>3, <2>6
       DEF ResultsAgree, InTest, RETURN_IF_FAIL_OR_IGNORE, Results
  <2>8. QED
    BY <2>3, <2>4, <2>5, <2>7 DEF StatusAgrees
<1>7. CASE Abandons
  <2>1. CASE RETURN_IF_FAIL_OR_IGNORE
    <3>1. GoesOn
      BY <1>7, <2>1 DEF Abandons, UnityFail, TEST_ABORT, GoesOn
    <3>2. QED
      BY <1>5, <3>1
  <2>2. CASE ~RETURN_IF_FAIL_OR_IGNORE
    BY <1>6, <1>7, <2>2 DEF Abandons, UnityFail
  <2>3. QED
    BY <2>1, <2>2
<1>8. CASE UnityIgnore
  <2>1. stage = "body" /\ ~RETURN_IF_FAIL_OR_IGNORE /\ Asked'
    BY <1>4, <1>8 DEF UnityIgnore, InBody, ResultsAgree, InTest, RETURN_IF_FAIL_OR_IGNORE
  <2>2. QED
    BY <1>6, <1>8, <2>1 DEF UnityIgnore
<1>9. CASE UnityBegin
  <2>1. /\ file \in DOMAIN Files /\ lines[file] = <<>> /\ Unity' = Zero /\ stage' = "file"
        /\ UNCHANGED <<program, file, asked, lines, status>> /\ Files' = Files
    BY <1>9 DEF UnityBegin, FilesInOrder, Files
  <2>2. RunTypes'
    BY <1>2, <1>3, <1>4, <2>1 DEF Zero
  <2>3. FilesInOrder'
    BY <2>1 DEF FilesInOrder
  <2>4. Len(lines[file]) = 0 /\ \A r : Times(r, lines[file]) = 0
    BY <2>1, TimesOfNone
  <2>5. /\ Unity'.NumberOfTests = 0 /\ Unity'.TestFailures = 0 /\ Unity'.TestIgnores = 0
        /\ Unity'.CurrentTestFailed = FALSE /\ Unity'.CurrentTestIgnored = FALSE
    BY <2>1 DEF Zero
  <2>6. ResultsAgree'
    <3>1. Len(lines'[file']) = 0 /\ \A r : Times(r, lines'[file']) = 0
      BY <2>1, <2>4
    <3>2. ~InTest'
      BY <2>1 DEF InTest
    <3>3. Files'[file'].tests \in 1 .. 255
      <4>1. Files[file].tests \in 1 .. 255
        BY <1>1, <2>1
      <4>2. QED
        BY <2>1, <4>1
    <3>4. Unity'.NumberOfTests <= Files'[file'].tests
      BY <2>5, <3>3
    <3>5. QED
      BY <2>5, <3>1, <3>2, <3>4 DEF ResultsAgree
  <2>7. QED
    BY <2>1, <2>2, <2>3, <2>6 DEF StatusAgrees
<1>10. CASE StartTest
  <2>1. /\ file \in DOMAIN Files /\ n < Files[file].tests /\ stage = "file"
        /\ Unity' = [Unity EXCEPT !.NumberOfTests = n + 1] /\ stage' = "setUp"
        /\ UNCHANGED <<program, file, asked, lines, status>> /\ Files' = Files
    BY <1>10 DEF StartTest, FilesInOrder, Files
  <2>2. RunTypes'
    BY <1>2, <1>3, <1>4, <2>1
  <2>3. FilesInOrder'
    BY <2>1 DEF FilesInOrder, InTest
  <2>4. /\ Unity'.NumberOfTests = n + 1 /\ Unity'.TestFailures = Unity.TestFailures
        /\ Unity'.TestIgnores = Unity.TestIgnores
        /\ Unity'.CurrentTestFailed = Unity.CurrentTestFailed
        /\ Unity'.CurrentTestIgnored = Unity.CurrentTestIgnored
    BY <1>2, <2>1
  <2>5. Len(lines[file]) \in Nat /\ lines[file] = lines'[file']
    BY <1>2, <2>1, LenProperties
  <2>6. ResultsAgree'
    <3>1. InTest' /\ stage' = "setUp" /\ ~InTest
      BY <2>1 DEF InTest
    <3>2. Files'[file'].tests = Files[file].tests /\ Files[file].tests \in 1 .. 255
      BY <1>1, <2>1
    <3>3. Unity'.NumberOfTests <= Files'[file'].tests
      <4>1. n \in Nat /\ n < Files[file].tests
        BY <1>2, <2>1
      <4>2. n + 1 <= Files[file].tests
        BY <3>2, <4>1
      <4>3. QED
        BY <2>4, <3>2, <4>2
    <3>4. ~Unity.CurrentTestFailed /\ ~Unity.CurrentTestIgnored
      BY <2>1 DEF ResultsAgree
    <3>7. n = Len(lines[file])
      BY <2>1, <2>5, <3>1 DEF ResultsAgree
    <3>5. /\ Times("FAIL", lines[file]) = Unity.TestFailures
          /\ Times("IGNORE", lines[file]) = Unity.TestIgnores
      BY <1>2, <2>1, <3>4 DEF ResultsAgree
    <3>6. QED
      BY <1>2, <2>4, <2>5, <3>1, <3>3, <3>4, <3>5, <3>7 DEF ResultsAgree
  <2>7. QED
    BY <2>1, <2>2, <2>3, <2>6 DEF StatusAgrees
<1>11. CASE UnityConcludeTest
  <2> DEFINE failed == Unity.CurrentTestFailed
             ignored == Unity.CurrentTestIgnored
  <2>1. /\ file \in DOMAIN Files /\ stage = "conclude" /\ stage' = "file" /\ ~(failed /\ ignored)
        /\ UNCHANGED <<program, file, asked, status>> /\ Files' = Files
    BY <1>11 DEF UnityConcludeTest, FilesInOrder, InTest, ResultsAgree, Files
  <2>2. /\ Unity'.NumberOfTests = n
        /\ Unity'.TestIgnores = Unity.TestIgnores + (IF ignored THEN 1 ELSE 0)
        /\ Unity'.TestFailures = Unity.TestFailures + (IF failed THEN 1 ELSE 0)
        /\ Unity'.CurrentTestFailed = FALSE /\ Unity'.CurrentTestIgnored = FALSE
        /\ Unity' \in [NumberOfTests : Nat, TestFailures : Nat, TestIgnores : Nat,
                       CurrentTestFailed : BOOLEAN, CurrentTestIgnored : BOOLEAN]
    <3> DEFINE ignores  == IF ignored THEN Unity.TestIgnores + 1 ELSE Unity.TestIgnores
               failures == IF failed /\ ~ignored THEN Unity.TestFailures + 1
                                                 ELSE Unity.TestFailures
    <3>1. ignores \in Nat /\ failures \in Nat
      BY <1>2
    <3>2. /\ ignores = Unity.TestIgnores + (IF ignored THEN 1 ELSE 0)
          /\ failures = Unity.TestFailures + (IF failed THEN 1 ELSE 0)
      BY <1>2, <2>1
    <3>3. Unity' = [Unity EXCEPT !.TestIgnores = ignores, !.TestFailures = failures,
                                 !.CurrentTestFailed = FALSE, !.CurrentTestIgnored = FALSE]
      BY <1>2, <1>11 DEF UnityConcludeTest
    <3> HIDE DEF ignores, failures
    <3>4. QED
      BY <1>2, <3>1, <3>2, <3>3
  <2>3. /\ lines' \in [DOMAIN Files -> Seq(Results)]
        /\ \A f \in DOMAIN Files : f # file => lines'[f] = lines[f]
        /\ Len(lines'[file]) = Len(lines[file]) + (IF failed \/ ignored THEN 0 ELSE 1)
        /\ \A r \in {"FAIL", "IGNORE"} : Times(r, lines'[file]) = Times(r, lines[file])
        /\ Len(lines[file]) \in Nat
    <3>1. CASE failed \/ ignored
      BY <1>2, <1>11, <2>1, <3>1, LenProperties DEF UnityConcludeTest
    <3>2. CASE ~failed /\ ~ignored
      <4>1. PrintResult("PASS") /\ "PASS" \in Results
        BY <1>11, <3>2 DEF UnityConcludeTest, Results
      <4>2. /\ lines' \in [DOMAIN Files -> Seq(Results)]
            /\ \A f \in DOMAIN Files : f # file => lines'[f] = lines[f]
            /\ Len(lines[file]) \in Nat
            /\ Len(lines'[file]) = Len(lines[file]) + 1
            /\ \A r \in Results : /\ Times(r, lines[file]) \in 0 .. Len(lines[file])
                                  /\ Times(r, lines'[file]) = Times(r, lines[file])
                                       + (IF "PASS" = r THEN 1 ELSE 0)
        BY <2>1, <4>1, OneMoreLine
      <4>3. \A r \in {"FAIL", "IGNORE"} : Times(r, lines'[file]) = Times(r, lines[file])
        BY <4>2 DEF Results
      <4>4. QED
        BY <3>2, <4>2, <4>3
    <3>3. QED
      BY <3>1, <3>2
  <2>4. RunTypes'
    BY <1>2, <1>3, <1>4, <2>1, <2>2, <2>3
  <2>5. FilesInOrder'
    BY <1>1, <1>2, <2>1, <2>3 DEF FilesInOrder, InTest
  <2>6. ResultsAgree'
    BY <1>1, <1>2, <2>1, <2>2, <2>3 DEF ResultsAgree, InTest
  <2>7. QED
    BY <2>1, <2>4, <2>5, <2>6 DEF StatusAgrees
<1>12. CASE UnityEnd
  <2>1. /\ file \in DOMAIN Files /\ stage = "file" /\ n = Files[file].tests
        /\ UNCHANGED <<Unity, program, asked, lines>> /\ Files' = Files
        /\ Len(lines[file]) = n /\ Times("FAIL", lines[file]) = Unity.TestFailures
    BY <1>2, <1>12, LenProperties DEF UnityEnd, FilesInOrder, ResultsAgree, InTest, Files
  <2>2. Unity.TestFailures \in 0 .. 255 /\ n \in 1 .. 255
    <3>1. lines[file] \in Seq(Results)
      BY <1>2, <2>1
    <3>2. Times("FAIL", lines[file]) \in 0 .. Len(lines[file])
      BY <3>1, TimesAppend DEF Results
    <3>3. n \in 1 .. 255 /\ Unity.TestFailures \in Nat
      BY <1>1, <1>2, <2>1
    <3>4. Unity.TestFailures \in 0 .. n
      BY <2>1, <3>2
    <3>5. QED
      BY <3>3, <3>4
  <2>3. CASE Unity.TestFailures # 0
    <3>1. /\ status' = Unity.TestFailures /\ stage' = "exited" /\ file' = file
      BY <1>12, <2>2, <2>3 DEF UnityEnd
    <3>2. RunTypes'
      BY <1>2, <1>3, <1>4, <2>1, <2>2, <3>1
    <3>3. FilesInOrder' /\ ResultsAgree' /\ StatusAgrees'
      BY <2>1, <2>3, <3>1 DEF FilesInOrder, ResultsAgree, InTest, StatusAgrees
    <3>4. QED
      BY <3>2, <3>3
  <2>4. CASE Unity.TestFailures = 0
    <3>1. /\ status' = status /\ stage' = "main" /\ file' = file + 1
      BY <1>12, <2>4 DEF UnityEnd
    <3>2. file' \in 1 .. Len(Files) + 1
      BY <1>1, <2>1, <3>1
    <3>3. RunTypes'
      BY <1>2, <1>3, <1>4, <2>1, <3>1, <3>2
    <3>4. FilesInOrder'
      BY <1>1, <2>1, <2>4, <3>1 DEF FilesInOrder, InTest
    <3>5. QED
      BY <3>1, <3>3, <3>4 DEF ResultsAgree, InTest, StatusAgrees
  <2>5. QED
    BY <2>3, <2>4
<1>13. CASE MainReturns
  <2>1. /\ file \notin DOMAIN Files /\ status' = 0 /\ stage' = "exited"
        /\ UNCHANGED <<Unity, program, file, asked, lines>> /\ Files' = Files
    BY <1>13 DEF MainReturns, Files
  <2>2. RunTypes'
    BY <1>2, <1>3, <1>4, <2>1
  <2>3. QED
    BY <2>1, <2>2 DEF FilesInOrder, ResultsAgree, InTest, StatusAgrees
<1>14. QED
  BY UnitySteps, <1>5, <1>7, <1>8, <1>9, <1>10, <1>11, <1>12, <1>13 DEF UnityStep

(* Every test that was concluded has printed one result and is counted by  *)
(* it: for any number of files, tests and assertions, and whatever a test  *)
(* does to its memory, threads and children.                               *)
THEOREM ResultsCorrect == Spec => []ResultsAreCounted
<1>1. RunInv => ResultsAreCounted
  <2> SUFFICES ASSUME RunInv, stage = "file"
               PROVE  /\ Len(lines[file]) = Unity.NumberOfTests
                      /\ Cardinality(LinesOf("FAIL"))   = Unity.TestFailures
                      /\ Cardinality(LinesOf("IGNORE")) = Unity.TestIgnores
    BY DEF ResultsAreCounted
  <2>1. /\ file \in DOMAIN Files /\ lines[file] \in Seq(Results)
        /\ Unity.TestFailures \in Nat /\ Unity.TestIgnores \in Nat
    BY DEF RunInv, FilesInOrder, RunTypes, UnityTypeOK
  <2>2. Len(lines[file]) \in Nat
    BY <2>1, LenProperties
  <2>3. QED
    BY <2>1, <2>2 DEF RunInv, ResultsAgree, InTest, Times, LinesOf
<1>2. QED
  BY <1>1, RunInit, RunNext, PTL DEF Spec

(* An assertion lets the test go on exactly when what its macro claims is  *)
(* true of the arguments, for any arguments and every size of the types.   *)
THEOREM VerdictsCorrect == Spec => []VerdictsAreTrue
<1>1. RunInv => VerdictsAreTrue
  <2> SUFFICES ASSUME RunInv, asked.macro # "none", OneSided(asked.macro, asked.a)
               PROVE  asked.report = <<>> <=> Holds(asked.macro, asked.a)
    BY DEF VerdictsAreTrue
  <2>1. /\ asked.macro \in Macros /\ Typed(asked.macro, asked.a)
        /\ asked.report = UnityAssert(asked.macro, asked.a)
    BY DEF RunInv, RunTypes, Answered
  <2>2. QED
    BY <2>1, Verdict
<1>2. QED
  BY <1>1, RunInit, RunNext, PTL DEF Spec

(* The report of an assertion that failed names the first element that     *)
(* does not agree and shows the two values it compared, for any arguments  *)
(* that can be printed in full and every size of the types.                *)
THEOREM ReportsCorrect == Spec => []ReportsShowTheMismatch
<1>1. RunInv => ReportsShowTheMismatch
  <2> SUFFICES ASSUME RunInv, asked.report # <<>>, OneSided(asked.macro, asked.a),
                      PrintedInFull(asked.macro, asked.a)
               PROVE  ReportShows(asked.report[1], asked.macro, asked.a)
    BY DEF ReportsShowTheMismatch
  <2>1. PICK macro, a, report :
          macro = asked.macro /\ a = asked.a /\ report = asked.report
    OBVIOUS
  <2>2. /\ macro \in Macros /\ Typed(macro, a) /\ OneSided(macro, a) /\ PrintedInFull(macro, a)
        /\ report = UnityAssert(macro, a) /\ report # <<>>
    BY <2>1 DEF RunInv, RunTypes, Answered
  <2>3. ReportShows(report[1], macro, a)
    BY <2>2, Reported
  <2>4. QED
    BY <2>1, <2>3
<1>2. QED
  BY <1>1, RunInit, RunNext, PTL DEF Spec

(* The exit status is 0 exactly when every test of every file ran and none *)
(* failed.  A file has fewer than 256 tests (ProgramsAssumption).          *)
THEOREM ExitStatusCorrect == Spec => []ExitStatusIsTrue
<1>1. RunInv => ExitStatusIsTrue
  <2> SUFFICES ASSUME RunInv, stage = "exited"
               PROVE  (status = 0) = \A f \in DOMAIN Files :
                        Len(lines[f]) = Files[f].tests /\ "FAIL" \notin Range(lines[f])
    BY DEF ExitStatusIsTrue
  <2>1. /\ DOMAIN Files = 1 .. Len(Files) /\ Len(Files) \in Nat
        /\ file \in 1 .. Len(Files) + 1
        /\ \A f \in DOMAIN Files : lines[f] \in Seq(Results)
    BY FilesType DEF RunInv, RunTypes, UnityTypeOK
  <2>2. \A f \in DOMAIN Files : Times("FAIL", lines[f]) = 0 <=> "FAIL" \notin Range(lines[f])
    BY <2>1, TimesZero
  <2>3. CASE file \in DOMAIN Files
    BY <2>2, <2>3 DEF RunInv, StatusAgrees
  <2>4. CASE file \notin DOMAIN Files
    <3>1. \A f \in DOMAIN Files : f < file
      BY <2>1, <2>4
    <3>2. QED
      BY <2>2, <2>4, <3>1 DEF RunInv, StatusAgrees, FilesInOrder
  <2>5. QED
    BY <2>3, <2>4
<1>2. QED
  BY <1>1, RunInit, RunNext, PTL DEF Spec


-----------------------------------------------------------------------------
(* The heap.                                                               *)

Aligned(n) == n % Alignment = 0
Blocks == [at : 0 .. HeapSize - 1, size : AskedSizes \ {0}, overrun : BOOLEAN]
EndOfBlock(b) == b.at + TotalSize(b.size)
NewBlock(at, size) == [at |-> at, size |-> size, overrun |-> FALSE]

(* The blocks H lie in the heap below index, one behind the other.         *)
Placed(index, H) ==
  /\ index \in 0 .. HeapSize /\ Aligned(index)
  /\ H \subseteq Blocks
  /\ \A b \in H : Aligned(b.at) /\ EndOfBlock(b) <= index
  /\ \A b, c \in H : b # c => b.at # c.at
  /\ \A b, c \in H : b.at < c.at => EndOfBlock(b) <= c.at

MemoryTypes ==
  /\ malloc_count \in Int /\ malloc_fail_countdown \in -1 .. 1
  /\ heap_index \in 0 .. HeapSize /\ overran \in BOOLEAN /\ held \subseteq Blocks

(* And there are n of them.                                                *)
Heap(index, H, n) == Placed(index, H) /\ IsFiniteSet(H) /\ n = Cardinality(H)

MemoryInv == MemoryTypes /\ Heap(heap_index, held, malloc_count)

(* What the framework knows of the memory of a test.                       *)
LeaksInv ==
  kind = "memory" =>
    /\ stage = "body" => ~overran
    /\ stage \in {"tearDown", "conclude"} /\ overran => RETURN_IF_FAIL_OR_IGNORE
    /\ stage = "conclude" /\ ~RETURN_IF_FAIL_OR_IGNORE => malloc_count = 0

(* The multiples of a number leave no remainder.                           *)
LEMMA Multiple ==
  ASSUME NEW a \in Nat \ {0}, NEW q \in Nat
  PROVE  (a * q) % a = 0
<1> DEFINE x == a * q
           d == x \div a
           r == x % a
<1>1. x \in Nat
  OBVIOUS
<1> HIDE DEF x
<1>2. d \in Nat /\ r \in 0 .. a - 1 /\ x = a * d + r
  BY <1>1
<1> HIDE DEF d, r
<1>3. a * (q - d) = r
  BY <1>2 DEF x
<1> DEFINE e == q - d
<1>4. e \in Int /\ a * e = r
  BY <1>2, <1>3
<1> HIDE DEF e
<1>5. e >= 1 => a * e >= a
  BY <1>4
<1>6. e <= -1 => a * e <= -a
  BY <1>4
<1>7. e = 0
  BY <1>2, <1>4, <1>5, <1>6
<1>8. r = 0
  BY <1>4, <1>7
<1>9. QED
  BY <1>8 DEF r, x

(* A block takes a whole number of alignments, and at least its guard, its *)
(* memory and its end marker.                                              *)
LEMMA RoundUp ==
  ASSUME NEW size \in Nat, NEW a \in Nat \ {0}
  PROVE  /\ ((size + a - 1) \div a) * a \in Nat
         /\ ((size + a - 1) \div a) * a >= size
         /\ (((size + a - 1) \div a) * a) % a = 0
<1> DEFINE q == (size + a - 1) \div a
           r == (size + a - 1) % a
<1>1. q \in Nat /\ r \in 0 .. a - 1 /\ size + a - 1 = a * q + r
  OBVIOUS
<1>2. a * q = q * a /\ q * a \in Nat
  BY <1>1
<1> HIDE DEF q, r
<1>3. q * a >= size
  BY <1>1, <1>2
<1>4. (q * a) % a = 0
  BY <1>1, <1>2, Multiple
<1>5. QED
  BY <1>2, <1>3, <1>4 DEF q

LEMMA Quotient ==
  ASSUME NEW a \in Nat \ {0}, NEW x \in Nat, x % a = 0
  PROVE  \E q \in Nat : x = a * q
<1> DEFINE d == x \div a
           r == x % a
<1>1. d \in Nat /\ r = 0 /\ x = a * d + r
  OBVIOUS
<1> HIDE DEF d, r
<1>2. QED
  BY <1>1

LEMMA AlignedSum ==
  ASSUME NEW m \in Nat, NEW n \in Nat, Aligned(m), Aligned(n)
  PROVE  Aligned(m + n)
<1>1. ASSUME NEW a \in Nat \ {0}, m % a = 0, n % a = 0
      PROVE  (m + n) % a = 0
  <2>1. PICK p \in Nat : m = a * p
    BY <1>1, Quotient
  <2>2. PICK q \in Nat : n = a * q
    BY <1>1, Quotient
  <2>3. m + n = a * (p + q) /\ p + q \in Nat
    BY <1>1, <2>1, <2>2
  <2>4. QED
    BY <1>1, <2>3, Multiple
<1>2. QED
  BY <1>1, HeapAssumption DEF Aligned

LEMMA TotalSizes ==
  ASSUME NEW size \in AskedSizes
  PROVE  /\ TotalSize(size) \in Nat /\ Aligned(TotalSize(size))
         /\ TotalSize(size) >= GuardSize + size + EndSize
         /\ TotalSize(size) > 0
<1>1. /\ {HeapSize, Alignment, GuardSize, EndSize} \subseteq Nat \ {0} /\ size \in Nat
      /\ Aligned(GuardSize)
  BY HeapAssumption DEF Aligned
<1> DEFINE s == size + EndSize
<1>2. BlockSize(size) = ((s + Alignment - 1) \div Alignment) * Alignment /\ s \in Nat
  BY <1>1 DEF BlockSize, unity_size_round_up
<1>3. Alignment \in Nat \ {0} /\ GuardSize \in Nat \ {0} /\ EndSize \in Nat \ {0}
  BY <1>1
<1> HIDE DEF s
<1>4. BlockSize(size) \in Nat /\ BlockSize(size) >= s /\ BlockSize(size) % Alignment = 0
  BY <1>2, <1>3, RoundUp
<1>5. Aligned(TotalSize(size))
  BY <1>1, <1>3, <1>4, AlignedSum DEF TotalSize, Aligned
<1>6. QED
  BY <1>1, <1>3, <1>4, <1>5 DEF TotalSize, s

(* One block more, at the end.                                             *)
LEMMA PlaceOne ==
  ASSUME NEW index, NEW H, NEW size \in AskedSizes \ {0}, Placed(index, H),
         index + TotalSize(size) <= HeapSize
  PROVE  /\ NewBlock(index, size) \notin H
         /\ Placed(index + TotalSize(size), H \cup {NewBlock(index, size)})
<1> DEFINE b == NewBlock(index, size)
<1>1. /\ TotalSize(size) \in Nat /\ TotalSize(size) > 0 /\ Aligned(TotalSize(size))
      /\ HeapSize \in Nat /\ index \in 0 .. HeapSize
  BY TotalSizes, HeapAssumption DEF Placed
<1>2. \A c \in Blocks : EndOfBlock(c) \in Nat /\ EndOfBlock(c) > c.at
  BY TotalSizes DEF Blocks, EndOfBlock
<1>3. b \in Blocks /\ EndOfBlock(b) = index + TotalSize(size) /\ b.at = index
  BY <1>1 DEF Blocks, EndOfBlock, NewBlock
<1>4. Aligned(index + TotalSize(size))
  BY <1>1, AlignedSum DEF Placed
<1> HIDE DEF b
<1>5. \A c \in H : c \in Blocks /\ EndOfBlock(c) <= index /\ c.at < index
  BY <1>1, <1>2 DEF Placed, Blocks
<1>6. b \notin H
  BY <1>1, <1>3, <1>5
<1>7. Placed(index + TotalSize(size), H \cup {b})
  <2>1. \A c \in H \cup {b} : Aligned(c.at) /\ EndOfBlock(c) <= index + TotalSize(size)
    BY <1>1, <1>2, <1>3, <1>5 DEF Placed
  <2>2. \A c, d \in H \cup {b} : c # d => c.at # d.at
    BY <1>1, <1>3, <1>5 DEF Placed
  <2>3. \A c, d \in H \cup {b} : c.at < d.at => EndOfBlock(c) <= d.at
    BY <1>1, <1>3, <1>5 DEF Placed, Blocks
  <2>4. QED
    BY <1>1, <1>3, <1>4, <2>1, <2>2, <2>3 DEF Placed
<1>8. QED
  BY <1>6, <1>7 DEF b

(* One block less: when it was the last one the heap gets smaller.         *)
LEMMA RemoveOne ==
  ASSUME NEW index, NEW H, NEW b \in H, Placed(index, H)
  PROVE  /\ Placed(index, H \ {b})
         /\ EndOfBlock(b) = index => Placed(b.at, H \ {b})
<1>1. HeapSize \in Nat /\ index \in 0 .. HeapSize
  BY HeapAssumption DEF Placed
<1>2. \A c \in H : /\ c \in Blocks /\ EndOfBlock(c) \in Nat /\ EndOfBlock(c) > c.at
                   /\ c.at \in 0 .. HeapSize
  BY <1>1, TotalSizes DEF Placed, Blocks, EndOfBlock
<1>3. Placed(index, H \ {b})
  BY DEF Placed
<1>4. ASSUME EndOfBlock(b) = index
      PROVE  Placed(b.at, H \ {b})
  <2>1. ASSUME NEW c \in H \ {b}
        PROVE  EndOfBlock(c) <= b.at
    <3>1. c.at # b.at /\ EndOfBlock(c) <= index
      BY DEF Placed
    <3>2. b.at < c.at => EndOfBlock(b) <= c.at
      BY DEF Placed
    <3>3. c.at < b.at => EndOfBlock(c) <= b.at
      BY DEF Placed
    <3>4. QED
      BY <1>2, <1>4, <3>1, <3>2, <3>3
  <2>2. QED
    BY <1>2, <1>3, <2>1 DEF Placed
<1>5. QED
  BY <1>3, <1>4

(* What Malloc and a release do to the index.                              *)
LEMMA MallocResult ==
  ASSUME NEW size \in AskedSizes, NEW index \in 0 .. HeapSize, NEW count \in Int
  PROVE  \/ /\ Malloc(size, index, count) = [block |-> {}, index |-> index, count |-> count]
            /\ malloc_fail_countdown = 0 \/ size = 0 \/ index + TotalSize(size) > HeapSize
         \/ /\ Malloc(size, index, count) =
                 [block |-> {NewBlock(index, size)}, index |-> index + TotalSize(size),
                  count |-> count + 1]
            /\ NewBlock(index, size) \in Blocks /\ index + TotalSize(size) \in 0 .. HeapSize
            /\ size # 0
<1>1. HeapSize \in Nat /\ size \in Nat /\ TotalSize(size) \in Nat /\ TotalSize(size) > 0
  BY HeapAssumption, TotalSizes
<1>2. index + TotalSize(size) <= HeapSize => index \in 0 .. HeapSize - 1
  BY <1>1
<1>3. QED
  BY <1>1, <1>2 DEF Malloc, Blocks, NewBlock

LEMMA MallocTypes ==
  ASSUME NEW size \in AskedSizes, NEW index \in 0 .. HeapSize, NEW count \in Int
  PROVE  /\ Malloc(size, index, count).count \in Int
         /\ Malloc(size, index, count).index \in 0 .. HeapSize
         /\ Malloc(size, index, count).block \subseteq Blocks
<1> DEFINE m == Malloc(size, index, count)
           b == NewBlock(index, size)
<1>1. \/ /\ m.block = {} /\ m.index = index /\ m.count = count
      \/ /\ m.block = {b} /\ m.index = index + TotalSize(size) /\ m.count = count + 1
         /\ b \in Blocks /\ m.index \in 0 .. HeapSize /\ size # 0
  BY MallocResult
<1> HIDE DEF m, b
<1>2. m.count \in Int /\ m.index \in 0 .. HeapSize /\ m.block \subseteq Blocks
  BY <1>1
<1>3. QED
  BY <1>2 DEF m

LEMMA ReleaseResult ==
  ASSUME MemoryTypes, NEW b \in held
  PROVE  /\ HeapAfterRelease(b) = IF EndOfBlock(b) = heap_index THEN b.at ELSE heap_index
         /\ HeapAfterRelease(b) \in 0 .. HeapSize
         /\ b.overrun \in BOOLEAN /\ b.size \in AskedSizes \ {0} /\ b.at \in 0 .. HeapSize - 1
         /\ TotalSize(b.size) \in Nat
<1>1. /\ b.at \in 0 .. HeapSize - 1 /\ b.size \in AskedSizes \ {0} /\ b.overrun \in BOOLEAN
      /\ heap_index \in 0 .. HeapSize /\ HeapSize \in Nat /\ TotalSize(b.size) \in Nat
  BY HeapAssumption, TotalSizes DEF MemoryTypes, Blocks
<1>2. QED
  BY <1>1 DEF HeapAfterRelease, IsLast, EndOfBlock

LEMMA MemoryTypesNext == MemoryTypes /\ [Next]_vars => MemoryTypes'
<1> SUFFICES ASSUME MemoryTypes, [Next]_vars
             PROVE  MemoryTypes'
  OBVIOUS
<1> DEFINE countdown == malloc_fail_countdown
<1>1. /\ malloc_count \in Int /\ malloc_fail_countdown \in -1 .. 1
      /\ heap_index \in 0 .. HeapSize /\ overran \in BOOLEAN /\ held \subseteq Blocks
  BY DEF MemoryTypes
<1>2. CASE UNCHANGED memory
  BY <1>1, <1>2 DEF MemoryTypes, memory
<1>3. ASSUME CountDown
      PROVE  malloc_fail_countdown' \in -1 .. 1
  BY <1>1, <1>3 DEF CountDown, MALLOC_DONT_FAIL
<1>4. ASSUME NEW b \in held, release_memory(b), malloc_fail_countdown' = malloc_fail_countdown
      PROVE  MemoryTypes'
  BY <1>1, <1>4, ReleaseResult DEF MemoryTypes, release_memory
<1>5. CASE UnityMalloc_StartTest
  <2>1. malloc_count' \in Int /\ malloc_fail_countdown' \in -1 .. 1 /\ heap_index' = heap_index
    BY <1>5 DEF UnityMalloc_StartTest, MALLOC_DONT_FAIL
  <2>2. held' = {} /\ overran' = FALSE
    BY <1>5 DEF UnityMalloc_StartTest
  <2>3. QED
    BY <1>1, <2>1, <2>2 DEF MemoryTypes
<1>6. CASE UnityMalloc_EndTest
  BY <1>1, <1>6 DEF MemoryTypes, UnityMalloc_EndTest, MALLOC_DONT_FAIL
<1>7. ASSUME NEW n \in {0, 1}, UnityMalloc_MakeMallocFailAfterCount(n)
      PROVE  MemoryTypes'
  BY <1>1, <1>7 DEF MemoryTypes, UnityMalloc_MakeMallocFailAfterCount
<1>8. ASSUME NEW size \in AskedSizes, unity_malloc(size)
      PROVE  MemoryTypes'
  <2> DEFINE m == Malloc(size, heap_index, malloc_count)
  <2>1. /\ malloc_count' = m.count /\ heap_index' = m.index /\ held' = held \cup m.block
        /\ overran' = overran
    BY <1>8 DEF unity_malloc
  <2>2. m.count \in Int /\ m.index \in 0 .. HeapSize /\ m.block \subseteq Blocks
    BY <1>1, MallocTypes
  <2> HIDE DEF m
  <2>3. QED
    BY <1>1, <1>3, <1>8, <2>1, <2>2 DEF MemoryTypes, unity_malloc
<1>9. ASSUME NEW b \in held, Overrun(b)
      PROVE  MemoryTypes'
  <2>1. [b EXCEPT !.overrun = TRUE] \in Blocks
    BY <1>1 DEF Blocks
  <2>2. QED
    BY <1>1, <1>9, <2>1 DEF MemoryTypes, Overrun
<1>10. ASSUME NEW b \in held, unity_free(b) \/ ReallocOverrun(b) \/ ReallocToNothing(b)
       PROVE  MemoryTypes'
  BY <1>4, <1>10 DEF unity_free, ReallocOverrun, ReallocToNothing
<1>11. ASSUME NEW b \in held, NEW size \in AskedSizes,
              ReallocInPlace(b, size) \/ ReallocMoves(b, size)
       PROVE  MemoryTypes'
  <2> DEFINE i == HeapAfterRelease(b)
             m == Malloc(size, i, malloc_count - 1)
             k == Malloc(size, heap_index, malloc_count)
  <2>1. i \in 0 .. HeapSize /\ malloc_count - 1 \in Int
    BY <1>1, ReleaseResult
  <2>2. m.count \in Int /\ m.index \in 0 .. HeapSize /\ m.block \subseteq Blocks
    <3> HIDE DEF i
    <3>1. QED
      BY <2>1, MallocTypes
  <2>3. k.count \in Int /\ k.index \in 0 .. HeapSize /\ k.block \subseteq Blocks
    BY <1>1, MallocTypes
  <2>4. /\ overran' = overran /\ CountDown
        /\ \/ malloc_count' = m.count /\ heap_index' = m.index
           \/ malloc_count' = malloc_count /\ heap_index' = heap_index
           \/ malloc_count' = k.count - 1 /\ heap_index' = k.index
        /\ held' \subseteq held \cup m.block \cup k.block
    BY <1>11 DEF ReallocInPlace, ReallocMoves
  <2> HIDE DEF m, k
  <2>5. QED
    BY <1>1, <1>3, <2>2, <2>3, <2>4 DEF MemoryTypes
<1>12. CASE MemoryNext
  BY <1>5, <1>6, <1>7, <1>8, <1>9, <1>10, <1>11, <1>12 DEF MemoryNext
<1>13. QED
  BY <1>2, <1>12 DEF Next, CallsNext, memory, vars

LEMMA AllocateOne ==
  ASSUME NEW index, NEW H, NEW n, NEW size \in AskedSizes \ {0}, Heap(index, H, n),
         index + TotalSize(size) <= HeapSize
  PROVE  /\ NewBlock(index, size) \notin H
         /\ Heap(index + TotalSize(size), H \cup {NewBlock(index, size)}, n + 1)
<1> DEFINE b == NewBlock(index, size)
<1>1. Placed(index, H) /\ IsFiniteSet(H) /\ n = Cardinality(H)
  BY DEF Heap
<1>2. b \notin H /\ Placed(index + TotalSize(size), H \cup {b})
  BY <1>1, PlaceOne
<1> HIDE DEF b
<1>3. IsFiniteSet(H \cup {b}) /\ Cardinality(H \cup {b}) = n + 1
  BY <1>1, <1>2, FS_AddElement
<1>4. QED
  BY <1>2, <1>3 DEF Heap, b

LEMMA ReleaseOne ==
  ASSUME NEW index, NEW H, NEW n, NEW b \in H, Heap(index, H, n)
  PROVE  /\ Heap(index, H \ {b}, n - 1)
         /\ EndOfBlock(b) = index => Heap(b.at, H \ {b}, n - 1)
<1>1. Placed(index, H) /\ IsFiniteSet(H) /\ n = Cardinality(H)
  BY DEF Heap
<1>2. IsFiniteSet(H \ {b}) /\ Cardinality(H \ {b}) = n - 1
  BY <1>1, FS_RemoveElement
<1>3. QED
  BY <1>1, <1>2, RemoveOne DEF Heap

LEMMA MemoryInvNext ==
  ASSUME ~GrowsWhileFailing
  PROVE  MemoryInv /\ [Next]_vars => MemoryInv'
<1> SUFFICES ASSUME MemoryInv, [Next]_vars
             PROVE  Heap(heap_index, held, malloc_count)'
  BY MemoryTypesNext DEF MemoryInv
<1>1. /\ malloc_count \in Int /\ malloc_fail_countdown \in -1 .. 1 /\ held \subseteq Blocks
      /\ heap_index \in 0 .. HeapSize /\ MemoryTypes /\ Heap(heap_index, held, malloc_count)
  BY DEF MemoryInv, MemoryTypes
<1>2. ASSUME UNCHANGED <<heap_index, held, malloc_count>>
      PROVE  Heap(heap_index, held, malloc_count)'
  BY <1>1, <1>2 DEF Heap, Placed
<1>3. ASSUME NEW b \in held, release_memory(b)
      PROVE  Heap(heap_index, held, malloc_count)'
  <2>1. heap_index' = IF EndOfBlock(b) = heap_index THEN b.at ELSE heap_index
    BY <1>1, <1>3, ReleaseResult DEF release_memory
  <2>2. held' = held \ {b} /\ malloc_count' = malloc_count - 1
    BY <1>3 DEF release_memory
  <2>3. /\ Heap(heap_index, held \ {b}, malloc_count - 1)
        /\ EndOfBlock(b) = heap_index => Heap(b.at, held \ {b}, malloc_count - 1)
    BY <1>1, ReleaseOne
  <2>4. Heap(heap_index', held', malloc_count')
    BY <2>1, <2>2, <2>3
  <2>5. QED
    BY <2>4 DEF Heap, Placed
<1>4. CASE UnityMalloc_StartTest
  <2>1. held' = {} /\ malloc_count' = 0 /\ heap_index' = heap_index
    BY <1>4 DEF UnityMalloc_StartTest
  <2>2. IsFiniteSet({}) /\ Cardinality({}) = 0
    BY FS_EmptySet
  <2>3. heap_index \in 0 .. HeapSize /\ Aligned(heap_index)
    BY <1>1 DEF Heap, Placed
  <2>4. QED
    BY <2>1, <2>2, <2>3 DEF Heap, Placed
<1>5. ASSUME NEW size \in AskedSizes, unity_malloc(size)
      PROVE  Heap(heap_index, held, malloc_count)'
  <2> DEFINE m == Malloc(size, heap_index, malloc_count)
             b == NewBlock(heap_index, size)
  <2>1. malloc_count' = m.count /\ heap_index' = m.index /\ held' = held \cup m.block
    BY <1>5 DEF unity_malloc
  <2>2. \/ m.block = {} /\ m.index = heap_index /\ m.count = malloc_count
        \/ /\ m.block = {b} /\ m.index = heap_index + TotalSize(size)
           /\ m.count = malloc_count + 1 /\ m.index \in 0 .. HeapSize /\ size # 0
    BY <1>1, MallocResult
  <2> HIDE DEF m
  <2>3. CASE m.block = {}
    BY <1>2, <2>1, <2>2, <2>3
  <2>4. CASE m.block # {}
    <3>1. size \in AskedSizes \ {0} /\ heap_index + TotalSize(size) <= HeapSize
      BY <2>2, <2>4, HeapAssumption
    <3>2. Heap(heap_index + TotalSize(size), held \cup {b}, malloc_count + 1)
      BY <1>1, <3>1, AllocateOne
    <3>3. Heap(heap_index', held', malloc_count')
      BY <2>1, <2>2, <2>4, <3>2
    <3>4. QED
      BY <3>3 DEF Heap, Placed
  <2>5. QED
    BY <2>3, <2>4
<1>6. ASSUME NEW b \in held, Overrun(b)
      PROVE  Heap(heap_index, held, malloc_count)'
  <2> DEFINE c == [b EXCEPT !.overrun = TRUE]
             H == held \ {b}
  <2>1. c \in Blocks /\ c.at = b.at /\ EndOfBlock(c) = EndOfBlock(b)
    BY <1>1 DEF Blocks, EndOfBlock
  <2>2. held' = H \cup {c} /\ malloc_count' = malloc_count /\ heap_index' = heap_index
    BY <1>6 DEF Overrun
  <2> HIDE DEF c
  <2>3. Placed(heap_index, held) /\ Heap(heap_index, H, malloc_count - 1)
    BY <1>1, ReleaseOne DEF Heap
  <2>4. c \notin H
    BY <2>1, <2>3 DEF Placed
  <2>5. Placed(heap_index, H \cup {c})
    BY <2>1, <2>3 DEF Placed
  <2>6. IsFiniteSet(H) /\ Cardinality(H) = malloc_count - 1
    BY <2>3 DEF Heap
  <2> HIDE DEF H
  <2>7. IsFiniteSet(H \cup {c}) /\ Cardinality(H \cup {c}) = malloc_count - 1 + 1
    BY <2>4, <2>6, FS_AddElement
  <2>8. Heap(heap_index', held', malloc_count')
    BY <1>1, <2>2, <2>5, <2>7 DEF Heap
  <2>9. QED
    BY <2>8 DEF Heap, Placed
<1>7. ASSUME NEW b \in held, NEW size \in AskedSizes, ReallocInPlace(b, size)
      PROVE  Heap(heap_index, held, malloc_count)'
  <2> DEFINE i == HeapAfterRelease(b)
             m == Malloc(size, i, malloc_count - 1)
             c == NewBlock(i, size)
  <2>1. /\ size > b.size /\ EndOfBlock(b) = heap_index /\ b.at + TotalSize(size) <= HeapSize
        /\ malloc_fail_countdown # 0 /\ malloc_count' = m.count /\ heap_index' = m.index
        /\ held' = IF m.block = {} THEN held ELSE (held \ {b}) \cup m.block
    BY <1>7 DEF ReallocInPlace, IsLast, EndOfBlock
  <2>2. i = b.at /\ i \in 0 .. HeapSize /\ b.size \in AskedSizes \ {0} /\ b.size \in Nat
    BY <1>1, <2>1, ReleaseResult, HeapAssumption
  <2>3. size \in AskedSizes \ {0} /\ i + TotalSize(size) <= HeapSize
    BY <2>1, <2>2, HeapAssumption
  <2> HIDE DEF i
  <2>4. \/ /\ malloc_fail_countdown = 0 \/ size = 0 \/ i + TotalSize(size) > HeapSize
        \/ m.block = {c} /\ m.index = i + TotalSize(size) /\ m.count = malloc_count - 1 + 1
    BY <1>1, <2>2, MallocResult
  <2>5. i + TotalSize(size) \in Nat /\ HeapSize \in Nat
    BY <2>2, TotalSizes, HeapAssumption
  <2>6. m.block = {c} /\ m.index = i + TotalSize(size) /\ m.count = malloc_count - 1 + 1
    BY <2>1, <2>3, <2>4, <2>5
  <2> HIDE DEF m
  <2>7. Heap(i, held \ {b}, malloc_count - 1)
    BY <1>1, <2>1, <2>2, ReleaseOne
  <2>8. Heap(i + TotalSize(size), (held \ {b}) \cup {c}, malloc_count - 1 + 1)
    BY <2>3, <2>7, AllocateOne
  <2> HIDE DEF c
  <2>9. Heap(heap_index', held', malloc_count')
    BY <2>1, <2>6, <2>8
  <2>10. QED
    BY <2>9 DEF Heap, Placed
<1>8. ASSUME NEW b \in held, NEW size \in AskedSizes, ReallocMoves(b, size)
      PROVE  Heap(heap_index, held, malloc_count)'
  <2> DEFINE m == Malloc(size, heap_index, malloc_count)
             c == NewBlock(heap_index, size)
  <2>1. IF m.block = {} THEN UNCHANGED <<malloc_count, heap_index, held>>
        ELSE /\ malloc_count' = m.count - 1 /\ heap_index' = m.index
             /\ held' = (held \ {b}) \cup m.block
    BY <1>8 DEF ReallocMoves
  <2>2. \/ m.block = {}
        \/ /\ m.block = {c} /\ m.index = heap_index + TotalSize(size)
           /\ m.count = malloc_count + 1 /\ m.index \in 0 .. HeapSize /\ size # 0
    BY <1>1, MallocResult
  <2> HIDE DEF m
  <2>3. CASE m.block = {}
    BY <1>2, <2>1, <2>3
  <2>4. CASE m.block # {}
    <3>1. size \in AskedSizes \ {0} /\ heap_index + TotalSize(size) <= HeapSize
      BY <2>2, <2>4, HeapAssumption
    <3>2. /\ c \notin held
          /\ Heap(heap_index + TotalSize(size), held \cup {c}, malloc_count + 1)
      BY <1>1, <3>1, AllocateOne
    <3> HIDE DEF c
    <3> DEFINE H == held \cup {c}
    <3>3. b \in H /\ Heap(m.index, H, m.count)
      BY <2>2, <2>4, <3>2
    <3> HIDE DEF H
    <3>4. Heap(m.index, H \ {b}, m.count - 1)
      BY <3>3, ReleaseOne
    <3>5. held' = H \ {b}
      BY <2>1, <2>2, <2>4, <3>2 DEF H
    <3>6. Heap(heap_index', held', malloc_count')
      BY <2>1, <2>4, <3>4, <3>5
    <3>7. QED
      BY <3>6 DEF Heap, Placed
  <2>5. QED
    BY <2>3, <2>4
<1>9. CASE MemoryNext
  <2>1. CASE UnityMalloc_EndTest
    BY <1>2, <2>1 DEF UnityMalloc_EndTest
  <2>2. ASSUME NEW n, UnityMalloc_MakeMallocFailAfterCount(n)
        PROVE  Heap(heap_index, held, malloc_count)'
    BY <1>2, <2>2 DEF UnityMalloc_MakeMallocFailAfterCount
  <2>3. ASSUME NEW b \in held, unity_free(b) \/ ReallocOverrun(b) \/ ReallocToNothing(b)
        PROVE  Heap(heap_index, held, malloc_count)'
    BY <1>3, <2>3 DEF unity_free, ReallocOverrun, ReallocToNothing
  <2>4. QED
    BY <1>4, <1>5, <1>6, <1>7, <1>8, <1>9, <2>1, <2>2, <2>3 DEF MemoryNext
<1>10. CASE UNCHANGED memory
  BY <1>2, <1>10 DEF memory
<1>11. QED
  BY <1>9, <1>10 DEF Next, memory, vars

(* How the framework takes a test of the memory, the threads or the system *)
(* calls from one part to the next.                                        *)
LEMMA FailureIsKnown == ASSUME RunTypes, UnityFail PROVE RETURN_IF_FAIL_OR_IGNORE'
<1>1. Unity \in [NumberOfTests : Nat, TestFailures : Nat, TestIgnores : Nat,
                 CurrentTestFailed : BOOLEAN, CurrentTestIgnored : BOOLEAN]
  BY DEF RunTypes, UnityTypeOK
<1>2. QED
  BY <1>1 DEF UnityFail, RETURN_IF_FAIL_OR_IGNORE

LEMMA TestGoesOn ==
  ASSUME RunInv, Runner \/ BodyEnds \/ Assertions,
         kind' \in {"memory", "threads", "calls"}, stage' \in {"body", "tearDown", "conclude"}
  PROVE  /\ kind' = kind /\ (RETURN_IF_FAIL_OR_IGNORE => RETURN_IF_FAIL_OR_IGNORE')
         /\ \/ stage' = stage
            \/ /\ stage = "body" /\ stage' = "tearDown"
               /\ kind = "threads" /\ ~RETURN_IF_FAIL_OR_IGNORE' => step = "over"
            \/ stage = "tearDown" /\ stage' = "conclude" /\ kind # "memory"
<1>1. Unity \in [NumberOfTests : Nat, TestFailures : Nat, TestIgnores : Nat,
                 CurrentTestFailed : BOOLEAN, CurrentTestIgnored : BOOLEAN]
  BY DEF RunInv, RunTypes, UnityTypeOK
<1>2. program' = program /\ file' = file => kind' = kind
  BY DEF kind, Files
<1>3. Unity' = Unity => RETURN_IF_FAIL_OR_IGNORE' = RETURN_IF_FAIL_OR_IGNORE
  BY DEF RETURN_IF_FAIL_OR_IGNORE
<1>4. UnityFail => RETURN_IF_FAIL_OR_IGNORE'
  BY FailureIsKnown DEF RunInv
<1>5. CASE Framework
  BY <1>2, <1>3, <1>5
     DEF Framework, UnityBegin, StartTest, AssertReturns, UnityConcludeTest, UnityEnd, MainReturns
<1>6. CASE SetUp \/ TearDown \/ BodyEnds
  BY <1>2, <1>3, <1>6
     DEF SetUp, TearDown, BodyEnds, SetUpReturns, TearDownReturns, BodyReturns
<1>7. CASE MakeAssertion
  <2>1. stage = "body" /\ program' = program /\ file' = file
    BY <1>7 DEF MakeAssertion
  <2>2. UNCHANGED <<Unity, stage>> \/ UnityFail
    BY <1>7 DEF MakeAssertion
  <2>3. UnityFail => stage' = "tearDown"
    BY <2>1 DEF UnityFail, TEST_ABORT
  <2>4. QED
    BY <1>2, <1>3, <1>4, <2>1, <2>2, <2>3
<1>8. CASE FailInTearDown
  BY <1>2, <1>8 DEF FailInTearDown
<1>9. CASE UnityIgnore
  <2>1. RETURN_IF_FAIL_OR_IGNORE'
    BY <1>1, <1>9 DEF UnityIgnore, RETURN_IF_FAIL_OR_IGNORE
  <2>2. QED
    BY <1>2, <1>9, <2>1 DEF UnityIgnore, InBody, TEST_ABORT
<1>10. CASE TestPass
  BY <1>2, <1>3, <1>10 DEF TestPass, InBody, TEST_ABORT
<1>11. QED
  BY <1>5, <1>6, <1>7, <1>8, <1>9, <1>10 DEF Runner, Assertions

(* The steps of the other examples do not touch a test of this one.        *)
LEMMA ThreadsKind ==
  ASSUME ThreadsNext
  PROVE  \/ UNCHANGED <<stage, kind, Unity>>
         \/ kind = "threads" /\ kind' = kind /\ stage' # "conclude"
<1>1. program' = program /\ file' = file => kind' = kind
  BY DEF kind, Files
<1>2. UNCHANGED unity => UNCHANGED <<stage, kind, Unity>>
  BY <1>1 DEF unity
<1>3. Testing(step) /\ Fails => kind = "threads" /\ kind' = kind /\ stage' # "conclude"
  BY <1>1 DEF Testing, InBody, Fails, UnityFail, TEST_ABORT
<1>4. ASSUME NEW s, NEW t, Goes(s, t)
      PROVE  UNCHANGED unity
  BY <1>4 DEF Goes
<1>5. CASE ThreadTestBegins
  BY <1>1, <1>5 DEF ThreadTestBegins
<1>6. CASE InitMutex \/ LockMutex \/ MutexLocked
  BY <1>2, <1>4, <1>6 DEF InitMutex, LockMutex, MutexLocked
<1>7. CASE start_thread_obtaining_mutex
  BY <1>2, <1>3, <1>4, <1>7 DEF start_thread_obtaining_mutex, NextStarted, Testing
<1>8. CASE UnlockMutex
  BY <1>2, <1>3, <1>4, <1>8 DEF UnlockMutex, Testing
<1>9. CASE JoinThread
  BY <1>2, <1>3, <1>4, <1>9 DEF JoinThread, NextJoined, Testing
<1>10. ASSUME NEW t, threadfunc(t)
       PROVE  UNCHANGED unity
  BY <1>10 DEF threadfunc, ThreadLocks, ThreadUnlocks, ThreadReturns
<1>11. QED
  BY <1>2, <1>5, <1>6, <1>7, <1>8, <1>9, <1>10 DEF ThreadsNext, ThreadTest

LEMMA CallsKind ==
  ASSUME CallsNext
  PROVE  UNCHANGED <<stage, kind, Unity>> \/ (kind = "calls" /\ kind' = kind)
<1>1. program' = program /\ file' = file => kind' = kind
  BY DEF kind, Files
<1>2. UNCHANGED unity => UNCHANGED <<stage, kind, Unity>>
  BY <1>1 DEF unity
<1>3. CASE CallsTestBegins
  BY <1>1, <1>3 DEF CallsTestBegins
<1>4. CASE CheckResult
  BY <1>1, <1>2, <1>4 DEF CheckResult, CallIs, InBody
<1>5. CASE Fork \/ Close \/ Wait \/ WaitInterrupted
  BY <1>2, <1>5 DEF Fork, Close, Wait, WaitInterrupted
<1>6. ASSUME NEW c, do_system(c) \/ do_exec(c) \/ do_exec_redirect(c)
      PROVE  UNCHANGED unity
  BY <1>6 DEF do_system, do_exec, do_exec_redirect
<1>7. ASSUME NEW i, Child(i)
      PROVE  UNCHANGED unity
  BY <1>7 DEF Child, Dup2, Execv, Runs
<1>8. QED
  BY <1>2, <1>3, <1>4, <1>5, <1>6, <1>7 DEF CallsNext, Caller

LEMMA LeaksNext == RunInv /\ LeaksInv /\ [Next]_vars => LeaksInv'
<1> SUFFICES ASSUME RunInv, LeaksInv, [Next]_vars, kind' = "memory"
             PROVE  LeaksInv'
  BY DEF LeaksInv
<1>1. program' = program /\ file' = file => kind' = kind
  BY DEF kind, Files
<1>2. Unity' = Unity => RETURN_IF_FAIL_OR_IGNORE' = RETURN_IF_FAIL_OR_IGNORE
  BY DEF RETURN_IF_FAIL_OR_IGNORE
<1>3. UnityFail => RETURN_IF_FAIL_OR_IGNORE'
  BY FailureIsKnown DEF RunInv
<1>4. CASE (Runner \/ BodyEnds \/ Assertions) /\ UNCHANGED memory
  BY <1>4, TestGoesOn DEF memory, LeaksInv
<1>5. CASE (ThreadsNext \/ CallsNext) /\ UNCHANGED memory
  <2>1. UNCHANGED <<stage, kind, Unity>>
    BY <1>5, ThreadsKind, CallsKind
  <2>2. QED
    BY <1>2, <1>5, <2>1 DEF memory, LeaksInv
<1>6. CASE UNCHANGED vars
  BY <1>1, <1>2, <1>6 DEF vars, unity, memory, LeaksInv
<1>7. CASE UnityMalloc_StartTest
  BY <1>7 DEF UnityMalloc_StartTest, LeaksInv
<1>8. CASE UnityMalloc_EndTest
  <2>1. malloc_count # 0 => RETURN_IF_FAIL_OR_IGNORE'
    BY <1>3, <1>8 DEF UnityMalloc_EndTest
  <2>2. /\ stage = "tearDown" /\ kind = "memory" /\ stage' \in {"conclude"}
        /\ overran' = overran /\ malloc_count' = malloc_count
        /\ malloc_count = 0 => Unity' = Unity
    BY <1>8 DEF UnityMalloc_EndTest, UnityFail, TEST_ABORT
  <2>3. QED
    BY <1>2, <2>1, <2>2 DEF LeaksInv
<1>9. ASSUME UNCHANGED unity, UNCHANGED overran, stage = "body"
      PROVE  (stage = "body" /\ ~overran)'
  BY <1>1, <1>9 DEF unity, LeaksInv
<1>10. ASSUME NEW countdown, UnityMalloc_MakeMallocFailAfterCount(countdown)
       PROVE  (stage = "body" /\ ~overran)'
  BY <1>9, <1>10 DEF UnityMalloc_MakeMallocFailAfterCount, InBody
<1>11. ASSUME NEW size, unity_malloc(size)
       PROVE  (stage = "body" /\ ~overran)'
  BY <1>9, <1>11 DEF unity_malloc, InBody
<1>12. ASSUME NEW b, NEW size, Overrun(b) \/ ReallocInPlace(b, size) \/ ReallocMoves(b, size)
       PROVE  (stage = "body" /\ ~overran)'
  BY <1>9, <1>12 DEF Overrun, ReallocInPlace, ReallocMoves, InBody
<1>13. ASSUME NEW b, ReallocToNothing(b)
       PROVE  (stage = "body" /\ ~overran)'
  <2>1. stage = "body" /\ kind = "memory" /\ ~b.overrun /\ overran' = (overran \/ b.overrun)
    BY <1>13 DEF ReallocToNothing, release_memory, InBody
  <2>2. ~overran /\ UNCHANGED unity
    BY <1>13, <2>1 DEF ReallocToNothing, LeaksInv
  <2>3. QED
    BY <2>1, <2>2 DEF unity
<1>14. ASSUME NEW b, unity_free(b) \/ ReallocOverrun(b)
       PROVE  \/ (stage = "body" /\ ~overran)'
              \/ (stage = "tearDown" /\ RETURN_IF_FAIL_OR_IGNORE)'
  <2>1. stage = "body" /\ kind = "memory" /\ ~overran /\ overran' = (overran \/ b.overrun)
    BY <1>14 DEF unity_free, ReallocOverrun, release_memory, InBody, LeaksInv
  <2>2. CASE UnityFail
    BY <1>3, <2>1, <2>2 DEF UnityFail, TEST_ABORT
  <2>3. CASE UNCHANGED <<Unity, stage, lines>> /\ ~b.overrun
    BY <2>1, <2>3
  <2>4. QED
    BY <1>14, <2>2, <2>3 DEF unity_free, ReallocOverrun
<1>15. \/ (stage = "body" /\ ~overran)'
       \/ (stage = "tearDown" /\ RETURN_IF_FAIL_OR_IGNORE)'
       => LeaksInv'
  BY DEF LeaksInv
<1>16. CASE MemoryNext
  BY <1>7, <1>8, <1>10, <1>11, <1>12, <1>13, <1>14, <1>15, <1>16 DEF MemoryNext
<1>17. QED
  BY <1>4, <1>5, <1>6, <1>16 DEF Next

LEMMA MemoryInit == Init => MemoryInv /\ LeaksInv
<1> SUFFICES ASSUME Init
             PROVE  MemoryInv /\ LeaksInv
  OBVIOUS
<1>1. /\ malloc_count = 0 /\ malloc_fail_countdown = -1 /\ heap_index = 0 /\ held = {}
      /\ overran = FALSE /\ stage = "main"
  BY DEF Init, InitMemory, InitUnity, MALLOC_DONT_FAIL
<1>2. HeapSize \in Nat /\ Aligned(0)
  <2>1. Alignment \in Nat \ {0} /\ HeapSize \in Nat
    BY HeapAssumption
  <2>2. (Alignment * 0) % Alignment = 0
    BY <2>1, Multiple
  <2>3. QED
    BY <2>1, <2>2 DEF Aligned
<1>3. IsFiniteSet({}) /\ Cardinality({}) = 0
  BY FS_EmptySet
<1>4. MemoryTypes
  <2>1. overran \in BOOLEAN /\ held \subseteq Blocks
    BY <1>1
  <2>2. malloc_count \in Int /\ malloc_fail_countdown \in -1 .. 1 /\ heap_index \in 0 .. HeapSize
    BY <1>1, <1>2
  <2>3. QED
    BY <2>1, <2>2 DEF MemoryTypes
<1>5. QED
  BY <1>1, <1>2, <1>3, <1>4 DEF MemoryInv, Heap, Placed, LeaksInv

(* The blocks that a test holds never overlap and malloc_count counts them, *)
(* for any heap, alignment and sizes.  It is a bug of unity_realloc that it *)
(* is false where the last block grows while malloc is told to fail.        *)
THEOREM BlocksCorrect == ASSUME ~GrowsWhileFailing PROVE Spec => []BlocksAreApart
<1>1. MemoryInv => BlocksAreApart
  <2> SUFFICES ASSUME MemoryInv
               PROVE  BlocksAreApart
    OBVIOUS
  <2>1. /\ malloc_count = Cardinality(held) /\ held \subseteq Blocks /\ HeapSize \in Nat
        /\ heap_index \in 0 .. HeapSize
    BY HeapAssumption DEF MemoryInv, MemoryTypes, Heap
  <2>2. ASSUME NEW b \in held
        PROVE  /\ b.at + GuardSize + b.size + EndSize <= EndOfBlock(b)
               /\ b.at \in Nat /\ EndOfBlock(b) \in Nat
               /\ b.at + GuardSize + b.size + EndSize \in Nat
    <3>1. b.at \in Nat /\ b.size \in AskedSizes /\ b.size \in Nat
      <4>1. b \in Blocks /\ AskedSizes \subseteq Nat
        BY <2>1, HeapAssumption
      <4>2. b.at \in 0 .. HeapSize - 1 /\ b.size \in AskedSizes
        BY <4>1 DEF Blocks
      <4>3. HeapSize \in Nat
        BY <2>1
      <4>4. b.at \in Nat
        BY <4>2, <4>3
      <4>5. b.size \in AskedSizes /\ b.size \in Nat
        BY <4>1, <4>2
      <4>6. QED
        BY <4>4, <4>5
    <3>2. TotalSize(b.size) \in Nat /\ TotalSize(b.size) >= GuardSize + b.size + EndSize
      BY <3>1, TotalSizes
    <3>3. GuardSize \in Nat /\ EndSize \in Nat
      BY HeapAssumption
    <3>4. QED
      BY <3>1, <3>2, <3>3 DEF EndOfBlock
  <2>3. /\ \A b \in held : b.at % Alignment = 0 /\ EndOfBlock(b) <= heap_index
        /\ \A b, c \in held : b.at < c.at => EndOfBlock(b) <= c.at
    BY DEF MemoryInv, Heap, Placed, Aligned
  <2>4. ASSUME NEW b \in held
        PROVE  b.at + GuardSize + b.size + EndSize <= heap_index
    BY <2>1, <2>2, <2>3
  <2>5. ASSUME NEW b \in held, NEW c \in held, b.at < c.at
        PROVE  b.at + GuardSize + b.size + EndSize <= c.at
    <3>1. EndOfBlock(b) <= c.at
      BY <2>3, <2>5
    <3>2. QED
      BY <2>2, <3>1
  <2>6. QED
    BY <2>1, <2>3, <2>4, <2>5 DEF BlocksAreApart
<1>2. QED
  BY <1>1, MemoryInit, MemoryInvNext, PTL DEF Spec

(* A test that is over without having failed holds no block and gave none  *)
(* back that it had overrun.                                               *)
THEOREM LeaksCorrect == ASSUME ~GrowsWhileFailing PROVE Spec => []LeaksFailTheTest
<1>1. MemoryInv /\ LeaksInv => LeaksFailTheTest
  <2> SUFFICES ASSUME MemoryInv, LeaksInv, stage = "conclude", kind = "memory",
                      held # {} \/ overran, ~RETURN_IF_FAIL_OR_IGNORE
               PROVE  FALSE
    BY DEF LeaksFailTheTest
  <2>1. malloc_count = 0 /\ ~overran
    BY DEF LeaksInv
  <2>2. IsFiniteSet(held) /\ Cardinality(held) = 0
    BY <2>1 DEF MemoryInv, Heap
  <2>3. QED
    BY <2>1, <2>2, FS_EmptySet
<1>2. QED
  BY <1>1, MemoryInit, MemoryInvNext, LeaksNext, RunInit, RunNext, PTL DEF Spec


-----------------------------------------------------------------------------
(* The threads.                                                            *)

Steps   == {"init", "lock", "start", "unlock", "join", "over"}
Tester  == {"none", "asleep", "woken", "holds"}
Points  == {"none", "created", "asleep", "woken", "inside", "unlocked", "returned", "joined"}
Data    == {"none", "allocated", "lost", "success", "freed"}

NoThreads ==
  test = NoTest /\ step = "over" /\ pc = <<>> /\ data = <<>> /\ mutex = <<>> /\ holds = {}

ThreadTypes ==
  /\ test \in ThreadTests /\ step \in Steps /\ turn \in Threads
  /\ DOMAIN pc = {0} \cup Threads /\ pc[0] \in Tester /\ \A t \in Threads : pc[t] \in Points
  /\ data \in [Threads -> Data] /\ mutex \in [Range(test.mutexes) -> 0 .. 2]
  /\ holds \subseteq Range(test.mutexes)

(* The threads from turn on are not started before the last one is; those  *)
(* before it are joined afterwards, and their mutexes unlocked.            *)
ThreadsInOrder ==
  /\ step # "lock" => pc[0] = "none"
  /\ step \in {"init", "lock", "start"} => \A t \in Threads : t >= turn => pc[t] = "none"
  /\ step \in {"unlock", "join"} =>
       \A t \in Threads : t < turn => pc[t] = "joined" /\ Mutex(t) \notin holds
  /\ step = "unlock" => Mutex(turn) \in holds
  /\ step = "join" => Mutex(turn) \notin holds
  /\ step = "over" => \A t \in Threads : pc[t] = "joined" /\ Mutex(t) \notin holds
  /\ \A t \in Threads : /\ pc[t] \notin {"none", "joined"} => data[t] \in {"allocated", "success"}
                        /\ pc[t] = "joined" => data[t] = "freed"

ThreadsInv == NoThreads \/ (ThreadTypes /\ ThreadsInOrder)

(* Who is between a lock and an unlock of mutex m.                         *)
Owns(p, m) ==
  IF p = 0 THEN m \in holds \/ (pc[0] = "holds" /\ Mutex(turn) = m)
  ELSE pc[p] = "inside" /\ Mutex(p) = m

(* A test that locks the mutexes holds those of the threads it started     *)
(* until it has started the last one; but for the moments in which it has  *)
(* initialised one of them again and not yet locked it.                    *)
LockedFirst ==
  test.locked /\ step \in {"init", "lock", "start"} =>
    /\ \A t \in Threads :
         t < turn => Mutex(t) \in holds \/ (step = "lock" /\ Mutex(t) = Mutex(turn))
    /\ step = "start" => Mutex(turn) \in holds

(* A mutex has at most one owner, and its word tells whether it has one.   *)
MutexExcludes ==
  \A m \in DOMAIN mutex :
    /\ \A p, q \in DOMAIN pc : Owns(p, m) /\ Owns(q, m) => p = q
    /\ mutex[m] = 0 <=> \A p \in DOMAIN pc : ~Owns(p, m)

MutexInv == LockedFirst /\ MutexExcludes

(* A test only leaves its body without a failure when it is done.          *)
DoneInv ==
  kind = "threads" /\ stage \in {"tearDown", "conclude"} /\ ~RETURN_IF_FAIL_OR_IGNORE =>
    step = "over"

(* What a lock and an unlock do.                                           *)
LEMMA LockEffect ==
  ASSUME NEW p \in DOMAIN pc, NEW m \in DOMAIN mutex, NEW inside, Lock(p, m, inside),
         mutex \in [DOMAIN mutex -> 0 .. 2]
  PROVE  /\ DOMAIN pc' = DOMAIN pc /\ \A q \in DOMAIN pc : q # p => pc'[q] = pc[q]
         /\ pc[p] # "asleep" /\ pc[p] # inside
         /\ pc'[p] = IF mutex[m] = 0 THEN inside ELSE "asleep"
         /\ mutex' \in [DOMAIN mutex -> 0 .. 2]
         /\ mutex'[m] # 0 /\ \A n \in DOMAIN mutex : n # m => mutex'[n] = mutex[n]
<1>1. /\ pc' = [pc EXCEPT ![p] = IF mutex[m] = 0 THEN inside ELSE "asleep"]
      /\ pc[p] # "asleep" /\ pc[p] # inside
  BY DEF Lock
<1>2. PICK w \in {1, 2} : mutex' = [mutex EXCEPT ![m] = w]
  BY DEF Lock
<1>3. QED
  BY <1>1, <1>2

LEMMA UnlockEffect ==
  ASSUME NEW p \in DOMAIN pc, NEW m \in DOMAIN mutex, NEW outside, Unlock(p, m, outside),
         mutex \in [DOMAIN mutex -> 0 .. 2], pc[p] # "asleep"
  PROVE  /\ DOMAIN pc' = DOMAIN pc /\ pc'[p] = outside
         /\ \A q \in DOMAIN pc :
              q # p => pc'[q] = pc[q] \/ (pc[q] = "asleep" /\ pc'[q] = "woken")
         /\ mutex' \in [DOMAIN mutex -> 0 .. 2]
         /\ mutex'[m] = 0 /\ \A n \in DOMAIN mutex : n # m => mutex'[n] = mutex[n]
<1>1. mutex' = [mutex EXCEPT ![m] = 0]
  BY DEF Unlock
<1>2. \/ pc' = [pc EXCEPT ![p] = outside]
      \/ \E q \in DOMAIN pc : pc[q] = "asleep" /\ pc' = [pc EXCEPT ![p] = outside, ![q] = "woken"]
  BY DEF Unlock, Asleep
<1>3. QED
  BY <1>1, <1>2

(* The constants of a test.                                                *)
LEMMA TestType ==
  ASSUME NEW x \in ThreadTests
  PROVE  /\ Len(x.mutexes) \in Nat \ {0} /\ DOMAIN x.mutexes = 1 .. Len(x.mutexes)
         /\ 0 \notin DOMAIN x.mutexes /\ x.locked \in BOOLEAN
         /\ \A t \in DOMAIN x.mutexes : x.mutexes[t] \in Range(x.mutexes)
<1>1. x.mutexes # <<>> /\ x.mutexes \in Seq(Nat) /\ x.locked \in BOOLEAN
  BY ThreadTestsAssumption
<1>2. QED
  BY <1>1, EmptySeq, LenProperties DEF Range

(* The beginning of a test.                                                *)
LEMMA ThreadsBegin ==
  ASSUME ThreadTestBegins
  PROVE  /\ (ThreadTypes /\ ThreadsInOrder)'
         /\ test'.mutexes \in Seq(Nat) /\ step' = "init" /\ turn' = 1 /\ holds' = {}
         /\ \A p \in DOMAIN pc' : pc'[p] = "none"
         /\ \A m \in DOMAIN mutex' : mutex'[m] = 0
<1>1. /\ test' \in ThreadTests /\ step' = "init" /\ turn' = 1
      /\ pc' = [t \in {0} \cup DOMAIN test'.mutexes |-> "none"]
      /\ data' = [t \in DOMAIN test'.mutexes |-> "none"]
      /\ mutex' = [m \in Range(test'.mutexes) |-> 0] /\ holds' = {}
  BY DEF ThreadTestBegins
<1>2. /\ Len(test'.mutexes) \in Nat \ {0} /\ DOMAIN test'.mutexes = 1 .. Len(test'.mutexes)
      /\ 0 \notin DOMAIN test'.mutexes
  BY <1>1, TestType
<1>3. ThreadTypes'
  BY <1>1, <1>2 DEF ThreadTypes, Threads, Steps, Tester, Points, Data
<1>4. ThreadsInOrder'
  BY <1>1, <1>2 DEF ThreadsInOrder, Threads
<1>5. test'.mutexes \in Seq(Nat)
  BY <1>1, ThreadTestsAssumption
<1>6. QED
  BY <1>1, <1>3, <1>4, <1>5

(* A test goes on: with a later thread, or with its next part.             *)
LEMMA ThreadsInvNext == ThreadsInv /\ [Next]_vars => ThreadsInv'
<1> SUFFICES ASSUME ThreadsInv, [Next]_vars
             PROVE  ThreadsInv'
  OBVIOUS
<1>1. CASE UNCHANGED threads
  <2>1. NoThreads => NoThreads'
    BY <1>1 DEF threads, NoThreads
  <2>2. ThreadTypes /\ ThreadsInOrder => ThreadTypes' /\ ThreadsInOrder'
    BY <1>1 DEF threads, ThreadTypes, ThreadsInOrder, Threads, Mutex
  <2>3. QED
    BY <2>1, <2>2 DEF ThreadsInv
<1>2. CASE ThreadTestBegins
  BY <1>2, ThreadsBegin DEF ThreadsInv
<1>3. CASE NoThreads /\ ThreadsNext /\ ~ThreadTestBegins
  <2>1. step = "over" /\ Threads = {}
    BY <1>3 DEF NoThreads, NoTest, Threads
  <2>2. QED
    BY <1>3, <2>1 DEF ThreadsNext, ThreadTest, InitMutex, LockMutex, MutexLocked,
       start_thread_obtaining_mutex, UnlockMutex, JoinThread, Testing
<1> DEFINE n == Len(test.mutexes)
           Types == /\ step' \in Steps /\ turn' \in Threads
                    /\ DOMAIN pc' = {0} \cup Threads /\ pc'[0] \in Tester
                    /\ \A t \in Threads : pc'[t] \in Points
                    /\ data' \in [Threads -> Data] /\ mutex' \in [Range(test.mutexes) -> 0 .. 2]
                    /\ holds' \subseteq Range(test.mutexes)
<1>4. ASSUME ThreadTypes, ThreadsInOrder, ThreadsNext, ~ThreadTestBegins
      PROVE  ThreadsInv'
  <2>1. /\ test \in ThreadTests /\ step \in Steps /\ turn \in Threads
        /\ DOMAIN pc = {0} \cup Threads /\ pc[0] \in Tester /\ \A t \in Threads : pc[t] \in Points
        /\ data \in [Threads -> Data] /\ mutex \in [Range(test.mutexes) -> 0 .. 2]
        /\ DOMAIN mutex = Range(test.mutexes)
        /\ holds \subseteq Range(test.mutexes)
    BY <1>4 DEF ThreadTypes
  <2>2. /\ n \in Nat \ {0} /\ Threads = 1 .. n /\ 0 \notin Threads /\ test.locked \in BOOLEAN
        /\ \A t \in Threads : Mutex(t) \in Range(test.mutexes)
    BY <2>1, TestType DEF Threads, Mutex
  <2>3. ASSUME test' = test, Types
        PROVE  ThreadTypes' /\ Threads' = Threads /\ \A t : Mutex(t)' = Mutex(t)
    BY <2>1, <2>3 DEF ThreadTypes, Threads, Mutex
  <2> HIDE DEF n
  <2>4. CASE InitMutex
    <3> DEFINE m == Mutex(turn)
    <3>1. /\ step = "init" /\ step' \in {"lock", "start"} /\ turn' = turn
          /\ mutex' = [mutex EXCEPT ![m] = 0] /\ holds' = holds \ {m}
          /\ test' = test /\ pc' = pc /\ data' = data
      BY <2>4 DEF InitMutex, Testing, Goes
    <3> HIDE DEF m
    <3>5. mutex' \in [Range(test.mutexes) -> 0 .. 2]
      <4>1. mutex \in [Range(test.mutexes) -> 0 .. 2] /\ 0 \in 0 .. 2
        BY <2>1
      <4>2. QED
        BY <3>1, <4>1
    <3>6. holds' \subseteq Range(test.mutexes)
      BY <2>1, <3>1
    <3>2. Types
      BY <2>1, <3>1, <3>5, <3>6 DEF Steps
    <3>3. ThreadsInOrder'
      BY <1>4, <2>3, <3>1, <3>2 DEF ThreadsInOrder
    <3>4. QED
      BY <2>3, <3>1, <3>2, <3>3 DEF ThreadsInv
  <2>5. CASE LockMutex
    <3> DEFINE m == Mutex(turn)
    <3>1. /\ step = "lock" /\ Lock(0, m, "holds") /\ 0 \in DOMAIN pc /\ m \in DOMAIN mutex
          /\ UNCHANGED <<test, step, turn, data, holds>>
      BY <2>1, <2>2, <2>5 DEF LockMutex, Testing
    <3>2. /\ DOMAIN pc' = DOMAIN pc /\ \A q \in DOMAIN pc : q # 0 => pc'[q] = pc[q]
          /\ pc'[0] \in {"holds", "asleep"} /\ mutex' \in [DOMAIN mutex -> 0 .. 2]
      BY <2>1, <3>1, LockEffect
    <3>3. Types
      BY <2>1, <2>2, <3>1, <3>2 DEF Tester
    <3>4. ThreadsInOrder'
      BY <1>4, <2>1, <2>2, <2>3, <3>1, <3>2, <3>3 DEF ThreadsInOrder
    <3>5. QED
      BY <2>3, <3>1, <3>3, <3>4 DEF ThreadsInv
  <2>6. CASE MutexLocked
    <3>1. /\ step = "lock" /\ step' = "start" /\ turn' = turn /\ pc' = [pc EXCEPT ![0] = "none"]
          /\ holds' = holds \cup {Mutex(turn)} /\ UNCHANGED <<test, data, mutex>>
      BY <2>6 DEF MutexLocked, Testing, Goes
    <3>2. pc'[0] = "none" /\ \A t \in Threads : pc'[t] = pc[t]
      BY <2>1, <2>2, <3>1
    <3>3. Types
      BY <2>1, <2>2, <3>1, <3>2 DEF Steps, Tester
    <3>4. ThreadsInOrder'
      BY <1>4, <2>1, <2>2, <2>3, <3>1, <3>2, <3>3 DEF ThreadsInOrder
    <3>5. QED
      BY <2>3, <3>1, <3>3, <3>4 DEF ThreadsInv
  <2>7. CASE start_thread_obtaining_mutex
    <3>1. step = "start" /\ UNCHANGED <<test, mutex, holds>> /\ pc[0] = "none" /\ pc[turn] = "none"
      BY <1>4, <2>1, <2>2, <2>7 DEF start_thread_obtaining_mutex, Testing, ThreadsInOrder
    <3>2. CASE /\ data' = [data EXCEPT ![turn] = "allocated"]
               /\ pc' = [pc EXCEPT ![turn] = "created"] /\ NextStarted
      <4>1. /\ pc'[0] = "none" /\ pc'[turn] = "created" /\ data'[turn] = "allocated"
            /\ \A t \in Threads \ {turn} : pc'[t] = pc[t] /\ data'[t] = data[t]
            /\ DOMAIN pc' = DOMAIN pc /\ data' \in [Threads -> Data]
        BY <2>1, <2>2, <3>1, <3>2 DEF Data
      <4>2. \/ turn < n /\ step' = "init" /\ turn' = turn + 1
            \/ /\ turn = n /\ turn' = 1
               /\ step' = IF Mutex(1) \in holds THEN "unlock" ELSE "join"
        BY <2>1, <2>2, <3>2 DEF NextStarted, Goes, Verify, n
      <4>3. Types
        BY <2>1, <2>2, <3>1, <4>1, <4>2 DEF Steps, Tester, Points
      <4>4. ThreadsInOrder'
        BY <1>4, <2>1, <2>2, <2>3, <3>1, <4>1, <4>2, <4>3 DEF ThreadsInOrder
      <4>5. QED
        BY <2>3, <3>1, <4>3, <4>4 DEF ThreadsInv
    <3>3. CASE pc' = pc /\ Fails /\ data' \in {data, [data EXCEPT ![turn] = "lost"]}
      <4>1. step' = step /\ turn' = turn
        BY <3>3 DEF Fails
      <4>2. /\ \A t \in Threads \ {turn} : data'[t] = data[t]
            /\ data' \in [Threads -> Data]
        BY <2>1, <2>2, <3>1, <3>3 DEF Data
      <4>3. Types
        BY <2>1, <3>1, <3>3, <4>1, <4>2
      <4>4. ThreadsInOrder'
        BY <1>4, <2>1, <2>2, <2>3, <3>1, <3>3, <4>1, <4>2, <4>3 DEF ThreadsInOrder
      <4>5. QED
        BY <2>3, <3>1, <4>3, <4>4 DEF ThreadsInv
    <3>4. QED
      BY <2>7, <3>2, <3>3 DEF start_thread_obtaining_mutex
  <2>8. CASE UnlockMutex
    <3> DEFINE m == Mutex(turn)
    <3>1. /\ step = "unlock" /\ pc[0] = "none" /\ 0 \in DOMAIN pc /\ m \in DOMAIN mutex
          /\ UNCHANGED <<test, data>>
      BY <1>4, <2>1, <2>2, <2>8 DEF UnlockMutex, Testing, ThreadsInOrder
    <3>2. CASE Fails /\ UNCHANGED <<pc, mutex, holds>>
      <4>1. step' = step /\ turn' = turn
        BY <3>2 DEF Fails
      <4>2. Types
        BY <2>1, <3>1, <3>2, <4>1
      <4>3. ThreadsInOrder'
        BY <1>4, <2>3, <3>1, <3>2, <4>1, <4>2 DEF ThreadsInOrder
      <4>4. QED
        BY <2>3, <3>1, <4>2, <4>3 DEF ThreadsInv
    <3>3. CASE Unlock(0, m, "none") /\ holds' = holds \ {m} /\ Goes("join", turn)
      <4>1. step' = "join" /\ turn' = turn
        BY <3>3 DEF Goes
      <4>2. /\ DOMAIN pc' = DOMAIN pc /\ pc'[0] = "none" /\ mutex' \in [DOMAIN mutex -> 0 .. 2]
            /\ \A q \in DOMAIN pc :
                 q # 0 => pc'[q] = pc[q] \/ (pc[q] = "asleep" /\ pc'[q] = "woken")
        BY <2>1, <3>1, <3>3, UnlockEffect
      <4>3. Types
        BY <2>1, <2>2, <3>1, <3>3, <4>1, <4>2 DEF Steps, Tester, Points
      <4>4. ThreadsInOrder'
        BY <1>4, <2>1, <2>2, <2>3, <3>1, <3>3, <4>1, <4>2, <4>3 DEF ThreadsInOrder
      <4>5. QED
        BY <2>3, <3>1, <4>3, <4>4 DEF ThreadsInv
    <3>4. QED
      BY <2>8, <3>2, <3>3 DEF UnlockMutex
  <2>9. CASE JoinThread
    <3>1. /\ step = "join" /\ pc[0] = "none" /\ UNCHANGED <<test, mutex, holds>>
      BY <1>4, <2>9 DEF JoinThread, Testing, ThreadsInOrder
    <3>2. CASE Fails /\ UNCHANGED <<pc, data>>
      <4>1. step' = step /\ turn' = turn
        BY <3>2 DEF Fails
      <4>2. Types
        BY <2>1, <3>1, <3>2, <4>1
      <4>3. ThreadsInOrder'
        BY <1>4, <2>3, <3>1, <3>2, <4>1, <4>2 DEF ThreadsInOrder
      <4>4. QED
        BY <2>3, <3>1, <4>2, <4>3 DEF ThreadsInv
    <3>3. CASE /\ pc' = [pc EXCEPT ![turn] = "joined"]
               /\ data' = [data EXCEPT ![turn] = "freed"] /\ NextJoined
      <4>1. /\ pc'[0] = "none" /\ pc'[turn] = "joined" /\ data'[turn] = "freed"
            /\ \A t \in Threads \ {turn} : pc'[t] = pc[t] /\ data'[t] = data[t]
            /\ DOMAIN pc' = DOMAIN pc /\ data' \in [Threads -> Data]
        BY <2>1, <2>2, <3>1, <3>3 DEF Data
      <4>2. \/ /\ turn < n /\ turn' = turn + 1
               /\ step' = IF Mutex(turn + 1) \in holds THEN "unlock" ELSE "join"
            \/ turn = n /\ turn' = turn /\ step' = "over"
        BY <2>1, <2>2, <3>3 DEF NextJoined, Goes, Verify, n
      <4>3. Types
        BY <2>1, <2>2, <3>1, <4>1, <4>2 DEF Steps, Tester, Points
      <4>4. ThreadsInOrder'
        BY <1>4, <2>1, <2>2, <2>3, <3>1, <4>1, <4>2, <4>3 DEF ThreadsInOrder
      <4>5. QED
        BY <2>3, <3>1, <4>3, <4>4 DEF ThreadsInv
    <3>4. QED
      BY <2>9, <3>2, <3>3 DEF JoinThread
  <2>10. ASSUME NEW t \in Threads, threadfunc(t)
         PROVE  ThreadsInv'
    <3>1. /\ UNCHANGED <<test, step, turn, holds>> /\ Mutex(t) \in DOMAIN mutex
          /\ t \in DOMAIN pc /\ t # 0
      BY <2>1, <2>2, <2>10 DEF threadfunc, ThreadLocks, ThreadUnlocks, ThreadReturns
    <3>2. /\ DOMAIN pc' = DOMAIN pc /\ mutex' \in [DOMAIN mutex -> 0 .. 2]
          /\ pc[t] \notin {"none", "joined"}
          /\ pc'[t] \in {"inside", "asleep", "unlocked", "returned"}
          /\ \A q \in DOMAIN pc :
               q # t => pc'[q] = pc[q] \/ (pc[q] = "asleep" /\ pc'[q] = "woken")
          /\ data' \in {data, [data EXCEPT ![t] = "success"]}
      <4>1. CASE ThreadLocks(t)
        BY <2>1, <3>1, <4>1, LockEffect DEF ThreadLocks
      <4>2. CASE ThreadUnlocks(t)
        BY <2>1, <3>1, <4>2, UnlockEffect DEF ThreadUnlocks
      <4>3. CASE ThreadReturns(t)
        BY <2>1, <3>1, <4>3 DEF ThreadReturns
      <4>4. QED
        BY <2>10, <4>1, <4>2, <4>3 DEF threadfunc
    <3>3. /\ data' \in [Threads -> Data] /\ \A q \in Threads \ {t} : data'[q] = data[q]
          /\ data'[t] \in {data[t], "success"}
      BY <2>1, <3>2 DEF Data
    <3>4. Types
      BY <2>1, <2>2, <3>1, <3>2, <3>3 DEF Tester, Points
    <3>5. ThreadsInOrder'
      BY <1>4, <2>1, <2>2, <2>3, <3>1, <3>2, <3>3, <3>4 DEF ThreadsInOrder
    <3>6. QED
      BY <2>3, <3>1, <3>4, <3>5 DEF ThreadsInv
  <2>11. QED
    BY <1>4, <2>4, <2>5, <2>6, <2>7, <2>8, <2>9, <2>10 DEF ThreadsNext, ThreadTest
<1>5. QED
  BY <1>1, <1>2, <1>3, <1>4 DEF ThreadsInv, Next, vars

(* A test that locks none of the mutexes has one for each of its threads.  *)
OwnMutexes ==
  \A x \in ThreadTests :
    \/ x.locked
    \/ \A s, t \in DOMAIN x.mutexes : x.mutexes[s] = x.mutexes[t] => s = t

(* A process that locks a mutex becomes its owner if it has none, one that *)
(* unlocks it was the only one.                                            *)
LEMMA LockKeepsMutex ==
  ASSUME NEW p \in DOMAIN pc, NEW m \in DOMAIN mutex, NEW inside, Lock(p, m, inside),
         mutex \in [DOMAIN mutex -> 0 .. 2], MutexExcludes, UNCHANGED <<test, turn, holds>>,
         inside = (IF p = 0 THEN "holds" ELSE "inside"), Mutex(IF p = 0 THEN turn ELSE p) = m,
         p # 0 => pc[p] # "inside"
  PROVE  MutexExcludes'
<1>1. /\ DOMAIN pc' = DOMAIN pc /\ \A q \in DOMAIN pc : q # p => pc'[q] = pc[q]
      /\ pc[p] # "asleep" /\ pc[p] # inside
      /\ pc'[p] = IF mutex[m] = 0 THEN inside ELSE "asleep"
      /\ mutex' \in [DOMAIN mutex -> 0 .. 2]
      /\ mutex'[m] # 0 /\ \A n \in DOMAIN mutex : n # m => mutex'[n] = mutex[n]
  BY LockEffect
<1>2. \A q : Mutex(q)' = Mutex(q)
  BY DEF Mutex
<1>3. ASSUME NEW q \in DOMAIN pc, NEW n \in DOMAIN mutex
      PROVE  Owns(q, n)' <=> Owns(q, n) \/ (q = p /\ n = m /\ mutex[m] = 0)
  BY <1>1, <1>2, <1>3 DEF Owns
<1>4. DOMAIN mutex' = DOMAIN mutex
  BY <1>1
<1>5. ASSUME NEW n \in DOMAIN mutex
      PROVE  /\ \A q, r \in DOMAIN pc : Owns(q, n)' /\ Owns(r, n)' => q = r
             /\ mutex'[n] = 0 <=> \A q \in DOMAIN pc : ~Owns(q, n)'
  BY <1>1, <1>3 DEF MutexExcludes
<1>6. QED
  BY <1>1, <1>4, <1>5 DEF MutexExcludes

LEMMA UnlockKeepsMutex ==
  ASSUME NEW p \in DOMAIN pc, NEW m \in DOMAIN mutex, NEW outside, Unlock(p, m, outside),
         mutex \in [DOMAIN mutex -> 0 .. 2], MutexExcludes, UNCHANGED <<test, turn>>,
         Owns(p, m), outside # "inside", outside # "holds", p = 0 => pc[0] = "none",
         holds' = IF p = 0 THEN holds \ {m} ELSE holds
  PROVE  MutexExcludes'
<1>1. pc[p] # "asleep"
  BY DEF Owns
<1>2. /\ DOMAIN pc' = DOMAIN pc /\ pc'[p] = outside
      /\ \A q \in DOMAIN pc :
           q # p => pc'[q] = pc[q] \/ (pc[q] = "asleep" /\ pc'[q] = "woken")
      /\ mutex' \in [DOMAIN mutex -> 0 .. 2]
      /\ mutex'[m] = 0 /\ \A n \in DOMAIN mutex : n # m => mutex'[n] = mutex[n]
  BY <1>1, UnlockEffect
<1>3. \A q : Mutex(q)' = Mutex(q)
  BY DEF Mutex
<1>4. ASSUME NEW q \in DOMAIN pc, NEW n \in DOMAIN mutex
      PROVE  Owns(q, n)' <=> Owns(q, n) /\ ~(q = p /\ n = m)
  BY <1>2, <1>3, <1>4 DEF Owns
<1>5. DOMAIN mutex' = DOMAIN mutex
  BY <1>2
<1>6. ASSUME NEW n \in DOMAIN mutex
      PROVE  /\ \A q, r \in DOMAIN pc : Owns(q, n)' /\ Owns(r, n)' => q = r
             /\ mutex'[n] = 0 <=> \A q \in DOMAIN pc : ~Owns(q, n)'
  BY <1>2, <1>4 DEF MutexExcludes
<1>7. QED
  BY <1>2, <1>5, <1>6 DEF MutexExcludes

LEMMA MutexInvNext ==
  ASSUME OwnMutexes
  PROVE  ThreadsInv /\ MutexInv /\ [Next]_vars => MutexInv'
<1> SUFFICES ASSUME ThreadsInv, MutexInv, [Next]_vars
             PROVE  MutexInv'
  OBVIOUS
<1>1. CASE UNCHANGED threads
  BY <1>1 DEF threads, MutexInv, LockedFirst, MutexExcludes, Owns, Threads, Mutex
<1>2. CASE ThreadTestBegins
  <2>1. /\ step' = "init" /\ turn' = 1 /\ holds' = {} /\ Threads' = 1 .. Len(test'.mutexes)
        /\ \A p \in DOMAIN pc' : pc'[p] = "none"
        /\ \A m \in DOMAIN mutex' : mutex'[m] = 0
        /\ 0 \in DOMAIN pc'
    BY <1>2, ThreadsBegin DEF Threads, ThreadTypes
  <2>2. LockedFirst'
    BY <2>1 DEF LockedFirst
  <2>3. MutexExcludes'
    BY <2>1 DEF MutexExcludes, Owns
  <2>4. QED
    BY <2>2, <2>3 DEF MutexInv
<1>3. CASE NoThreads /\ ThreadsNext /\ ~ThreadTestBegins
  <2>1. step = "over" /\ Threads = {}
    BY <1>3 DEF NoThreads, NoTest, Threads
  <2>2. QED
    BY <1>3, <2>1 DEF ThreadsNext, ThreadTest, InitMutex, LockMutex, MutexLocked,
       start_thread_obtaining_mutex, UnlockMutex, JoinThread, Testing
<1>4. ASSUME ThreadTypes, ThreadsInOrder, ThreadsNext, ~ThreadTestBegins
      PROVE  MutexInv'
  <2> DEFINE n == Len(test.mutexes)
  <2>1. /\ test \in ThreadTests /\ step \in Steps /\ turn \in Threads
        /\ DOMAIN pc = {0} \cup Threads /\ pc[0] \in Tester /\ \A t \in Threads : pc[t] \in Points
        /\ mutex \in [DOMAIN mutex -> 0 .. 2] /\ DOMAIN mutex = Range(test.mutexes)
        /\ holds \subseteq Range(test.mutexes)
    BY <1>4 DEF ThreadTypes
  <2>2. /\ n \in Nat \ {0} /\ Threads = 1 .. n /\ 0 \notin Threads /\ test.locked \in BOOLEAN
        /\ \A t \in Threads : Mutex(t) \in DOMAIN mutex
        /\ test.locked \/ \A s, t \in Threads : Mutex(s) = Mutex(t) => s = t
    BY <2>1, TestType DEF Threads, Mutex, OwnMutexes
  <2> HIDE DEF n
  <2>3. LockedFirst /\ MutexExcludes
    BY DEF MutexInv
  <2>4. ASSUME UNCHANGED test
        PROVE  Threads' = Threads /\ \A t : Mutex(t)' = Mutex(t)
    BY <2>4 DEF Threads, Mutex
  <2>5. ASSUME UNCHANGED <<test, mutex>>, DOMAIN pc' = DOMAIN pc,
               \A q \in DOMAIN pc, m \in DOMAIN mutex : Owns(q, m)' <=> Owns(q, m)
        PROVE  MutexExcludes'
    <3>1. DOMAIN mutex' = DOMAIN mutex
      BY <2>5
    <3>2. ASSUME NEW m \in DOMAIN mutex
          PROVE  /\ \A q, r \in DOMAIN pc : Owns(q, m)' /\ Owns(r, m)' => q = r
                 /\ mutex'[m] = 0 <=> \A q \in DOMAIN pc : ~Owns(q, m)'
      BY <2>3, <2>5 DEF MutexExcludes
    <3>3. QED
      BY <2>5, <3>1, <3>2 DEF MutexExcludes
  <2>6. CASE InitMutex
    <3> DEFINE m == Mutex(turn)
    <3>1. /\ step = "init" /\ step' = (IF test.locked THEN "lock" ELSE "start") /\ turn' = turn
          /\ mutex' = [mutex EXCEPT ![m] = 0] /\ holds' = holds \ {m}
          /\ test' = test /\ pc' = pc
      BY <2>6 DEF InitMutex, Testing, Goes
    <3>2. pc[0] = "none" /\ \A t \in Threads : t >= turn => pc[t] = "none"
      BY <1>4, <3>1 DEF ThreadsInOrder
    <3>3. ASSUME NEW q \in Threads, Owns(q, m)
          PROVE  FALSE
      <4>1. pc[q] = "inside" /\ Mutex(q) = m /\ q < turn /\ q # 0 /\ m \in DOMAIN mutex
        BY <2>1, <2>2, <3>2, <3>3 DEF Owns
      <4>2. test.locked
        BY <2>1, <2>2, <4>1
      <4>3. m \in holds
        BY <2>3, <3>1, <4>1, <4>2 DEF LockedFirst
      <4>4. Owns(0, m) /\ 0 \in DOMAIN pc /\ q \in DOMAIN pc
        BY <2>1, <4>3 DEF Owns
      <4>5. QED
        BY <2>3, <3>3, <4>1, <4>4 DEF MutexExcludes
    <3>4. ASSUME NEW q \in DOMAIN pc, NEW k \in DOMAIN mutex
          PROVE  Owns(q, k)' <=> Owns(q, k) /\ k # m
      <4>1. CASE q = 0
        BY <3>1, <3>2, <4>1 DEF Owns
      <4>2. CASE q # 0
        BY <2>1, <2>4, <3>1, <3>3, <4>2 DEF Owns
      <4>3. QED
        BY <4>1, <4>2
    <3>5. LockedFirst'
      BY <2>3, <2>4, <3>1 DEF LockedFirst
    <3>6. /\ DOMAIN mutex' = DOMAIN mutex /\ m \in DOMAIN mutex /\ mutex'[m] = 0
          /\ \A k \in DOMAIN mutex : k # m => mutex'[k] = mutex[k]
      BY <2>1, <2>2, <3>1
    <3> HIDE DEF m
    <3>7. ASSUME NEW k \in DOMAIN mutex
          PROVE  /\ \A q, r \in DOMAIN pc : Owns(q, k)' /\ Owns(r, k)' => q = r
                 /\ mutex'[k] = 0 <=> \A q \in DOMAIN pc : ~Owns(q, k)'
      BY <2>3, <3>4, <3>6 DEF MutexExcludes
    <3>8. MutexExcludes'
      BY <3>1, <3>6, <3>7 DEF MutexExcludes
    <3>9. QED
      BY <3>5, <3>8 DEF MutexInv
  <2>7. CASE LockMutex
    <3>1. /\ step = "lock" /\ Lock(0, Mutex(turn), "holds") /\ 0 \in DOMAIN pc
          /\ Mutex(turn) \in DOMAIN mutex
          /\ UNCHANGED <<test, step, turn, holds>>
      BY <2>1, <2>2, <2>7 DEF LockMutex, Testing
    <3>2. MutexExcludes'
      BY <2>1, <2>3, <3>1, LockKeepsMutex
    <3>3. LockedFirst'
      BY <2>3, <2>4, <3>1 DEF LockedFirst
    <3>4. QED
      BY <3>2, <3>3 DEF MutexInv
  <2>8. CASE MutexLocked
    <3>1. /\ step = "lock" /\ step' = "start" /\ turn' = turn /\ pc[0] = "holds"
          /\ pc' = [pc EXCEPT ![0] = "none"]
          /\ holds' = holds \cup {Mutex(turn)} /\ UNCHANGED <<test, mutex>>
      BY <2>8 DEF MutexLocked, Testing, Goes
    <3>2. DOMAIN pc' = DOMAIN pc /\ pc'[0] = "none" /\ \A t \in Threads : pc'[t] = pc[t]
      BY <2>1, <2>2, <3>1
    <3>3. ASSUME NEW q \in DOMAIN pc, NEW k \in DOMAIN mutex
          PROVE  Owns(q, k)' <=> Owns(q, k)
      BY <2>1, <2>4, <3>1, <3>2 DEF Owns
    <3>4. LockedFirst'
      BY <2>3, <2>4, <3>1 DEF LockedFirst
    <3>5. QED
      BY <2>5, <3>1, <3>2, <3>3, <3>4 DEF MutexInv
  <2>9. CASE start_thread_obtaining_mutex
    <3>1. /\ step = "start" /\ UNCHANGED <<test, mutex, holds>> /\ pc[0] = "none"
          /\ pc[turn] = "none"
      BY <1>4, <2>1, <2>2, <2>9 DEF start_thread_obtaining_mutex, Testing, ThreadsInOrder
    <3>2. /\ DOMAIN pc' = DOMAIN pc /\ pc'[0] = "none" /\ pc'[turn] \in {"none", "created"}
          /\ \A t \in Threads : t # turn => pc'[t] = pc[t]
      <4>1. pc' = pc \/ pc' = [pc EXCEPT ![turn] = "created"]
        BY <2>9 DEF start_thread_obtaining_mutex
      <4>2. QED
        BY <2>1, <2>2, <3>1, <4>1
    <3>3. ASSUME NEW q \in DOMAIN pc, NEW k \in DOMAIN mutex
          PROVE  Owns(q, k)' <=> Owns(q, k)
      BY <2>1, <2>4, <3>1, <3>2 DEF Owns
    <3>4. \/ step' = step /\ turn' = turn
          \/ turn < n /\ step' = "init" /\ turn' = turn + 1
          \/ step' \in {"unlock", "join"}
      BY <2>9 DEF start_thread_obtaining_mutex, NextStarted, Goes, Verify, Fails, n
    <3>5. LockedFirst'
      <4>1. test.locked => \A t \in Threads : t <= turn => Mutex(t) \in holds
        BY <2>1, <2>2, <2>3, <3>1 DEF LockedFirst
      <4>2. CASE turn < n /\ step' = "init" /\ turn' = turn + 1
        BY <2>1, <2>2, <2>4, <3>1, <4>1, <4>2 DEF LockedFirst
      <4>3. CASE step' = step /\ turn' = turn
        BY <2>3, <2>4, <3>1, <4>3 DEF LockedFirst
      <4>4. CASE step' \in {"unlock", "join"}
        BY <4>4 DEF LockedFirst
      <4>5. QED
        BY <3>4, <4>2, <4>3, <4>4
    <3>6. QED
      BY <2>5, <3>1, <3>2, <3>3, <3>5 DEF MutexInv
  <2>10. CASE UnlockMutex
    <3> DEFINE m == Mutex(turn)
    <3>1. /\ step = "unlock" /\ pc[0] = "none" /\ 0 \in DOMAIN pc /\ m \in DOMAIN mutex
          /\ m \in holds /\ test' = test /\ step' \in {"unlock", "join"} /\ turn' = turn
      BY <1>4, <2>1, <2>2, <2>10 DEF UnlockMutex, Testing, ThreadsInOrder, Fails, Goes
    <3>2. LockedFirst'
      BY <3>1 DEF LockedFirst
    <3>3. CASE UNCHANGED <<pc, mutex, holds>>
      <4>1. ASSUME NEW q \in DOMAIN pc, NEW k \in DOMAIN mutex
            PROVE  Owns(q, k)' <=> Owns(q, k)
        BY <2>4, <3>1, <3>3 DEF Owns
      <4>2. QED
        BY <2>5, <3>1, <3>2, <3>3, <4>1 DEF MutexInv
    <3>4. CASE Unlock(0, m, "none") /\ holds' = holds \ {m}
      <4>1. Owns(0, m)
        BY <3>1 DEF Owns
      <4>2. MutexExcludes'
        BY <2>1, <2>3, <3>1, <3>4, <4>1, UnlockKeepsMutex
      <4>3. QED
        BY <3>2, <4>2 DEF MutexInv
    <3>5. QED
      BY <2>10, <3>3, <3>4 DEF UnlockMutex
  <2>11. CASE JoinThread
    <3>1. /\ step = "join" /\ pc[0] = "none" /\ pc[turn] = "returned"
          /\ UNCHANGED <<test, mutex, holds>>
          /\ pc' = pc \/ pc' = [pc EXCEPT ![turn] = "joined"]
      BY <1>4, <2>11 DEF JoinThread, Testing, ThreadsInOrder
    <3>2. step' \in {"unlock", "join", "over"}
      BY <2>11, <3>1 DEF JoinThread, NextJoined, Goes, Verify, Fails
    <3>3. /\ DOMAIN pc' = DOMAIN pc /\ pc'[0] = "none" /\ pc'[turn] # "inside"
          /\ \A t \in Threads : t # turn => pc'[t] = pc[t]
      BY <2>1, <2>2, <3>1
    <3>4. ASSUME NEW q \in DOMAIN pc, NEW k \in DOMAIN mutex
          PROVE  Owns(q, k)' <=> Owns(q, k)
      BY <2>1, <2>4, <3>1, <3>3 DEF Owns
    <3>5. LockedFirst'
      BY <3>2 DEF LockedFirst
    <3>6. QED
      BY <2>5, <3>1, <3>3, <3>4, <3>5 DEF MutexInv
  <2>12. ASSUME NEW t \in Threads, threadfunc(t)
         PROVE  MutexInv'
    <3>1. /\ UNCHANGED <<test, step, turn, holds>> /\ Mutex(t) \in DOMAIN mutex
          /\ t \in DOMAIN pc /\ t # 0
      BY <2>1, <2>2, <2>12 DEF threadfunc, ThreadLocks, ThreadUnlocks, ThreadReturns
    <3>2. LockedFirst'
      BY <2>3, <2>4, <3>1 DEF LockedFirst
    <3>3. CASE ThreadLocks(t)
      <4>1. Lock(t, Mutex(t), "inside") /\ pc[t] # "inside"
        BY <3>3 DEF ThreadLocks
      <4>2. MutexExcludes'
        BY <2>1, <2>3, <3>1, <4>1, LockKeepsMutex
      <4>3. QED
        BY <3>2, <4>2 DEF MutexInv
    <3>4. CASE ThreadUnlocks(t)
      <4>1. Unlock(t, Mutex(t), "unlocked") /\ Owns(t, Mutex(t))
        BY <3>1, <3>4 DEF ThreadUnlocks, Owns
      <4>2. MutexExcludes'
        BY <2>1, <2>3, <3>1, <4>1, UnlockKeepsMutex
      <4>3. QED
        BY <3>2, <4>2 DEF MutexInv
    <3>5. CASE ThreadReturns(t)
      <4>1. /\ DOMAIN pc' = DOMAIN pc /\ mutex' = mutex /\ pc[t] # "inside" /\ pc'[t] # "inside"
            /\ \A q \in DOMAIN pc : q # t => pc'[q] = pc[q]
        BY <2>1, <3>1, <3>5 DEF ThreadReturns
      <4>2. ASSUME NEW q \in DOMAIN pc, NEW k \in DOMAIN mutex
            PROVE  Owns(q, k)' <=> Owns(q, k)
        BY <2>1, <2>4, <3>1, <4>1 DEF Owns
      <4>3. QED
        BY <2>5, <3>1, <3>2, <4>1, <4>2 DEF MutexInv
    <3>6. QED
      BY <2>12, <3>3, <3>4, <3>5 DEF threadfunc
  <2>13. QED
    BY <1>4, <2>6, <2>7, <2>8, <2>9, <2>10, <2>11, <2>12 DEF ThreadsNext, ThreadTest
<1>5. QED
  BY <1>1, <1>2, <1>3, <1>4 DEF ThreadsInv, Next, vars

LEMMA MemoryKind ==
  ASSUME MemoryNext
  PROVE  UNCHANGED <<stage, kind, Unity>> \/ (kind = "memory" /\ kind' = kind)
<1>1. program' = program /\ file' = file => kind' = kind
  BY DEF kind, Files
<1>2. UNCHANGED unity => UNCHANGED <<stage, kind, Unity>>
  BY <1>1 DEF unity
<1>3. CASE UnityMalloc_StartTest \/ UnityMalloc_EndTest
  BY <1>1, <1>3 DEF UnityMalloc_StartTest, UnityMalloc_EndTest
<1>4. ASSUME NEW n, UnityMalloc_MakeMallocFailAfterCount(n)
      PROVE  UNCHANGED unity
  BY <1>4 DEF UnityMalloc_MakeMallocFailAfterCount
<1>5. ASSUME NEW size, unity_malloc(size)
      PROVE  UNCHANGED unity
  BY <1>5 DEF unity_malloc
<1>6. ASSUME NEW b, unity_free(b) \/ ReallocOverrun(b)
      PROVE  kind = "memory" /\ kind' = kind
  BY <1>1, <1>6 DEF unity_free, ReallocOverrun, InBody
<1>7. ASSUME NEW b, Overrun(b) \/ ReallocToNothing(b)
      PROVE  UNCHANGED unity
  BY <1>7 DEF Overrun, ReallocToNothing
<1>8. ASSUME NEW b, NEW size, ReallocInPlace(b, size) \/ ReallocMoves(b, size)
      PROVE  UNCHANGED unity
  BY <1>8 DEF ReallocInPlace, ReallocMoves
<1>9. QED
  BY <1>2, <1>3, <1>4, <1>5, <1>6, <1>7, <1>8 DEF MemoryNext

LEMMA DoneNext == RunInv /\ DoneInv /\ [Next]_vars => DoneInv'
<1> SUFFICES ASSUME RunInv, DoneInv, [Next]_vars, kind' = "threads"
             PROVE  DoneInv'
  BY DEF DoneInv
<1>1. program' = program /\ file' = file => kind' = kind
  BY DEF kind, Files
<1>2. Unity' = Unity => RETURN_IF_FAIL_OR_IGNORE' = RETURN_IF_FAIL_OR_IGNORE
  BY DEF RETURN_IF_FAIL_OR_IGNORE
<1>3. UNCHANGED <<stage, kind, Unity, step>> => DoneInv'
  BY <1>2 DEF DoneInv
<1>4. UNCHANGED <<unity, step>> => DoneInv'
  BY <1>1, <1>3 DEF unity
<1>5. CASE (Runner \/ BodyEnds \/ Assertions) /\ UNCHANGED threads
  BY <1>5, TestGoesOn DEF threads, DoneInv
<1>6. CASE (MemoryNext \/ CallsNext) /\ UNCHANGED threads
  BY <1>3, <1>6, MemoryKind, CallsKind DEF threads
<1>7. CASE ThreadsNext
  <2>1. Fails => DoneInv'
    BY FailureIsKnown DEF RunInv, Fails, DoneInv
  <2>2. ASSUME NEW s, NEW t, Goes(s, t), stage = "body"
        PROVE  DoneInv'
    BY <2>2 DEF Goes, unity, DoneInv
  <2>3. CASE ThreadTestBegins
    BY <2>3 DEF ThreadTestBegins, DoneInv
  <2>4. CASE LockMutex
    BY <1>4, <2>4 DEF LockMutex
  <2>5. CASE InitMutex \/ MutexLocked
    BY <2>2, <2>5 DEF InitMutex, MutexLocked, Testing, InBody
  <2>6. CASE start_thread_obtaining_mutex
    BY <2>1, <2>2, <2>6 DEF start_thread_obtaining_mutex, NextStarted, Testing, InBody
  <2>7. CASE UnlockMutex
    BY <2>1, <2>2, <2>7 DEF UnlockMutex, Testing, InBody
  <2>8. CASE JoinThread
    BY <2>1, <2>2, <2>8 DEF JoinThread, NextJoined, Testing, InBody
  <2>9. ASSUME NEW t, threadfunc(t)
        PROVE  DoneInv'
    BY <1>4, <2>9 DEF threadfunc, ThreadLocks, ThreadUnlocks, ThreadReturns
  <2>10. QED
    BY <1>7, <2>3, <2>4, <2>5, <2>6, <2>7, <2>8, <2>9 DEF ThreadsNext, ThreadTest
<1>8. CASE UNCHANGED vars
  BY <1>4, <1>8 DEF vars, threads
<1>9. QED
  BY <1>5, <1>6, <1>7, <1>8 DEF Next

LEMMA ThreadsInit == Init => ThreadsInv /\ MutexInv /\ DoneInv
<1> SUFFICES ASSUME Init
             PROVE  ThreadsInv /\ MutexInv /\ DoneInv
  OBVIOUS
<1>1. NoThreads /\ stage = "main"
  BY DEF Init, InitThreads, InitUnity, NoThreads
<1>2. DOMAIN mutex = {} /\ step = "over"
  BY <1>1 DEF NoThreads
<1>3. QED
  BY <1>1, <1>2 DEF ThreadsInv, MutexInv, LockedFirst, MutexExcludes, DoneInv

(* Between its lock and its unlock a thread is alone, for any number of     *)
(* threads and any mutexes, if a test that gives two threads the same mutex *)
(* locks it first: it initialises the mutex again for the second of them.   *)
THEOREM SectionsCorrect == ASSUME OwnMutexes PROVE Spec => []SectionsExclude
<1>1. ThreadsInv /\ MutexInv => SectionsExclude
  <2> SUFFICES ASSUME ThreadsInv, MutexInv, NEW m \in DOMAIN mutex
               PROVE  Cardinality(Inside(m)) + (IF m \in holds THEN 1 ELSE 0) <= 1
    BY DEF SectionsExclude
  <2>1. /\ DOMAIN pc = {0} \cup Threads /\ 0 \notin Threads
    <3>1. ThreadTypes
      BY DEF ThreadsInv, NoThreads
    <3>2. QED
      BY <3>1, TestType DEF ThreadTypes, Threads
  <2>2. \A p, q \in DOMAIN pc : Owns(p, m) /\ Owns(q, m) => p = q
    BY DEF MutexInv, MutexExcludes
  <2>3. \A t \in Inside(m) : t \in DOMAIN pc /\ t # 0 /\ Owns(t, m)
    BY <2>1 DEF Inside, Owns
  <2>4. m \in holds => Owns(0, m)
    BY DEF Owns
  <2>5. Cardinality({}) = 0
    BY FS_EmptySet
  <2>6. CASE Inside(m) = {}
    BY <2>5, <2>6
  <2>7. CASE Inside(m) # {}
    <3>1. PICK t \in Inside(m) : TRUE
      BY <2>7
    <3>2. Inside(m) = {t} /\ m \notin holds
      BY <2>1, <2>2, <2>3, <2>4, <3>1
    <3>3. Cardinality({t}) = 1
      BY FS_Singleton
    <3>4. QED
      BY <3>2, <3>3
  <2>8. QED
    BY <2>6, <2>7
<1>2. QED
  BY <1>1, ThreadsInit, ThreadsInvNext, MutexInvNext, PTL DEF Spec

(* The data of a thread is allocated from before it is created until it is *)
(* joined.                                                                 *)
THEOREM DataCorrect == Spec => []DataOutlivesThread
<1>1. ThreadsInv => DataOutlivesThread
  <2>1. NoThreads => Threads = {}
    BY DEF NoThreads, NoTest, Threads
  <2>2. QED
    BY <2>1 DEF ThreadsInv, ThreadsInOrder, DataOutlivesThread
<1>2. QED
  BY <1>1, ThreadsInit, ThreadsInvNext, PTL DEF Spec

(* A test about threads that is over without a failure has joined its      *)
(* threads, freed their data and left its mutexes unlocked.                *)
THEOREM ThreadTestCorrect == ASSUME OwnMutexes PROVE Spec => []ThreadTestIsClean
<1>1. ThreadsInv /\ MutexInv /\ DoneInv => ThreadTestIsClean
  <2> SUFFICES ASSUME ThreadsInv, MutexInv, DoneInv,
                      stage = "conclude", kind = "threads", ~RETURN_IF_FAIL_OR_IGNORE
               PROVE  /\ \A t \in Threads : pc[t] = "joined" /\ data[t] = "freed"
                      /\ \A m \in DOMAIN mutex : mutex[m] = 0
    BY DEF ThreadTestIsClean
  <2>1. step = "over"
    BY DEF DoneInv
  <2>2. CASE NoThreads
    <3>1. Threads = {} /\ DOMAIN mutex = {}
      BY <2>2 DEF NoThreads, NoTest, Threads
    <3>2. QED
      BY <3>1
  <2>3. CASE ThreadTypes /\ ThreadsInOrder
    <3>1. \A t \in Threads : pc[t] = "joined" /\ data[t] = "freed" /\ Mutex(t) \notin holds
      BY <2>1, <2>3 DEF ThreadsInOrder
    <3>2. /\ DOMAIN pc = {0} \cup Threads /\ pc[0] = "none"
          /\ \A m \in DOMAIN mutex : \E t \in Threads : Mutex(t) = m
      BY <2>1, <2>3 DEF ThreadTypes, ThreadsInOrder, Threads, Mutex, Range
    <3>3. ASSUME NEW m \in DOMAIN mutex, NEW p \in DOMAIN pc
          PROVE  ~Owns(p, m)
      BY <3>1, <3>2 DEF Owns
    <3>4. QED
      BY <3>1, <3>3 DEF MutexInv, MutexExcludes
  <2>4. QED
    BY <2>2, <2>3 DEF ThreadsInv
<1>2. QED
  BY <1>1, ThreadsInit, ThreadsInvNext, MutexInvNext, DoneNext, RunInit, RunNext, PTL DEF Spec


-----------------------------------------------------------------------------
(* The system calls.                                                       *)

CallRecords ==
  [function : {"do_system", "do_exec", "do_exec_redirect"}, command : Commands,
   at : {"fork", "close", "wait", "returned", "checked"}, opened : BOOLEAN,
   value : BOOLEAN, failed : {"nothing", "fork", "wait"}]

ChildRecords ==
  [at : {"none", "forked", "redirected", "running", "zombie", "reaped"}, ran : BOOLEAN,
   status : 0 .. 255]

CallTypes ==
  /\ calls \in Seq(CallRecords) /\ last <= MaxCalls
  /\ child \in [1 .. MaxCalls -> ChildRecords] /\ fd \in [1 .. MaxCalls -> {"open", "closed"}]

(* A call, its child k, and its descriptor f of the output file.           *)
CallAgrees(c, k, f) ==
  /\ c.at = "fork" => k = NoChild /\ c.function # "do_system"
  /\ c.at \in {"close", "wait"} => k.at \in {"forked", "redirected", "running", "zombie"}
  /\ c.at = "wait" \/ c.function # "do_exec_redirect" => f = "closed"
  /\ c.at \in {"returned", "checked"} /\ c.failed # "wait" => k.at \in {"none", "reaped"}
  /\ c.at = "returned" /\ c.failed # "fork" => f = "closed"
  /\ c.at = "returned" /\ c.value => k.ran /\ k.status = 0
  /\ c.at = "returned" /\ c.failed = "nothing" /\ k.ran /\ k.status = 0 => c.value
  /\ k.ran => k.at \in {"zombie", "reaped"}
  /\ k.at \in {"zombie", "reaped"} /\ k.status = 0 => k.ran
  /\ c.function = "do_exec_redirect" /\ (k.at \in {"redirected", "running"} \/ k.ran) => c.opened

(* All calls but the last one are done, and the ones to come have nothing. *)
CallsAgree ==
  /\ \A i \in 1 .. last : /\ CallAgrees(calls[i], child[i], fd[i])
                          /\ i < last => calls[i].at = "checked"
  /\ \A i \in 1 .. MaxCalls : i > last => child[i] = NoChild /\ fd[i] = "closed"

(* The output file is the one of the last call, and empty until its        *)
(* command has run.                                                        *)
OutputAgrees ==
  last > 0 =>
    (Redirects(last) /\ calls[last].opened /\ Undisturbed =>
       output = IF child[last].ran THEN calls[last].command.writes ELSE <<>>)

CallsInv == CallTypes /\ CallsAgree /\ OutputAgrees

LEMMA LastCall ==
  ASSUME CallTypes
  PROVE  /\ MaxCalls \in Nat \ {0} /\ last \in 0 .. MaxCalls /\ DOMAIN calls = 1 .. last
         /\ \A i \in 1 .. last : calls[i] \in CallRecords
         /\ calls # <<>> <=> last # 0
         /\ last # 0 => Last(calls) = calls[last]
<1>1. calls \in Seq(CallRecords) /\ MaxCalls \in Nat \ {0} /\ last <= MaxCalls /\ last = Len(calls)
  BY CommandsAssumption DEF CallTypes, last
<1>2. /\ last \in Nat /\ DOMAIN calls = 1 .. last /\ \A i \in 1 .. last : calls[i] \in CallRecords
  BY <1>1, LenProperties, ElementOfSeq
<1>3. calls # <<>> <=> last # 0
  BY <1>1, EmptySeq
<1>4. QED
  BY <1>1, <1>2, <1>3 DEF Last

(* A call goes on, or returns.                                             *)
LEMMA CallGoesOn ==
  ASSUME CallTypes, last # 0,
         NEW c \in CallRecords, calls' = [calls EXCEPT ![last] = c]
  PROVE  /\ calls' \in Seq(CallRecords) /\ last' = last /\ calls'[last] = c
         /\ \A i \in 1 .. last : i # last => calls'[i] = calls[i]
<1>1. calls \in Seq(CallRecords) /\ last \in 1 .. Len(calls) /\ last = Len(calls)
  BY LastCall DEF CallTypes, last
<1>2. /\ calls' \in Seq(CallRecords) /\ Len(calls') = Len(calls) /\ calls'[last] = c
      /\ \A i \in 1 .. Len(calls) : i # last => calls'[i] = calls[i]
  BY <1>1, ExceptSeq
<1>3. QED
  BY <1>1, <1>2 DEF last

LEMMA ToEffect ==
  ASSUME CallTypes, last # 0, NEW point \in {"fork", "close", "wait", "returned", "checked"},
         To(point)
  PROVE  /\ calls' \in Seq(CallRecords) /\ last' = last
         /\ calls'[last] = [calls[last] EXCEPT !.at = point]
         /\ \A i \in 1 .. last : i # last => calls'[i] = calls[i]
<1> DEFINE c == [calls[last] EXCEPT !.at = point]
<1>1. calls[last] \in CallRecords
  BY LastCall
<1>2. c \in CallRecords
  BY <1>1 DEF CallRecords
<1>3. calls' = [calls EXCEPT ![last] = c]
  BY DEF To
<1> HIDE DEF c
<1>4. /\ calls' \in Seq(CallRecords) /\ last' = last /\ calls'[last] = c
      /\ \A i \in 1 .. last : i # last => calls'[i] = calls[i]
  BY <1>2, <1>3, CallGoesOn
<1>5. QED
  BY <1>4 DEF c

LEMMA ReturnEffect ==
  ASSUME CallTypes, last # 0, NEW value \in BOOLEAN, NEW failed \in {"nothing", "fork", "wait"},
         Return(value, failed)
  PROVE  /\ calls' \in Seq(CallRecords) /\ last' = last
         /\ calls'[last] = [calls[last] EXCEPT !.at = "returned", !.value = value, !.failed = failed]
         /\ \A i \in 1 .. last : i # last => calls'[i] = calls[i]
<1> DEFINE c == [calls[last] EXCEPT !.at = "returned", !.value = value, !.failed = failed]
<1>1. calls[last] \in CallRecords /\ last \in DOMAIN calls
  BY LastCall
<1>2. c \in CallRecords
  BY <1>1 DEF CallRecords
<1>3. calls' = [calls EXCEPT ![last] = c]
  <2>1. calls \in Seq(CallRecords)
    BY DEF CallTypes
  <2>2. QED
    BY <1>1, <2>1 DEF Return
<1> HIDE DEF c
<1>4. /\ calls' \in Seq(CallRecords) /\ last' = last /\ calls'[last] = c
      /\ \A i \in 1 .. last : i # last => calls'[i] = calls[i]
  BY <1>2, <1>3, CallGoesOn
<1>5. QED
  BY <1>4 DEF c

(* A call more.                                                            *)
LEMMA NewCall ==
  ASSUME CallTypes, NEW c \in CallRecords, calls' = Append(calls, c)
  PROVE  /\ calls' \in Seq(CallRecords) /\ last' = last + 1 /\ calls'[last + 1] = c
         /\ \A i \in 1 .. last : calls'[i] = calls[i]
<1>1. calls \in Seq(CallRecords)
  BY DEF CallTypes
<1>2. /\ Append(calls, c) \in Seq(CallRecords) /\ Len(Append(calls, c)) = Len(calls) + 1
      /\ \A i \in 1 .. Len(calls) : Append(calls, c)[i] = calls[i]
      /\ Append(calls, c)[Len(calls) + 1] = c
  BY <1>1, AppendProperties
<1>3. QED
  BY <1>2 DEF last

(* A step of one call, or a new one, when the one before it is done.       *)
LEMMA OneCall ==
  ASSUME CallTypes, CallsAgree, NEW j \in 1 .. MaxCalls, j <= last', last' <= MaxCalls,
         \/ last' = last
         \/ last' = last + 1 /\ j = last + 1 /\ (last # 0 => calls[last].at = "checked"),
         calls' \in Seq(CallRecords), child' \in [1 .. MaxCalls -> ChildRecords],
         fd' \in [1 .. MaxCalls -> {"open", "closed"}],
         \A i \in 1 .. last : i # j => calls'[i] = calls[i],
         \A i \in 1 .. MaxCalls : i # j => child'[i] = child[i] /\ fd'[i] = fd[i],
         CallAgrees(calls'[j], child'[j], fd'[j]), j < last' => calls'[j].at = "checked"
  PROVE  (CallTypes /\ CallsAgree)'
<1>1. MaxCalls \in Nat \ {0} /\ last \in 0 .. MaxCalls
  BY LastCall
<1>2. CallTypes'
  BY DEF CallTypes
<1>3. ASSUME NEW i \in 1 .. last'
      PROVE  /\ CallAgrees(calls'[i], child'[i], fd'[i])
             /\ i < last' => calls'[i].at = "checked"
  <2>1. CASE i = j
    BY <2>1
  <2>2. CASE i # j
    <3>1. i \in 1 .. last /\ (i < last' => i < last \/ (last' = last + 1 /\ i = last))
      BY <1>1, <2>2
    <3>2. calls'[i] = calls[i] /\ child'[i] = child[i] /\ fd'[i] = fd[i]
      BY <1>1, <2>2, <3>1
    <3>3. CallAgrees(calls[i], child[i], fd[i]) /\ (i < last => calls[i].at = "checked")
      BY <3>1 DEF CallsAgree
    <3>4. i < last' => calls[i].at = "checked"
      BY <1>1, <3>1, <3>3
    <3>5. QED
      BY <3>2, <3>3, <3>4
  <2>3. QED
    BY <2>1, <2>2
<1>4. ASSUME NEW i \in 1 .. MaxCalls, i > last'
      PROVE  child'[i] = NoChild /\ fd'[i] = "closed"
  <2>1. i > last /\ i # j
    BY <1>1, <1>4
  <2>2. child[i] = NoChild /\ fd[i] = "closed"
    BY <2>1 DEF CallsAgree
  <2>3. QED
    BY <2>1, <2>2
<1>5. QED
  BY <1>2, <1>3, <1>4 DEF CallsAgree

(* A step after which the last call redirects the same command as before.  *)
LEMMA SameOutput ==
  ASSUME CallTypes, OutputAgrees, last # 0, last' = last,
         \A i \in 1 .. last : i # last => calls'[i] = calls[i],
         calls'[last].function = calls[last].function,
         calls'[last].command = calls[last].command, calls'[last].opened = calls[last].opened,
         child'[last].ran = child[last].ran, output' = output
  PROVE  OutputAgrees'
<1>1. last \in Nat
  BY LastCall
<1>2. Redirects(last)' = Redirects(last)
  BY DEF Redirects
<1>3. Undisturbed' => Undisturbed
  BY <1>1 DEF Undisturbed
<1>4. QED
  BY <1>1, <1>2, <1>3 DEF OutputAgrees

(* What the calls of the test do.                                          *)
LEMMA CallerKeeps ==
  ASSUME CallsInv, Fork \/ Close \/ Wait \/ WaitInterrupted \/ CheckResult
  PROVE  CallsInv'
<1> DEFINE c == calls[last]
           k == child[last]
<1>1. CallTypes /\ CallsAgree /\ OutputAgrees
  BY DEF CallsInv
<1>2. last # 0 /\ last \in 1 .. MaxCalls /\ c \in CallRecords /\ MaxCalls \in Nat
  <2>1. calls # <<>>
    BY DEF Fork, Close, Wait, WaitInterrupted, CheckResult, CallIs
  <2>2. QED
    BY <1>1, <2>1, LastCall
<1>3. \A point : CallIs(point) <=> InBody("calls") /\ c.at = point
  BY <1>1, <1>2, LastCall DEF CallIs
<1>4. /\ child \in [1 .. MaxCalls -> ChildRecords] /\ k \in ChildRecords
      /\ fd \in [1 .. MaxCalls -> {"open", "closed"}]
      /\ calls \in Seq(CallRecords) /\ CallAgrees(c, k, fd[last])
  BY <1>1, <1>2 DEF CallTypes, CallsAgree
<1> HIDE DEF c, k
<1>5. ASSUME last' = last, calls' \in Seq(CallRecords),
             \A i \in 1 .. last : i # last => calls'[i] = calls[i],
             child' \in [1 .. MaxCalls -> ChildRecords],
             fd' \in [1 .. MaxCalls -> {"open", "closed"}],
             \A i \in 1 .. MaxCalls : i # last => child'[i] = child[i] /\ fd'[i] = fd[i],
             CallAgrees(calls'[last], child'[last], fd'[last]),
             calls'[last].function = c.function, calls'[last].command = c.command,
             calls'[last].opened = c.opened, child'[last].ran = k.ran, output' = output
      PROVE  CallsInv'
  <2>1. (CallTypes /\ CallsAgree)'
    <3>1. /\ last <= last' /\ last' <= MaxCalls /\ last \in 1 .. MaxCalls /\ last' = last
          /\ ~(last < last')
      BY <1>2, <1>5
    <3>2. CallTypes /\ CallsAgree
      BY <1>1
    <3>3. QED
      BY ONLY <3>1, <3>2, <1>5, OneCall
  <2>2. OutputAgrees'
    BY <1>1, <1>2, <1>5, SameOutput DEF c, k
  <2>3. QED
    BY <2>1, <2>2 DEF CallsInv
<1>6. CASE Fork
  <2>1. c.at = "fork" /\ fd' = fd /\ output' = output
    BY <1>3, <1>6 DEF Fork
  <2>2. k = NoChild /\ c.function # "do_system"
    BY <1>4, <2>1 DEF CallAgrees
  <2>3. CASE child' = [child EXCEPT ![last].at = "forked"]
             /\ To(IF Redirects(last) THEN "close" ELSE "wait")
    <3> DEFINE point == IF Redirects(last) THEN "close" ELSE "wait"
    <3>1. point \in {"fork", "close", "wait", "returned", "checked"} /\ To(point)
      BY <2>3
    <3>2. /\ calls' \in Seq(CallRecords) /\ last' = last
          /\ calls'[last] = [c EXCEPT !.at = point]
          /\ \A i \in 1 .. last : i # last => calls'[i] = calls[i]
      BY <1>1, <1>2, <3>1, ToEffect DEF c
    <3>3. point = IF c.function = "do_exec_redirect" THEN "close" ELSE "wait"
      BY DEF Redirects, c
    <3> HIDE DEF point
    <3>4. /\ child' \in [1 .. MaxCalls -> ChildRecords] /\ child'[last] = [k EXCEPT !.at = "forked"]
          /\ \A i \in 1 .. MaxCalls : i # last => child'[i] = child[i]
      <4>1. [k EXCEPT !.at = "forked"] \in ChildRecords
        BY <1>4 DEF ChildRecords
      <4>2. child' = [child EXCEPT ![last] = [k EXCEPT !.at = "forked"]]
        BY <2>3 DEF k
      <4>3. QED
        BY <1>2, <1>4, <4>1, <4>2
    <3>5. CallAgrees(calls'[last], child'[last], fd'[last])
      BY <1>2, <1>4, <2>1, <2>2, <3>2, <3>3, <3>4 DEF CallAgrees, CallRecords, ChildRecords, NoChild
    <3>6. QED
      BY <1>2, <1>4, <1>5, <2>1, <3>2, <3>4, <3>5 DEF CallRecords, ChildRecords
  <2>4. CASE Return(FALSE, "fork") /\ UNCHANGED child
    <3>1. /\ calls' \in Seq(CallRecords) /\ last' = last
          /\ calls'[last] = [c EXCEPT !.at = "returned", !.value = FALSE, !.failed = "fork"]
          /\ \A i \in 1 .. last : i # last => calls'[i] = calls[i]
      BY <1>1, <1>2, <2>4, ReturnEffect DEF c
    <3>2. child'[last] = k
      BY <2>4 DEF k
    <3>3. CallAgrees(calls'[last], child'[last], fd'[last])
      BY <1>2, <1>4, <2>1, <2>2, <3>1, <3>2 DEF CallAgrees, CallRecords, NoChild
    <3>4. QED
      BY <1>2, <1>4, <1>5, <2>1, <2>4, <3>1, <3>2, <3>3 DEF CallRecords
  <2>5. QED
    BY <1>6, <2>3, <2>4 DEF Fork
<1>7. CASE Close
  <2>1. c.at = "close" /\ fd' = [fd EXCEPT ![last] = "closed"] /\ To("wait")
        /\ child' = child /\ output' = output
    BY <1>3, <1>7 DEF Close
  <2>2. /\ calls' \in Seq(CallRecords) /\ last' = last
        /\ calls'[last] = [c EXCEPT !.at = "wait"]
        /\ \A i \in 1 .. last : i # last => calls'[i] = calls[i]
    BY <1>1, <1>2, <2>1, ToEffect DEF c
  <2>3. child'[last] = k /\ fd'[last] = "closed"
    BY <1>2, <1>4, <2>1 DEF k
  <2>4. CallAgrees(calls'[last], child'[last], fd'[last])
    BY <1>2, <1>4, <2>1, <2>2, <2>3 DEF CallAgrees, CallRecords
  <2>5. QED
    BY <1>2, <1>4, <1>5, <2>1, <2>2, <2>3, <2>4 DEF CallRecords
<1>8. CASE Wait
  <2>1. c.at = "wait" /\ k.at = "zombie" /\ child' = [child EXCEPT ![last].at = "reaped"]
        /\ Return(k.status = 0, "nothing") /\ fd' = fd /\ output' = output
    BY <1>3, <1>8 DEF Wait, k
  <2>2. /\ calls' \in Seq(CallRecords) /\ last' = last
        /\ calls'[last] = [c EXCEPT !.at = "returned", !.value = (k.status = 0),
                                    !.failed = "nothing"]
        /\ \A i \in 1 .. last : i # last => calls'[i] = calls[i]
    BY <1>1, <1>2, <2>1, ReturnEffect DEF c
  <2>3. /\ child' \in [1 .. MaxCalls -> ChildRecords] /\ child'[last] = [k EXCEPT !.at = "reaped"]
        /\ \A i \in 1 .. MaxCalls : i # last => child'[i] = child[i]
    <3>1. [k EXCEPT !.at = "reaped"] \in ChildRecords
      BY <1>4 DEF ChildRecords
    <3>2. child' = [child EXCEPT ![last] = [k EXCEPT !.at = "reaped"]]
      BY <2>1 DEF k
    <3>3. QED
      BY <1>2, <1>4, <3>1, <3>2
  <2> DEFINE d == calls'[last]
             l == child'[last]
  <2>6. /\ d.at = "returned" /\ d.failed = "nothing" /\ d.function = c.function
        /\ d.opened = c.opened /\ (d.value <=> k.status = 0)
    BY <1>2, <2>2 DEF CallRecords
  <2>7. l.at = "reaped" /\ l.ran = k.ran /\ l.status = k.status /\ (k.status = 0 => k.ran)
    BY <1>4, <2>1, <2>3 DEF ChildRecords, CallAgrees
  <2> HIDE DEF d, l
  <2>8. CallAgrees(d, l, fd'[last])
    BY <1>4, <2>1, <2>6, <2>7 DEF CallAgrees
  <2>4. CallAgrees(calls'[last], child'[last], fd'[last])
    BY <2>8 DEF d, l
  <2>5. QED
    BY <1>2, <1>4, <1>5, <2>1, <2>2, <2>3, <2>4 DEF CallRecords, ChildRecords
<1>9. CASE WaitInterrupted
  <2>1. c.at = "wait" /\ Return(FALSE, "wait") /\ child' = child /\ fd' = fd /\ output' = output
    BY <1>3, <1>9 DEF WaitInterrupted
  <2>2. /\ calls' \in Seq(CallRecords) /\ last' = last
        /\ calls'[last] = [c EXCEPT !.at = "returned", !.value = FALSE, !.failed = "wait"]
        /\ \A i \in 1 .. last : i # last => calls'[i] = calls[i]
    BY <1>1, <1>2, <2>1, ReturnEffect DEF c
  <2>3. child'[last] = k
    BY <2>1 DEF k
  <2>4. CallAgrees(calls'[last], child'[last], fd'[last])
    BY <1>2, <1>4, <2>1, <2>2, <2>3 DEF CallAgrees, CallRecords
  <2>5. QED
    BY <1>2, <1>4, <1>5, <2>1, <2>2, <2>3, <2>4 DEF CallRecords
<1>10. CASE CheckResult
  <2>1. c.at = "returned" /\ child' = child /\ fd' = fd /\ output' = output
        /\ (calls' = calls \/ To("checked"))
    BY <1>3, <1>10 DEF CheckResult
  <2>2. child'[last] = k
    BY <2>1 DEF k
  <2>3. CASE calls' = calls
    <3>1. last' = last /\ calls'[last] = c
      BY <2>3 DEF last, c
    <3>2. QED
      BY <1>2, <1>4, <1>5, <2>1, <2>2, <2>3, <3>1
  <2>4. CASE To("checked")
    <3>1. /\ calls' \in Seq(CallRecords) /\ last' = last
          /\ calls'[last] = [c EXCEPT !.at = "checked"]
          /\ \A i \in 1 .. last : i # last => calls'[i] = calls[i]
      BY <1>1, <1>2, <2>4, ToEffect DEF c
    <3>2. CallAgrees(calls'[last], child'[last], fd'[last])
      BY <1>2, <1>4, <2>1, <2>2, <3>1 DEF CallAgrees, CallRecords
    <3>3. QED
      BY <1>2, <1>4, <1>5, <2>1, <2>2, <3>1, <3>2 DEF CallRecords
  <2>5. QED
    BY <2>1, <2>3, <2>4
<1>11. QED
  BY <1>6, <1>7, <1>8, <1>9, <1>10

(* What a child does.                                                      *)
LEMMA ChildKeeps ==
  ASSUME CallsInv, NEW i \in DOMAIN child, Child(i)
  PROVE  CallsInv'
<1> DEFINE c == calls[i]
           k == child[i]
<1>1. CallTypes /\ CallsAgree /\ OutputAgrees
  BY DEF CallsInv
<1>2. /\ i \in 1 .. last /\ i \in 1 .. MaxCalls /\ last # 0 /\ last \in 1 .. MaxCalls
      /\ c \in CallRecords /\ k \in ChildRecords
      /\ child \in [1 .. MaxCalls -> ChildRecords]
      /\ fd \in [1 .. MaxCalls -> {"open", "closed"}] /\ calls \in Seq(CallRecords)
  <2>1. i \in 1 .. MaxCalls /\ i <= last
    BY <1>1 DEF CallTypes, Child
  <2>2. MaxCalls \in Nat \ {0} /\ last \in 0 .. MaxCalls
    BY <1>1, LastCall
  <2>3. i \in 1 .. last /\ last # 0 /\ last \in 1 .. MaxCalls
    BY <2>1, <2>2
  <2>4. QED
    BY <1>1, <2>1, <2>3, LastCall DEF CallTypes
<1>3. CallAgrees(c, k, fd[i]) /\ (i < last => c.at = "checked")
  BY <1>1, <1>2 DEF CallsAgree
<1>4. /\ UNCHANGED <<calls, fd>> /\ last' = last /\ Redirects(i)' = Redirects(i)
      /\ Redirects(last)' = Redirects(last) /\ Undisturbed' = Undisturbed
      /\ Redirects(i) = (c.function = "do_exec_redirect")
  BY DEF Child, Dup2, Execv, Runs, last, Redirects, Undisturbed
<1> HIDE DEF c, k
<1>5. ASSUME NEW l \in ChildRecords, child' = [child EXCEPT ![i] = l], CallAgrees(c, l, fd[i])
      PROVE  (CallTypes /\ CallsAgree)' /\ child'[i] = l
  <2>1. /\ child' \in [1 .. MaxCalls -> ChildRecords] /\ child'[i] = l
        /\ \A j \in 1 .. MaxCalls : j # i => child'[j] = child[j]
    BY <1>2, <1>5
  <2>2. CallAgrees(calls'[i], child'[i], fd'[i]) /\ (i < last' => calls'[i].at = "checked")
    BY <1>3, <1>4, <1>5, <2>1 DEF c
  <2>3. QED
    BY <1>1, <1>2, <1>4, <2>1, <2>2, OneCall
<1>6. ASSUME NEW l \in ChildRecords, child' = [child EXCEPT ![i] = l], l.ran = k.ran,
             CallAgrees(c, l, fd[i]), output' = output
      PROVE  CallsInv'
  <2>1. (CallTypes /\ CallsAgree)' /\ child'[i] = l
    BY <1>5, <1>6
  <2>2. child'[last].ran = child[last].ran
    BY <1>2, <1>6, <2>1 DEF k
  <2>3. OutputAgrees'
    BY <1>1, <1>2, <1>4, <1>6, <2>2, SameOutput
  <2>4. QED
    BY <2>1, <2>3 DEF CallsInv
<1>7. CASE Dup2(i)
  <2>1. k.at = "forked" /\ Redirects(i) /\ output' = output
    BY <1>7 DEF Dup2, k
  <2>2. CASE calls[i].opened /\ child' = [child EXCEPT ![i].at = "redirected"]
    <3> DEFINE l == [k EXCEPT !.at = "redirected"]
    <3>1. l \in ChildRecords /\ l.ran = k.ran /\ l.at = "redirected"
      BY <1>2 DEF ChildRecords
    <3>2. child' = [child EXCEPT ![i] = l]
      BY <2>2 DEF k
    <3> HIDE DEF l
    <3>3. CallAgrees(c, l, fd[i])
      BY <1>2, <1>3, <1>4, <2>1, <2>2, <3>1 DEF CallAgrees, CallRecords, NoChild, c
    <3>4. QED
      BY <1>6, <2>1, <3>1, <3>2, <3>3
  <2>3. CASE Exits(i, errno, FALSE)
    <3> DEFINE l == [at |-> "zombie", ran |-> FALSE, status |-> errno]
    <3>1. l \in ChildRecords /\ l.at = "zombie" /\ l.ran = FALSE /\ l.status # 0
      BY DEF ChildRecords, errno
    <3>2. child' = [child EXCEPT ![i] = l]
      BY <2>3 DEF Exits
    <3> HIDE DEF l
    <3>3. k.ran = FALSE
      BY <1>2, <1>3, <2>1 DEF CallAgrees, ChildRecords
    <3>4. CallAgrees(c, l, fd[i])
      BY <1>2, <1>3, <2>1, <3>1 DEF CallAgrees, CallRecords, NoChild
    <3>5. QED
      BY <1>6, <2>1, <3>1, <3>2, <3>3, <3>4
  <2>4. QED
    BY <1>7, <2>2, <2>3 DEF Dup2
<1>8. CASE Execv(i)
  <2>1. k.at = (IF Redirects(i) THEN "redirected" ELSE "forked") /\ output' = output
    BY <1>8 DEF Execv, k
  <2>2. CASE child' = [child EXCEPT ![i].at = "running"]
    <3> DEFINE l == [k EXCEPT !.at = "running"]
    <3>1. l \in ChildRecords /\ l.ran = k.ran /\ l.at = "running"
      BY <1>2 DEF ChildRecords
    <3>2. child' = [child EXCEPT ![i] = l]
      BY <2>2 DEF k
    <3> HIDE DEF l
    <3>5. k.at \in {"forked", "redirected"} /\ (c.function = "do_exec_redirect" => k.at = "redirected")
      BY <1>4, <2>1
    <3>6. k.ran = FALSE /\ (c.function = "do_exec_redirect" => c.opened)
      BY <1>2, <1>3, <3>5 DEF CallAgrees, ChildRecords
    <3>3. CallAgrees(c, l, fd[i])
      BY <1>2, <1>3, <3>1, <3>5, <3>6 DEF CallAgrees, CallRecords, NoChild
    <3>4. QED
      BY <1>6, <2>1, <3>1, <3>2, <3>3
  <2>3. CASE Exits(i, errno, FALSE)
    <3> DEFINE l == [at |-> "zombie", ran |-> FALSE, status |-> errno]
    <3>1. l \in ChildRecords /\ l.at = "zombie" /\ l.ran = FALSE /\ l.status # 0
      BY DEF ChildRecords, errno
    <3>2. child' = [child EXCEPT ![i] = l]
      BY <2>3 DEF Exits
    <3> HIDE DEF l
    <3>3. k.ran = FALSE
      BY <1>2, <1>3, <2>1 DEF CallAgrees, ChildRecords
    <3>4. CallAgrees(c, l, fd[i])
      BY <1>2, <1>3, <2>1, <3>1 DEF CallAgrees, CallRecords, NoChild
    <3>5. QED
      BY <1>6, <2>1, <3>1, <3>2, <3>3, <3>4
  <2>4. QED
    BY <1>8, <2>2, <2>3 DEF Execv
<1>9. CASE Runs(i)
  <2> DEFINE w == c.command.writes
             l == [at |-> "zombie", ran |-> TRUE, status |-> c.command.status]
  <2>1. /\ k.at = "running" /\ child' = [child EXCEPT ![i] = l]
        /\ output' = IF Redirects(i) THEN w \o SubSeq(output, Len(w) + 1, Len(output)) ELSE output
    BY <1>9 DEF Runs, Exits, k, c
  <2>2. l \in ChildRecords /\ l.at = "zombie" /\ l.ran = TRUE
    BY <1>2, CommandsAssumption DEF CallRecords, ChildRecords
  <2>3. w \in Seq(Range(w))
    BY <1>2, CommandsAssumption DEF CallRecords
  <2> HIDE DEF l, w
  <2>4. k.ran = FALSE /\ (c.function = "do_exec_redirect" => c.opened)
    BY <1>2, <1>3, <2>1 DEF CallAgrees, ChildRecords
  <2>5. CallAgrees(c, l, fd[i])
    BY <1>2, <1>3, <2>1, <2>2, <2>4 DEF CallAgrees, CallRecords, NoChild
  <2>6. (CallTypes /\ CallsAgree)' /\ child'[i] = l
    BY <1>5, <2>1, <2>2, <2>5
  <2>7. OutputAgrees'
    <3>1. CASE i = last
      <4>1. SUFFICES ASSUME Redirects(last), calls[last].opened, Undisturbed
                     PROVE  output' = calls[last].command.writes
        BY <1>4, <2>2, <2>6, <3>1 DEF OutputAgrees
      <4>2. output = <<>>
        BY <1>1, <1>2, <2>4, <3>1, <4>1 DEF OutputAgrees, k
      <4>3. w \o SubSeq(<<>>, Len(w) + 1, Len(<<>>)) = w
        <5>1. Len(w) \in Nat /\ Len(<<>>) = 0
          BY <2>3, LenProperties
        <5>2. SubSeq(<<>>, Len(w) + 1, Len(<<>>)) = <<>>
          BY <5>1
        <5>3. w \o <<>> = w
          BY <2>3, ConcatEmptySeq
        <5>4. QED
          BY <5>2, <5>3
      <4>4. QED
        BY <2>1, <3>1, <4>1, <4>2, <4>3 DEF w, c
    <3>2. CASE i # last
      <4>1. i < last /\ child'[last] = child[last] /\ last \in Nat
        BY <1>2, <2>1, <3>2
      <4>2. c.at = "checked" /\ c.failed = "wait"
        BY <1>3, <2>1, <4>1 DEF CallAgrees
      <4>3. ~Undisturbed
        BY <1>2, <4>1, <4>2 DEF Undisturbed, c
      <4>4. QED
        BY <1>4, <4>3 DEF OutputAgrees
    <3>3. QED
      BY <3>1, <3>2
  <2>8. QED
    BY <2>6, <2>7 DEF CallsInv
<1>10. QED
  BY <1>7, <1>8, <1>9 DEF Child

(* A call begins.                                                          *)
LEMMA CallBegins ==
  ASSUME CallsInv, NEW command \in Commands,
         do_system(command) \/ do_exec(command) \/ do_exec_redirect(command)
  PROVE  CallsInv'
<1> DEFINE j == last + 1
<1>1. CallTypes /\ CallsAgree /\ OutputAgrees
  BY DEF CallsInv
<1>2. /\ last \in 0 .. MaxCalls /\ last < MaxCalls /\ MaxCalls \in Nat
      /\ last # 0 => calls[last].at = "checked"
  <2>1. MayCall
    BY DEF do_system, do_exec, do_exec_redirect
  <2>2. QED
    BY <1>1, <2>1, LastCall DEF MayCall
<1>3. j \in 1 .. MaxCalls /\ j > last /\ j \notin 1 .. last /\ last \in Nat
  BY <1>2
<1>4. child[j] = NoChild /\ fd[j] = "closed"
  BY <1>1, <1>3 DEF CallsAgree
<1>5. /\ child \in [1 .. MaxCalls -> ChildRecords] /\ fd \in [1 .. MaxCalls -> {"open", "closed"}]
      /\ calls \in Seq(CallRecords)
  BY <1>1 DEF CallTypes
<1>6. ASSUME NEW c \in CallRecords, calls' \in Seq(CallRecords), last' = j, calls'[j] = c,
             \A i \in 1 .. last : calls'[i] = calls[i],
             NEW k \in ChildRecords, child' = [child EXCEPT ![j] = k],
             NEW f \in {"open", "closed"}, fd' = [fd EXCEPT ![j] = f], CallAgrees(c, k, f),
             c.function = "do_exec_redirect" /\ c.opened => output' = <<>> /\ k.ran = FALSE
      PROVE  CallsInv'
  <2>1. /\ child' \in [1 .. MaxCalls -> ChildRecords] /\ child'[j] = k
        /\ fd' \in [1 .. MaxCalls -> {"open", "closed"}] /\ fd'[j] = f
        /\ \A i \in 1 .. MaxCalls : i # j => child'[i] = child[i] /\ fd'[i] = fd[i]
    BY <1>3, <1>5, <1>6
  <2>2. (CallTypes /\ CallsAgree)'
    BY <1>1, <1>2, <1>3, <1>6, <2>1, OneCall
  <2>3. OutputAgrees'
    <3>1. CASE c.function # "do_exec_redirect" \/ ~ c.opened
      BY <1>6, <3>1 DEF OutputAgrees, Redirects
    <3>2. CASE c.function = "do_exec_redirect" /\ c.opened
      <4>1. output' = <<>> /\ ~ k.ran /\ child'[last'] = k
        BY <1>6, <2>1, <3>2
      <4>2. QED
        BY <4>1 DEF OutputAgrees
    <3>3. QED
      BY <3>1, <3>2
  <2>4. QED
    BY <2>2, <2>3 DEF CallsInv
<1>7. ASSUME child' = child
      PROVE  child' = [child EXCEPT ![j] = NoChild]
  BY <1>3, <1>4, <1>5, <1>7
<1>8. ASSUME fd' = fd
      PROVE  fd' = [fd EXCEPT ![j] = "closed"]
  BY <1>3, <1>4, <1>5, <1>8
<1>9. NoChild \in ChildRecords /\ NoChild.at = "none" /\ NoChild.ran = FALSE
  BY DEF NoChild, ChildRecords
<1>10. CASE do_exec(command)
  <2> DEFINE c == [function |-> "do_exec", command |-> command, at |-> "fork",
                   opened |-> FALSE, value |-> FALSE, failed |-> "nothing"]
  <2>1. calls' = Append(calls, c) /\ child' = child /\ fd' = fd
    BY <1>10 DEF do_exec, Call
  <2>2. c \in CallRecords
    BY DEF CallRecords
  <2>3. CallAgrees(c, NoChild, "closed")
    BY <1>9 DEF CallAgrees
  <2>4. c.function # "do_exec_redirect"
    OBVIOUS
  <2> HIDE DEF c
  <2>5. /\ calls' \in Seq(CallRecords) /\ last' = j /\ calls'[j] = c
        /\ \A i \in 1 .. last : calls'[i] = calls[i]
    BY <1>1, <2>1, <2>2, NewCall
  <2>6. QED
    BY <1>6, <1>7, <1>8, <1>9, <2>1, <2>2, <2>3, <2>4, <2>5
<1>11. CASE do_exec_redirect(command)
  <2>1. PICK opened \in BOOLEAN :
          /\ calls' = Call("do_exec_redirect", command, "fork", opened)
          /\ IF opened THEN fd' = [fd EXCEPT ![last + 1] = "open"] /\ output' = <<>>
                       ELSE fd' = fd
    BY <1>11 DEF do_exec_redirect
  <2> DEFINE c == [function |-> "do_exec_redirect", command |-> command, at |-> "fork",
                   opened |-> opened, value |-> FALSE, failed |-> "nothing"]
             f == IF opened THEN "open" ELSE "closed"
  <2>2. calls' = Append(calls, c) /\ child' = child
    BY <1>11, <2>1 DEF do_exec_redirect, Call
  <2>3. fd' = [fd EXCEPT ![j] = f] /\ f \in {"open", "closed"}
    BY <1>8, <2>1
  <2>4. c \in CallRecords /\ (c.opened => output' = <<>>)
    BY <2>1 DEF CallRecords
  <2>5. CallAgrees(c, NoChild, f)
    BY <1>9 DEF CallAgrees
  <2> HIDE DEF c, f
  <2>6. /\ calls' \in Seq(CallRecords) /\ last' = j /\ calls'[j] = c
        /\ \A i \in 1 .. last : calls'[i] = calls[i]
    BY <1>1, <2>2, <2>4, NewCall
  <2>7. QED
    BY <1>6, <1>7, <1>9, <2>2, <2>3, <2>4, <2>5, <2>6
<1>12. CASE do_system(command)
  <2> DEFINE c == [function |-> "do_system", command |-> command, at |-> "returned",
                   opened |-> FALSE, value |-> FALSE, failed |-> "nothing"]
             k == [at |-> "reaped", ran |-> command.runs,
                   status |-> IF command.runs THEN command.status ELSE 127]
             d == [c EXCEPT !.value = (k.status = 0)]
             e == [c EXCEPT !.failed = "fork"]
             s == Append(calls, c)
  <2>1. fd' = fd /\ \/ /\ calls' = [s EXCEPT ![j].value = (k.status = 0)]
                       /\ child' = [child EXCEPT ![j] = k]
                    \/ calls' = [s EXCEPT ![j].failed = "fork"] /\ child' = child
    BY <1>12 DEF do_system, Call
  <2>2. c \in CallRecords /\ d \in CallRecords /\ e \in CallRecords
    BY DEF CallRecords
  <2>3. k \in ChildRecords /\ k.at = "reaped" /\ (k.status = 0 => k.ran)
    BY CommandsAssumption DEF ChildRecords
  <2>4. /\ d.function = "do_system" /\ d.at = "returned" /\ d.failed = "nothing"
        /\ (d.value <=> k.status = 0)
    OBVIOUS
  <2>5. /\ e.function = "do_system" /\ e.at = "returned" /\ e.failed = "fork" /\ e.value = FALSE
    OBVIOUS
  <2>6. [c EXCEPT !.value = (k.status = 0)] = d /\ [c EXCEPT !.failed = "fork"] = e
    OBVIOUS
  <2> HIDE DEF c, d, e, k
  <2>7. /\ s \in Seq(CallRecords) /\ Len(s) = j /\ s[j] = c
        /\ \A i \in 1 .. last : s[i] = calls[i]
    BY <1>5, <2>2, AppendProperties DEF last
  <2> HIDE DEF s
  <2>8. ASSUME NEW x \in CallRecords, calls' = [s EXCEPT ![j] = x]
        PROVE  /\ calls' \in Seq(CallRecords) /\ last' = j /\ calls'[j] = x
               /\ \A i \in 1 .. last : calls'[i] = calls[i]
    <3>1. j \in 1 .. Len(s) /\ last \in Nat /\ j = last + 1
      BY <1>3, <2>7
    <3> HIDE DEF j
    <3>2. /\ calls' \in Seq(CallRecords) /\ Len(calls') = Len(s)
          /\ \A i \in 1 .. Len(s) : calls'[i] = IF i = j THEN x ELSE s[i]
      BY <2>7, <2>8, <3>1, ExceptSeq
    <3>3. \A i \in 1 .. last : i \in 1 .. Len(s) /\ i # j
      BY <2>7, <3>1
    <3>4. last' = Len(s)
      BY <3>2 DEF last
    <3>5. QED
      BY <2>7, <3>1, <3>2, <3>3, <3>4
  <2>9. CASE calls' = [s EXCEPT ![j].value = (k.status = 0)] /\ child' = [child EXCEPT ![j] = k]
    <3>1. calls' = [s EXCEPT ![j] = d]
      BY <2>6, <2>7, <2>9
    <3>2. CallAgrees(d, k, "closed")
      BY <2>3, <2>4 DEF CallAgrees
    <3>3. /\ calls' \in Seq(CallRecords) /\ last' = j /\ calls'[j] = d
          /\ \A i \in 1 .. last : calls'[i] = calls[i]
      BY <2>2, <2>8, <3>1
    <3>4. QED
      BY <1>6, <1>8, <2>1, <2>2, <2>3, <2>4, <2>9, <3>2, <3>3
  <2>10. CASE calls' = [s EXCEPT ![j].failed = "fork"] /\ child' = child
    <3>1. calls' = [s EXCEPT ![j] = e]
      BY <2>6, <2>7, <2>10
    <3>2. CallAgrees(e, NoChild, "closed")
      BY <1>9, <2>5 DEF CallAgrees
    <3>3. /\ calls' \in Seq(CallRecords) /\ last' = j /\ calls'[j] = e
          /\ \A i \in 1 .. last : calls'[i] = calls[i]
      BY <2>2, <2>8, <3>1
    <3>4. QED
      BY <1>6, <1>7, <1>8, <1>9, <2>1, <2>2, <2>5, <2>10, <3>2, <3>3
  <2>11. QED
    BY <2>1, <2>9, <2>10
<1>13. QED
  BY <1>10, <1>11, <1>12

LEMMA CallsInvNext == CallsInv /\ [Next]_vars => CallsInv'
<1> SUFFICES ASSUME CallsInv, [Next]_vars
             PROVE  CallsInv'
  OBVIOUS
<1>1. CASE UNCHANGED systemcalls
  BY <1>1 DEF systemcalls, CallsInv, CallTypes, CallsAgree, OutputAgrees, last, Redirects,
              Undisturbed
<1>2. CASE CallsTestBegins
  <2>1. MaxCalls \in Nat /\ DOMAIN child = 1 .. MaxCalls /\ DOMAIN fd = 1 .. MaxCalls
    BY CommandsAssumption DEF CallsInv, CallTypes
  <2>2. NoChild \in ChildRecords
    BY DEF NoChild, ChildRecords
  <2>3. last' = 0 /\ calls' = <<>> /\ calls' \in Seq(CallRecords)
    BY <1>2 DEF CallsTestBegins, last
  <2>4. /\ child' \in [1 .. MaxCalls -> ChildRecords] /\ fd' \in [1 .. MaxCalls -> {"open", "closed"}]
        /\ \A i \in 1 .. MaxCalls : child'[i] = NoChild /\ fd'[i] = "closed"
    BY <1>2, <2>1, <2>2 DEF CallsTestBegins
  <2>5. CallTypes'
    BY <2>1, <2>3, <2>4 DEF CallTypes
  <2>6. CallsAgree' /\ OutputAgrees'
    BY <2>3, <2>4 DEF CallsAgree, OutputAgrees
  <2>7. QED
    BY <2>5, <2>6 DEF CallsInv
<1>3. CASE CallsNext /\ ~CallsTestBegins
  BY <1>3, CallerKeeps, CallBegins, ChildKeeps DEF CallsNext, Caller
<1>4. QED
  BY <1>1, <1>2, <1>3 DEF Next, vars

LEMMA CallsInit == Init => CallsInv
<1> SUFFICES ASSUME Init
             PROVE  CallsInv
  OBVIOUS
<1>1. MaxCalls \in Nat /\ NoChild \in ChildRecords
  BY CommandsAssumption DEF NoChild, ChildRecords
<1>2. last = 0 /\ calls = <<>> /\ calls \in Seq(CallRecords)
  BY DEF Init, InitCalls, last
<1>3. /\ child \in [1 .. MaxCalls -> ChildRecords] /\ fd \in [1 .. MaxCalls -> {"open", "closed"}]
      /\ \A i \in 1 .. MaxCalls : child[i] = NoChild /\ fd[i] = "closed"
  BY <1>1 DEF Init, InitCalls
<1>4. QED
  BY <1>1, <1>2, <1>3 DEF CallsInv, CallTypes, CallsAgree, OutputAgrees

(* What a call that has returned knows of its child.                       *)
LEMMA ReturnedCall ==
  ASSUME CallsInv, CallIs("returned")
  PROVE  /\ last \in 1 .. MaxCalls /\ calls[last].at = "returned"
         /\ CallAgrees(calls[last], child[last], fd[last])
         /\ \A i \in DOMAIN child : child[i] \in ChildRecords
<1>1. CallTypes /\ calls # <<>> /\ Last(calls).at = "returned"
  BY DEF CallsInv, CallIs
<1>2. last \in 1 .. MaxCalls /\ Last(calls) = calls[last]
  BY <1>1, LastCall
<1>3. QED
  BY <1>1, <1>2 DEF CallsInv, CallsAgree, CallTypes

(* The value of a call is the truth about its child, and so is the output  *)
(* file, for any commands, however the calls, the children and the signals *)
(* are interleaved: also next to children that interrupted calls of the    *)
(* test left behind, whose output is the reason for Undisturbed.           *)
THEOREM ResultCorrect == Spec => []ResultIsTrue
<1>1. CallsInv => ResultIsTrue
  <2> SUFFICES ASSUME CallsInv, CallIs("returned")
               PROVE  /\ calls[last].value =>
                           /\ child[last].ran /\ child[last].status = 0
                           /\ Redirects(last) /\ Undisturbed => output = calls[last].command.writes
                      /\ calls[last].failed = "nothing" /\ child[last].ran
                           /\ child[last].status = 0 => calls[last].value
    BY DEF ResultIsTrue
  <2>1. /\ calls[last].value => child[last].ran /\ child[last].status = 0
        /\ calls[last].failed = "nothing" /\ child[last].ran /\ child[last].status = 0 =>
             calls[last].value
    BY ReturnedCall DEF CallAgrees
  <2>2. calls[last].value /\ Redirects(last) => calls[last].opened /\ child[last].ran
    BY ReturnedCall DEF CallAgrees, Redirects
  <2>3. last > 0
    BY ReturnedCall
  <2>4. QED
    BY <2>1, <2>2, <2>3 DEF CallsInv, OutputAgrees
<1>2. QED
  BY <1>1, CallsInit, CallsInvNext, PTL DEF Spec

(* A call that has returned leaves neither a child nor an open file, and   *)
(* no child ever goes on as a second test program.                         *)
THEOREM LeavesNothing == Spec => []CallsLeaveNothing
<1>1. CallsInv => CallsLeaveNothing
  BY ReturnedCall DEF CallsLeaveNothing, CallAgrees, ChildRecords
<1>2. QED
  BY <1>1, CallsInit, CallsInvNext, PTL DEF Spec

-----------------------------------------------------------------------------
(* The types of the whole test program.                                    *)
THEOREM TypeCorrect == Spec => []TypeOK
<1>1. RunInv /\ MemoryTypes /\ ThreadsInv /\ CallsInv => TypeOK
  <2> SUFFICES ASSUME RunInv, MemoryTypes, ThreadsInv, CallsInv
               PROVE  TypeOK
    OBVIOUS
  <2>1. UnityTypeOK
    BY DEF RunInv, RunTypes
  <2>2. /\ malloc_count \in Int /\ malloc_fail_countdown \in -1 .. 1
        /\ heap_index \in 0 .. HeapSize /\ overran \in BOOLEAN
        /\ \A b \in held : b.at \in 0 .. HeapSize - 1 /\ b.size \in AskedSizes \ {0}
    BY DEF MemoryTypes, Blocks
  <2>3. /\ test \in ThreadTests \cup {NoTest} /\ holds \subseteq DOMAIN mutex
        /\ step \in {"init", "lock", "start", "unlock", "join", "over"}
        /\ \A m \in DOMAIN mutex : mutex[m] \in 0 .. 2
        /\ \A t \in DOMAIN data : data[t] \in {"none", "allocated", "lost", "success", "freed"}
    BY DEF ThreadsInv, NoThreads, ThreadTypes, Steps, Data
  <2>4. /\ Len(calls) <= MaxCalls /\ fd \in [1 .. MaxCalls -> {"open", "closed"}]
        /\ \A i \in DOMAIN child :
             child[i].at \in {"none", "forked", "redirected", "running", "zombie", "reaped"}
    BY DEF CallsInv, CallTypes, ChildRecords, last
  <2>5. QED
    BY <2>1, <2>2, <2>3, <2>4 DEF TypeOK
<1>2. MemoryInv => MemoryTypes
  BY DEF MemoryInv
<1>3. QED
  BY <1>1, <1>2, RunInit, RunNext, MemoryInit, MemoryTypesNext, ThreadsInit, ThreadsInvNext,
     CallsInit, CallsInvNext, PTL DEF Spec
=============================================================================
