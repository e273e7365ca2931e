------------------------------ MODULE UnityRun ------------------------------
(***************************************************************************)
(* A test program of Unity: the main function that auto_generate.sh writes *)
(* calls the main of one test file after the other; that one runs the      *)
(* tests of its file, each inside setUp and tearDown, with setjmp before   *)
(* each half and a longjmp out of an assertion that fails.                 *)
(*                                                                         *)
(* What the body of a test does is left to the module that extends this    *)
(* one, except for a test that makes assertions.                           *)
(***************************************************************************)
EXTENDS UnityMacros

CONSTANT
  Programs (* The test programs by name.  A program is the sequence of its *)
           (* files, a file what its tests are about, how many there are,  *)
           (* and the arguments that they give to each macro.              *)

(* An exit status has eight bits: 256 failures in a file would be none.    *)
ASSUME ProgramsAssumption ==
  \A p \in DOMAIN Programs :
    /\ Programs[p] # <<>> /\ Programs[p] \in Seq(Range(Programs[p]))
    /\ \A f \in DOMAIN Programs[p] :
         /\ Programs[p][f].tests \in 1 .. 255
         /\ DOMAIN Programs[p][f].arguments = Macros
ASSUME ArgumentsAssumption ==
  \A p \in DOMAIN Programs : \A f \in DOMAIN Programs[p] : \A macro \in Macros :
    \A a \in Programs[p][f].arguments[macro] : Typed(macro, a)

VARIABLES
  Unity,   (* struct UNITY_STORAGE_T Unity                                 *)
  program, (* the program                                                  *)
  stage,   (* where it is                                                  *)
  file,    (* the file it runs                                             *)
  asked,   (* the assertion the test is in, and the report of it           *)
  lines,   (* lines[f]: the results printed for file f                     *)
  status   (* what the program exited with, -1 before it does              *)

unity == <<program, Unity, stage, file, asked, lines, status>>

Files == Programs[program]

kind == IF file \in DOMAIN Files THEN Files[file].about ELSE "none"

NotAsked == [macro |-> "none", report |-> <<>>]

Zero == [NumberOfTests |-> 0, TestFailures |-> 0, TestIgnores |-> 0,
         CurrentTestFailed |-> FALSE, CurrentTestIgnored |-> FALSE]

InitUnity ==
  /\ program \in DOMAIN Programs /\ Unity = Zero /\ stage = "main" /\ file = 1
  /\ asked = NotAsked /\ lines = [f \in DOMAIN Files |-> <<>>] /\ status = -1

(* A test runs its code, and is not inside an assertion.                   *)
InBody(k) == stage = "body" /\ kind = k /\ asked = NotAsked

PrintResult(result) == lines' = [lines EXCEPT ![file] = Append(@, result)]

(* TEST_ABORT: longjmp to the TEST_PROTECT that was passed last.  After    *)
(* the first one comes the second with tearDown, and after that the end of *)
(* the test.                                                               *)
TEST_ABORT == stage' = IF stage = "tearDown" THEN "conclude" ELSE "tearDown"

RETURN_IF_FAIL_OR_IGNORE == Unity.CurrentTestFailed \/ Unity.CurrentTestIgnored

(* Mutation: an assertion of a test that failed already is made again.     *)
UnityFailAgain ==
  /\ TEST_ABORT
  /\ Unity' = [Unity EXCEPT !.CurrentTestFailed = TRUE] /\ PrintResult("FAIL")

(* UnityFail, and UNITY_FAIL_AND_BAIL of the other assertions: nothing     *)
(* more is printed for a test that has failed or is ignored already.       *)
UnityFail ==
  /\ TEST_ABORT
  /\ IF RETURN_IF_FAIL_OR_IGNORE THEN UNCHANGED <<Unity, lines>>
     ELSE Unity' = [Unity EXCEPT !.CurrentTestFailed = TRUE] /\ PrintResult("FAIL")

-----------------------------------------------------------------------------

UnityBegin ==
  /\ stage = "main" /\ file \in DOMAIN Files
  /\ Unity' = Zero /\ stage' = "file"
  /\ UNCHANGED <<program, file, asked, lines, status>>

(* run_test, up to the call of setUp                                       *)
StartTest ==
  /\ stage = "file" /\ Unity.NumberOfTests < Files[file].tests
  /\ Unity' = [Unity EXCEPT !.NumberOfTests = @ + 1]
  /\ stage' = "setUp"
  /\ UNCHANGED <<program, file, asked, lines, status>>

SetUpReturns ==
  /\ stage = "setUp" /\ stage' = "body"
  /\ UNCHANGED <<Unity, program, file, asked, lines, status>>

(* The body returns to run_test, which goes on with tearDown.              *)
BodyReturns ==
  /\ stage = "body" /\ asked = NotAsked /\ stage' = "tearDown"
  /\ UNCHANGED <<Unity, program, file, asked, lines, status>>

TearDownReturns ==
  /\ stage = "tearDown" /\ stage' = "conclude" /\ asked' = NotAsked
  /\ UNCHANGED <<Unity, program, file, lines, status>>

(* The test makes an assertion: it holds, or it reports and does not       *)
(* return.                                                                 *)
MakeAssertion ==
  /\ stage = "body" /\ asked = NotAsked
  /\ \E macro \in Macros : \E a \in Files[file].arguments[macro] :
       LET report == UnityAssert(macro, a)
       IN  /\ asked' = [macro |-> macro, a |-> a, report |-> report]
           /\ IF report = <<>> THEN UNCHANGED <<Unity, stage, lines>> ELSE UnityFail
  /\ UNCHANGED <<program, file, status>>

AssertReturns ==
  /\ stage = "body" /\ asked # NotAsked /\ asked' = NotAsked
  /\ UNCHANGED <<Unity, stage, program, file, lines, status>>

(* TEST_FAIL in tearDown, where the test may have failed or be ignored.    *)
FailInTearDown ==
  /\ stage = "tearDown" /\ kind = "asserts" /\ UnityFail /\ asked' = NotAsked
  /\ UNCHANGED <<program, file, status>>

(* TEST_IGNORE                                                             *)
UnityIgnore ==
  /\ InBody("asserts") \/ InBody("memory")
  /\ TEST_ABORT
  /\ Unity' = [Unity EXCEPT !.CurrentTestIgnored = TRUE] /\ PrintResult("IGNORE")
  /\ UNCHANGED <<program, file, asked, status>>

(* TEST_PASS is TEST_ABORT.                                                *)
TestPass ==
  /\ InBody("asserts") \/ InBody("memory")
  /\ TEST_ABORT
  /\ UNCHANGED <<Unity, program, file, asked, lines, status>>

UnityConcludeTest ==
  /\ stage = "conclude" /\ stage' = "file"
  /\ LET failed  == Unity.CurrentTestFailed
         ignored == Unity.CurrentTestIgnored
     IN  /\ Unity' = [Unity EXCEPT
              !.TestIgnores  = IF ignored THEN @ + 1 ELSE @,
              !.TestFailures = IF failed /\ ~ignored THEN @ + 1 ELSE @,
              !.CurrentTestFailed = FALSE, !.CurrentTestIgnored = FALSE]
         /\ IF failed \/ ignored THEN UNCHANGED lines ELSE PrintResult("PASS")
  /\ UNCHANGED <<program, file, asked, status>>

(* Mutation: the next file is run whatever the file returned.              *)
UnityEndIgnored ==
  /\ stage = "file" /\ Unity.NumberOfTests = Files[file].tests
  /\ file' = file + 1 /\ stage' = "main"
  /\ UNCHANGED <<Unity, program, asked, lines, status>>

(* The main of the file returns what UnityEnd does, the failures, and the  *)
(* main of the program returns that when it is not 0.                      *)
UnityEnd ==
  /\ stage = "file" /\ Unity.NumberOfTests = Files[file].tests
  /\ IF Unity.TestFailures # 0
     THEN status' = Unity.TestFailures % 256 /\ stage' = "exited" /\ UNCHANGED file
     ELSE file' = file + 1 /\ stage' = "main" /\ UNCHANGED status
  /\ UNCHANGED <<Unity, program, asked, lines>>

(* main falls off its end, which is exit status 0.                         *)
MainReturns ==
  /\ stage = "main" /\ file \notin DOMAIN Files
  /\ status' = 0 /\ stage' = "exited"
  /\ UNCHANGED <<Unity, program, file, asked, lines>>

(* What the program does of itself, and what its tests do.                 *)
Framework ==
  UnityBegin \/ StartTest \/ AssertReturns \/ UnityConcludeTest \/ UnityEnd \/ MainReturns

Assertions == MakeAssertion \/ FailInTearDown \/ UnityIgnore \/ TestPass

-----------------------------------------------------------------------------

UnityTypeOK ==
  /\ Unity \in [NumberOfTests : Nat, TestFailures : Nat, TestIgnores : Nat,
                CurrentTestFailed : BOOLEAN, CurrentTestIgnored : BOOLEAN]
  /\ stage \in {"main", "file", "setUp", "body", "tearDown", "conclude", "exited"}
  /\ file \in 1 .. Len(Files) + 1
  /\ asked.macro \in Macros \cup {"none"} /\ Len(asked.report) <= 1
  /\ \A f \in DOMAIN Files : lines[f] \in Seq({"PASS", "FAIL", "IGNORE"})
  /\ status \in -1 .. 255

(* An assertion lets the test go on exactly when what the macro claims is  *)
(* true of its arguments: of the numbers in the C type of the macro, of    *)
(* the elements of the arrays, of the strings and the memory.              *)
VerdictsAreTrue ==
  asked.macro # "none" /\ OneSided(asked.macro, asked.a) =>
    (asked.report = <<>> <=> Holds(asked.macro, asked.a))

(* The report of a failed assertion names the first element that does not  *)
(* agree, and the two values it prints read back as the two it compared.   *)
ReportsShowTheMismatch ==
  asked.report # <<>> =>
    LET macro == asked.macro
        a     == asked.a
    IN  OneSided(macro, a) /\ PrintedInFull(macro, a) =>
          ReportShows(asked.report[1], macro, a)

LinesOf(result) == {i \in DOMAIN lines[file] : lines[file][i] = result}

(* Every test that was concluded has printed one result, and the counters  *)
(* of Unity are what was printed, however the test left its body: by       *)
(* returning, by a failure there, in tearDown or in both, or ignored.      *)
ResultsAreCounted ==
  stage = "file" =>
    /\ Len(lines[file]) = Unity.NumberOfTests
    /\ Cardinality(LinesOf("FAIL"))   = Unity.TestFailures
    /\ Cardinality(LinesOf("IGNORE")) = Unity.TestIgnores

(* The program exits with 0 when no test of any file failed and all of     *)
(* them were run, and with something else when one failed.                 *)
ExitStatusIsTrue ==
  stage = "exited" =>
    (status = 0) = \A f \in DOMAIN Files :
                     Len(lines[f]) = Files[f].tests /\ "FAIL" \notin Range(lines[f])
=============================================================================
