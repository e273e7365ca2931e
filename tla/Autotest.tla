------------------------------ MODULE Autotest ------------------------------
(***************************************************************************)
(* The test programs of assignment-autotest: Unity runs tests that make    *)
(* assertions, tests of its own memory functions, and the tests of the     *)
(* threading and the system call examples.                                 *)
(***************************************************************************)
EXTENDS UnityMemory, Threading, SystemCalls

vars == <<unity, memory, threads, systemcalls>>

Init == InitUnity /\ InitMemory /\ InitThreads /\ InitCalls

(* The tests that make assertions have an empty setUp, and only those of   *)
(* the memory functions have a tearDown.                                   *)
SetUp    == kind = "asserts" /\ SetUpReturns
TearDown == kind # "memory" /\ TearDownReturns

(* The tests of the examples run to their end unless an assertion fails.   *)
BodyEnds ==
  /\ BodyReturns
  /\ kind = "threads" => step = "over"
  /\ kind = "calls" /\ calls # <<>> => Last(calls).at = "checked"

Runner == Framework \/ SetUp \/ TearDown

Next ==
  \/ (Runner \/ BodyEnds \/ Assertions) /\ UNCHANGED <<memory, threads, systemcalls>>
  \/ MemoryNext /\ UNCHANGED <<threads, systemcalls>>
  \/ ThreadsNext /\ UNCHANGED <<memory, systemcalls>>
  \/ CallsNext /\ UNCHANGED <<memory, threads>>

(* The test program goes on while it can, a test does not make calls for   *)
(* ever, and the scheduler runs every thread and every child.              *)
Fairness ==
  /\ WF_vars(\/ Runner /\ UNCHANGED <<memory, threads, systemcalls>>
             \/ /\ UnityMalloc_StartTest \/ UnityMalloc_EndTest
                /\ UNCHANGED <<threads, systemcalls>>)
  /\ SF_vars(BodyEnds /\ UNCHANGED <<memory, threads, systemcalls>>)
  /\ WF_vars(ThreadTest /\ UNCHANGED <<memory, systemcalls>>)
  /\ WF_vars(Caller /\ UNCHANGED <<memory, threads>>)
  /\ \A x \in ThreadTests : \A t \in DOMAIN x.mutexes :
       WF_vars(t \in Threads /\ threadfunc(t) /\ UNCHANGED <<memory, systemcalls>>)
  /\ \A i \in 1 .. MaxCalls : WF_vars(Child(i) /\ UNCHANGED <<memory, threads>>)

Spec == Init /\ [][Next]_vars /\ Fairness

TypeOK ==
  /\ UnityTypeOK
  /\ malloc_count \in Int /\ malloc_fail_countdown \in -1 .. 1
  /\ heap_index \in 0 .. HeapSize /\ overran \in BOOLEAN
  /\ \A b \in held : b.at \in 0 .. HeapSize - 1 /\ b.size \in AskedSizes \ {0}
  /\ test \in ThreadTests \cup {NoTest} /\ holds \subseteq DOMAIN mutex
  /\ step \in {"init", "lock", "start", "unlock", "join", "over"}
  /\ \A m \in DOMAIN mutex : mutex[m] \in 0 .. 2
  /\ \A t \in DOMAIN data : data[t] \in {"none", "allocated", "lost", "success", "freed"}
  /\ Len(calls) <= MaxCalls /\ fd \in [1 .. MaxCalls -> {"open", "closed"}]
  /\ \A i \in DOMAIN child :
       child[i].at \in {"none", "forked", "redirected", "running", "zombie", "reaped"}

(* A test program ends, whatever its tests do: no thread keeps the test    *)
(* that joins it, no child the call that waits for it, and no failed test  *)
(* the ones after it.                                                      *)
RunEnds == <>(stage = "exited")
=============================================================================
