---------------------------- MODULE UnityMemory ----------------------------
(***************************************************************************)
(* unity_memory.c with its own heap: malloc, calloc, realloc and free for  *)
(* the tests, which make a test fail that leaks memory or writes past the  *)
(* end of a block, and which can be told to run out of memory.             *)
(*                                                                         *)
(* heap_index and the guard of a block are bytes of unity_heap.  A block   *)
(* is named by at, where its guard starts; its memory follows the guard,   *)
(* and the end marker the memory.                                          *)
(***************************************************************************)
EXTENDS UnityRun

CONSTANTS
  HeapSize, Alignment,  (* UNITY_INTERNAL_HEAP_SIZE_BYTES and -_ALIGNMENT  *)
  GuardSize, EndSize,   (* sizeof(Guard) and sizeof(end)                   *)
  AskedSizes,           (* the sizes the tests ask for                     *)
  MaxHeld,              (* bounds the blocks a test holds                  *)
  GrowsWhileFailing     (* whether a test lets the last block grow while   *)
                        (* malloc is told to fail                          *)

ASSUME HeapAssumption ==
  /\ {HeapSize, Alignment, GuardSize, EndSize} \subseteq Nat \ {0}
  /\ GuardSize % Alignment = 0 /\ HeapSize % Alignment = 0
  /\ AskedSizes \subseteq Nat /\ MaxHeld \in Nat /\ GrowsWhileFailing \in BOOLEAN

VARIABLES
  malloc_count, malloc_fail_countdown, heap_index, (* as in the code       *)
  held,       (* the blocks the test was given and has not given back, as  *)
              (* [at, size, overrun]: size is guard->size, overrun whether *)
              (* the test wrote over the guard or the end marker           *)
  overran     (* whether an overrun block was given back in this test      *)

memory == <<malloc_count, malloc_fail_countdown, heap_index, held, overran>>

MALLOC_DONT_FAIL == -1

InitMemory ==
  /\ malloc_count = 0 /\ malloc_fail_countdown = MALLOC_DONT_FAIL
  /\ heap_index = 0 /\ held = {} /\ overran = FALSE

unity_size_round_up(size) == ((size + Alignment - 1) \div Alignment) * Alignment

(* Without the guard.                                                      *)
BlockSize(size) == unity_size_round_up(size + EndSize)
TotalSize(size) == GuardSize + BlockSize(size)

IsLast(b) == b.at + TotalSize(b.size) = heap_index

-----------------------------------------------------------------------------

(* setUp.  What an earlier test still held stays in the heap, out of reach *)
(* of the tests: heap_index is not reset.                                  *)
UnityMalloc_StartTest ==
  /\ stage = "setUp" /\ kind = "memory" /\ stage' = "body"
  /\ malloc_count' = 0 /\ malloc_fail_countdown' = MALLOC_DONT_FAIL
  /\ held' = {} /\ overran' = FALSE
  /\ UNCHANGED <<Unity, program, file, asked, lines, status, heap_index>>

(* Mutation: a test is only told of blocks it gave back twice.             *)
UnityMalloc_EndTestNegative ==
  /\ stage = "tearDown" /\ kind = "memory"
  /\ malloc_fail_countdown' = MALLOC_DONT_FAIL /\ asked' = NotAsked
  /\ IF malloc_count < 0 THEN UnityFail
     ELSE stage' = "conclude" /\ UNCHANGED <<Unity, lines>>
  /\ UNCHANGED <<program, file, status, malloc_count, heap_index, held, overran>>

(* tearDown: UNITY_TEST_FAIL when the test leaks.                          *)
UnityMalloc_EndTest ==
  /\ stage = "tearDown" /\ kind = "memory"
  /\ malloc_fail_countdown' = MALLOC_DONT_FAIL /\ asked' = NotAsked
  /\ IF malloc_count # 0 THEN UnityFail
     ELSE stage' = "conclude" /\ UNCHANGED <<Unity, lines>>
  /\ UNCHANGED <<program, file, status, malloc_count, heap_index, held, overran>>

UnityMalloc_MakeMallocFailAfterCount(countdown) ==
  /\ InBody("memory") /\ malloc_fail_countdown' = countdown
  /\ UNCHANGED <<unity, malloc_count, heap_index, held, overran>>

(* The test writes just before or just after the memory of a block.        *)
Overrun(b) ==
  /\ InBody("memory") /\ b \in held
  /\ held' = (held \ {b}) \cup {[b EXCEPT !.overrun = TRUE]}
  /\ UNCHANGED <<unity, malloc_count, malloc_fail_countdown, heap_index, overran>>

-----------------------------------------------------------------------------
(* The allocator as it changes the heap: index and count are heap_index    *)
(* and malloc_count when it is called, which realloc has changed already.  *)

(* Mutation: the end of the heap is compared without the block.            *)
MallocPastEnd(size, index, count) ==
  LET fails == malloc_fail_countdown = 0
      full  == index > HeapSize
      given == ~fails /\ size > 0 /\ ~full
  IN  [block |-> IF given THEN {[at |-> index, size |-> size, overrun |-> FALSE]} ELSE {},
       index |-> IF given THEN index + TotalSize(size) ELSE index,
       count |-> IF given THEN count + 1 ELSE count]

(* unity_malloc: the block it returns, none for NULL, the new heap_index   *)
(* and the new malloc_count.                                               *)
Malloc(size, index, count) ==
  LET fails == malloc_fail_countdown = 0
      full  == index + TotalSize(size) > HeapSize
      given == ~fails /\ size > 0 /\ ~full
  IN  [block |-> IF given THEN {[at |-> index, size |-> size, overrun |-> FALSE]} ELSE {},
       index |-> IF given THEN index + TotalSize(size) ELSE index,
       count |-> IF given THEN count + 1 ELSE count]

(* A call that is to fail does not count, one that asks for nothing does.  *)
CountDown ==
  malloc_fail_countdown' = IF malloc_fail_countdown \in {MALLOC_DONT_FAIL, 0}
                           THEN malloc_fail_countdown ELSE malloc_fail_countdown - 1

(* Mutation: every block that is released makes the heap smaller.          *)
HeapAfterAny(b) == heap_index - TotalSize(b.size)

(* release_memory: only the last block makes the heap smaller.             *)
HeapAfterRelease(b) == IF IsLast(b) THEN heap_index - TotalSize(b.size) ELSE heap_index

release_memory(b) ==
  /\ malloc_count' = malloc_count - 1 /\ heap_index' = HeapAfterRelease(b)
  /\ held' = held \ {b} /\ overran' = (overran \/ b.overrun)

(* unity_malloc and unity_calloc, whose num * size is one of the sizes     *)
unity_malloc(size) ==
  /\ InBody("memory") /\ Cardinality(held) < MaxHeld
  /\ LET m == Malloc(size, heap_index, malloc_count)
     IN  malloc_count' = m.count /\ heap_index' = m.index /\ held' = held \cup m.block
  /\ CountDown /\ UNCHANGED <<unity, overran>>

(* unity_free of a block; that of NULL changes nothing.                    *)
unity_free(b) ==
  /\ InBody("memory") /\ b \in held /\ release_memory(b)
  /\ IF b.overrun THEN UnityFail ELSE UNCHANGED <<Unity, stage, lines>>
  /\ UNCHANGED <<program, file, asked, status, malloc_fail_countdown>>

(* unity_realloc of a block; that of NULL is unity_malloc.                 *)
ReallocOverrun(b) ==
  /\ InBody("memory") /\ b \in held /\ b.overrun
  /\ release_memory(b) /\ UnityFail
  /\ UNCHANGED <<program, file, asked, status, malloc_fail_countdown>>

ReallocToNothing(b) ==
  /\ InBody("memory") /\ b \in held /\ ~b.overrun
  /\ release_memory(b) /\ UNCHANGED <<unity, malloc_fail_countdown>>

(* Nothing happens to a block that is large enough already.  The last      *)
(* block grows in place when there is room: it is released and allocated   *)
(* again at the same address, unless malloc fails, which loses it.         *)
ReallocInPlace(b, size) ==
  /\ InBody("memory") /\ b \in held /\ ~b.overrun /\ size > b.size
  /\ IsLast(b) /\ b.at + TotalSize(size) <= HeapSize
  /\ GrowsWhileFailing \/ malloc_fail_countdown # 0
  /\ LET m == Malloc(size, HeapAfterRelease(b), malloc_count - 1)
     IN  /\ malloc_count' = m.count /\ heap_index' = m.index
         /\ held' = IF m.block = {} THEN held ELSE (held \ {b}) \cup m.block
  /\ CountDown /\ UNCHANGED <<unity, overran>>

(* The other blocks move to the end of the heap, where they are allocated  *)
(* before they are released; without room they stay.                       *)
ReallocMoves(b, size) ==
  /\ InBody("memory") /\ b \in held /\ ~b.overrun /\ size > b.size
  /\ ~(IsLast(b) /\ b.at + TotalSize(size) <= HeapSize)
  /\ LET m == Malloc(size, heap_index, malloc_count)
     IN  IF m.block = {} THEN UNCHANGED <<malloc_count, heap_index, held>>
         ELSE /\ malloc_count' = m.count - 1 /\ heap_index' = m.index
              /\ held' = (held \ {b}) \cup m.block
  /\ CountDown /\ UNCHANGED <<unity, overran>>

MemoryNext ==
  \/ UnityMalloc_StartTest \/ UnityMalloc_EndTest
  \/ \E countdown \in {0, 1} : UnityMalloc_MakeMallocFailAfterCount(countdown)
  \/ \E size \in AskedSizes : unity_malloc(size)
  \/ \E b \in held :
       \/ Overrun(b) \/ unity_free(b) \/ ReallocOverrun(b) \/ ReallocToNothing(b)
       \/ \E size \in AskedSizes : ReallocInPlace(b, size) \/ ReallocMoves(b, size)

-----------------------------------------------------------------------------

(* The blocks that the test holds lie in the heap, aligned, below the      *)
(* index at which the next one will start, and no two of them overlap,     *)
(* guard and end marker included; and malloc_count counts them.            *)
BlocksAreApart ==
  /\ malloc_count = Cardinality(held) /\ heap_index <= HeapSize
  /\ \A b \in held :
       /\ b.at % Alignment = 0
       /\ b.at + GuardSize + b.size + EndSize <= heap_index
  /\ \A b, c \in held : b.at < c.at => b.at + GuardSize + b.size + EndSize <= c.at

(* When a test about memory is over, it has not passed if it still holds a *)
(* block or gave one back that it had written past, whatever mixture of    *)
(* malloc, realloc and free it made, and however it left its body.         *)
LeaksFailTheTest ==
  stage = "conclude" /\ kind = "memory" /\ (held # {} \/ overran) => RETURN_IF_FAIL_OR_IGNORE
=============================================================================
