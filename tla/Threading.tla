----------------------------- MODULE Threading -----------------------------
(***************************************************************************)
(* threading.c, and the tests of Test_threading.c that run it: the test    *)
(* locks a mutex, starts threads that wait for it, unlocks it, joins each  *)
(* thread and frees the thread_data that the thread returns.               *)
(*                                                                         *)
(* A mutex is the word of a pthread mutex of glibc: 0 is free, 1 locked, 2 *)
(* locked and perhaps somebody asleep.  The test is process 0, the threads *)
(* are 1, 2, ...                                                           *)
(***************************************************************************)
EXTENDS UnityRun

CONSTANTS
  ThreadTests,   (* the tests: mutexes[t] is the mutex of the t-th thread, *)
                 (* locked whether the test locks it first                 *)
  SleepsAreLong  (* whether the test sleeps until the threads it started   *)
                 (* have come to a stop                                    *)

ASSUME ThreadTestsAssumption ==
  /\ \A x \in ThreadTests :
       x.mutexes # <<>> /\ x.mutexes \in Seq(Nat) /\ x.locked \in BOOLEAN
  /\ SleepsAreLong \in BOOLEAN

VARIABLES
  test,    (* the test                                                     *)
  step,    (* what it does next: init, lock, start, unlock, join or over   *)
  turn,    (* and with which thread                                        *)
  pc,      (* pc[t]: where a process is in threadfunc                      *)
  data,    (* data[t]: what became of the struct thread_data of the thread *)
  mutex,   (* mutex[m]: the words of the mutexes                           *)
  holds    (* the mutexes that the test holds                              *)

threads == <<test, step, turn, pc, data, mutex, holds>>

Threads == DOMAIN test.mutexes
Mutex(t) == test.mutexes[t]

NoTest == [mutexes |-> <<>>, locked |-> FALSE]

InitThreads ==
  /\ test = NoTest /\ step = "over" /\ turn = 1 /\ pc = <<>>
  /\ data = <<>> /\ mutex = <<>> /\ holds = {}

(* pthread_mutex_lock of process p, which fails for no mutex of this kind: *)
(* the mutex is taken, or p sleeps until it is woken.  A process that was  *)
(* woken leaves 2, for it does not know who else is asleep.                *)
Lock(p, m, inside) ==
  /\ pc[p] \notin {"asleep", inside}
  /\ IF mutex[m] = 0
     THEN pc' = [pc EXCEPT ![p] = inside]
     ELSE pc' = [pc EXCEPT ![p] = "asleep"]
  /\ mutex' = [mutex EXCEPT ![m] = IF @ = 0 /\ pc[p] # "woken" THEN 1 ELSE 2]

Asleep(m) == {p \in DOMAIN pc : pc[p] = "asleep" /\ Mutex(IF p = 0 THEN turn ELSE p) = m}

(* pthread_mutex_unlock by process p, which wakes one of those asleep if   *)
(* the word says that there may be any.                                    *)
Unlock(p, m, outside) ==
  /\ mutex' = [mutex EXCEPT ![m] = 0]
  /\ IF mutex[m] = 2 /\ Asleep(m) # {}
     THEN \E q \in Asleep(m) : pc' = [pc EXCEPT ![p] = outside, ![q] = "woken"]
     ELSE pc' = [pc EXCEPT ![p] = outside]

-----------------------------------------------------------------------------
(* threadfunc of thread t.  The two waits are steps of any length.         *)

(* Mutation: the thread does not wait for the mutex.                       *)
ThreadTriesToLock(t) ==
  /\ pc[t] \in {"created", "woken"} /\ pc' = [pc EXCEPT ![t] = "inside"]
  /\ mutex' = [mutex EXCEPT ![Mutex(t)] = 1]
  /\ UNCHANGED <<unity, test, step, turn, data, holds>>

ThreadLocks(t) ==
  /\ pc[t] \in {"created", "woken"} /\ Lock(t, Mutex(t), "inside")
  /\ UNCHANGED <<unity, test, step, turn, data, holds>>

(* Mutation: the thread returns without unlocking the mutex.               *)
ThreadKeepsMutex(t) ==
  /\ pc[t] = "inside" /\ pc' = [pc EXCEPT ![t] = "unlocked"]
  /\ UNCHANGED <<unity, test, step, turn, data, mutex, holds>>

ThreadUnlocks(t) ==
  /\ pc[t] = "inside" /\ Unlock(t, Mutex(t), "unlocked")
  /\ UNCHANGED <<unity, test, step, turn, data, holds>>

(* thread_complete_success = true, and the pointer is returned.            *)
ThreadReturns(t) ==
  /\ pc[t] = "unlocked" /\ pc' = [pc EXCEPT ![t] = "returned"]
  /\ data' = [data EXCEPT ![t] = "success"]
  /\ UNCHANGED <<unity, test, step, turn, mutex, holds>>

threadfunc(t) == ThreadLocks(t) \/ ThreadUnlocks(t) \/ ThreadReturns(t)

-----------------------------------------------------------------------------
(* The test.                                                               *)

Testing(s) == InBody("threads") /\ step = s

(* A passed assertion of the test; a failed one ends it.                   *)
Goes(s, t) == step' = s /\ turn' = t /\ UNCHANGED unity
Fails == UnityFail /\ UNCHANGED <<program, file, asked, status, step, turn>>

ThreadTestBegins ==
  /\ stage = "setUp" /\ kind = "threads" /\ stage' = "body"
  /\ test' \in ThreadTests /\ step' = "init" /\ turn' = 1
  /\ pc' = [t \in {0} \cup DOMAIN test'.mutexes |-> "none"]
  /\ data' = [t \in DOMAIN test'.mutexes |-> "none"]
  /\ mutex' = [m \in Range(test'.mutexes) |-> 0] /\ holds' = {}
  /\ UNCHANGED <<Unity, program, file, asked, lines, status>>

(* pthread_mutex_init, also of a mutex that was initialised and is locked: *)
(* the word is 0 again, and those asleep are not woken.                    *)
InitMutex ==
  /\ Testing("init")
  /\ mutex' = [mutex EXCEPT ![Mutex(turn)] = 0] /\ holds' = holds \ {Mutex(turn)}
  /\ Goes(IF test.locked THEN "lock" ELSE "start", turn)
  /\ UNCHANGED <<test, pc, data>>

LockMutex ==
  /\ Testing("lock") /\ Lock(0, Mutex(turn), "holds")
  /\ UNCHANGED <<unity, test, step, turn, data, holds>>

MutexLocked ==
  /\ Testing("lock") /\ pc[0] = "holds" /\ pc' = [pc EXCEPT ![0] = "none"]
  /\ holds' = holds \cup {Mutex(turn)} /\ Goes("start", turn)
  /\ UNCHANGED <<test, data, mutex>>

(* What the test does once thread t is started or joined: the next one is  *)
(* started, or the first one is verified; the next one is verified.        *)
Verify(t) == IF Mutex(t) \in holds THEN "unlock" ELSE "join"
NextStarted == IF turn < Len(test.mutexes) THEN Goes("init", turn + 1) ELSE Goes(Verify(1), 1)
NextJoined ==
  IF turn < Len(test.mutexes) THEN Goes(Verify(turn + 1), turn + 1) ELSE Goes("over", turn)

(* start_thread_obtaining_mutex: malloc and pthread_create may fail, and   *)
(* the block stays allocated when only the second one does.                *)
start_thread_obtaining_mutex ==
  /\ Testing("start")
  /\ \/ /\ data' = [data EXCEPT ![turn] = "allocated"]
        /\ pc' = [pc EXCEPT ![turn] = "created"] /\ NextStarted
     \/ data' = [data EXCEPT ![turn] = "lost"] /\ Fails /\ UNCHANGED pc
     \/ Fails /\ UNCHANGED <<data, pc>>
  /\ UNCHANGED <<test, mutex, holds>>

(* The threads go no further while the test does nothing.                  *)
Settled == \A t \in Threads : pc[t] \in {"none", "asleep", "returned", "joined"}

(* validate_thread_waits_for_mutex: usleep, the thread should not have     *)
(* returned, and the mutex is unlocked.                                    *)
UnlockMutex ==
  /\ Testing("unlock") /\ (SleepsAreLong => Settled)
  /\ IF pc[turn] = "returned" THEN Fails /\ UNCHANGED <<pc, mutex, holds>>
     ELSE /\ Unlock(0, Mutex(turn), "none") /\ holds' = holds \ {Mutex(turn)}
          /\ Goes("join", turn)
  /\ UNCHANGED <<test, data>>

(* Mutation: a thread that has not returned is joined all the same.        *)
JoinRunningThread ==
  /\ Testing("join")
  /\ pc' = [pc EXCEPT ![turn] = IF @ = "returned" THEN "joined" ELSE @]
  /\ data' = [data EXCEPT ![turn] = "freed"] /\ NextJoined
  /\ UNCHANGED <<test, mutex, holds>>

(* validate_thread_joinable_after_mutex_unlock: tryjoin or join, the check *)
(* of thread_complete_success, and free.                                   *)
JoinThread ==
  /\ Testing("join") /\ pc[turn] = "returned"
  /\ IF data[turn] = "success"
     THEN /\ pc' = [pc EXCEPT ![turn] = "joined"]
          /\ data' = [data EXCEPT ![turn] = "freed"] /\ NextJoined
     ELSE Fails /\ UNCHANGED <<pc, data>>
  /\ UNCHANGED <<test, mutex, holds>>

ThreadTest ==
  \/ ThreadTestBegins \/ InitMutex \/ LockMutex \/ MutexLocked
  \/ start_thread_obtaining_mutex \/ UnlockMutex \/ JoinThread

ThreadsNext == ThreadTest \/ \E t \in Threads : stage # "exited" /\ threadfunc(t)

-----------------------------------------------------------------------------

Inside(m) == {t \in Threads : pc[t] = "inside" /\ Mutex(t) = m}

(* Between its lock and its unlock of a mutex a thread is alone: no other  *)
(* thread is there, and the test does not hold the mutex, also where the   *)
(* test initialises a mutex again that a thread is waiting for.            *)
SectionsExclude ==
  \A m \in DOMAIN mutex : Cardinality(Inside(m)) + (IF m \in holds THEN 1 ELSE 0) <= 1

(* The struct thread_data of a thread is allocated as long as the thread   *)
(* may use it: from before it is created until it has returned and its     *)
(* joiner has freed it.                                                    *)
DataOutlivesThread ==
  \A t \in Threads :
    pc[t] \notin {"none", "joined"} => data[t] \in {"allocated", "success"}

(* A test about threads that is over without a failure has joined all of   *)
(* its threads, freed all of their data and left its mutexes unlocked.     *)
ThreadTestIsClean ==
  stage = "conclude" /\ kind = "threads" /\ ~RETURN_IF_FAIL_OR_IGNORE =>
    /\ \A t \in Threads : pc[t] = "joined" /\ data[t] = "freed"
    /\ \A m \in DOMAIN mutex : mutex[m] = 0
=============================================================================
