---------------------------- MODULE SystemCalls ----------------------------
(***************************************************************************)
(* systemcalls.c, and the tests of Test_systemcalls.c that run it: a test  *)
(* runs commands with do_system, do_exec and do_exec_redirect, one after   *)
(* the other, and looks at the result and at the output file.              *)
(*                                                                         *)
(* The n-th call forks child n.  A command is [runs, status, writes]:      *)
(* whether execv can run it, what it exits with and the lines it writes to *)
(* its standard output.                                                    *)
(***************************************************************************)
EXTENDS UnityRun

CONSTANTS
  Commands, (* the commands                                                *)
  MaxCalls  (* bounds the calls of a test                                  *)

ASSUME CommandsAssumption ==
  /\ MaxCalls \in Nat \ {0}
  /\ \A c \in Commands : /\ c.runs \in BOOLEAN /\ c.status \in 0 .. 255
                          /\ c.writes \in Seq(Range(c.writes))

VARIABLES
  calls,   (* the calls so far: which function, which command, how far it  *)
           (* is (fork, close, wait, returned, checked), whether it opened *)
           (* the output file, its value, and what failed in it            *)
  child,   (* child[n]: where the child is, whether its command ran to its *)
           (* end, and its exit status                                     *)
  fd,      (* fd[n]: the descriptor of the output file in the test program *)
  output   (* the lines of the output file                                 *)

systemcalls == <<calls, child, fd, output>>

NoChild == [at |-> "none", ran |-> FALSE, status |-> 0]

InitCalls ==
  /\ calls = <<>> /\ output = <<>>
  /\ child = [n \in 1 .. MaxCalls |-> NoChild] /\ fd = [n \in 1 .. MaxCalls |-> "closed"]

last == Len(calls)

CallIs(point) == InBody("calls") /\ calls # <<>> /\ Last(calls).at = point

To(point) == calls' = [calls EXCEPT ![last].at = point]

Return(value, failed) ==
  calls' = [calls EXCEPT ![last].at = "returned", ![last].value = value, ![last].failed = failed]

Call(function, command, point, opened) ==
  Append(calls, [function |-> function, command |-> command, at |-> point,
                 opened |-> opened, value |-> FALSE, failed |-> "nothing"])

MayCall == InBody("calls") /\ last < MaxCalls /\ (calls # <<>> => Last(calls).at = "checked")

-----------------------------------------------------------------------------

(* system() waits for the shell, which runs the command with its output in *)
(* the file.  It returns -1 when it fails itself.                          *)
do_system(command) ==
  /\ MayCall
  /\ LET call == Call("do_system", command, "returned", FALSE)
         ran  == [at |-> "reaped", ran |-> command.runs,
                  status |-> IF command.runs THEN command.status ELSE 127]
     IN  \/ /\ calls' = [call EXCEPT ![last + 1].value = (ran.status = 0)]
            /\ child' = [child EXCEPT ![last + 1] = ran]
            /\ output' = IF command.runs THEN command.writes ELSE <<>>
         \/ /\ calls' = [call EXCEPT ![last + 1].failed = "fork"]
            /\ UNCHANGED <<child, output>>
  /\ UNCHANGED <<unity, fd>>

do_exec(command) ==
  /\ MayCall /\ calls' = Call("do_exec", command, "fork", FALSE)
  /\ UNCHANGED <<unity, child, fd, output>>

(* Mutation: the file is opened without O_TRUNC.                           *)
OpenWithoutTruncating(command) ==
  /\ MayCall /\ calls' = Call("do_exec_redirect", command, "fork", TRUE)
  /\ fd' = [fd EXCEPT ![last + 1] = "open"]
  /\ UNCHANGED <<unity, child, output>>

(* open of the output file, whose result is not looked at.                 *)
do_exec_redirect(command) ==
  /\ MayCall
  /\ \/ /\ calls' = Call("do_exec_redirect", command, "fork", TRUE)
        /\ fd' = [fd EXCEPT ![last + 1] = "open"] /\ output' = <<>>
     \/ /\ calls' = Call("do_exec_redirect", command, "fork", FALSE)
        /\ UNCHANGED <<fd, output>>
  /\ UNCHANGED <<unity, child>>

Redirects(i) == calls[i].function = "do_exec_redirect"

Fork ==
  /\ CallIs("fork")
  /\ \/ /\ child' = [child EXCEPT ![last].at = "forked"]
        /\ To(IF Redirects(last) THEN "close" ELSE "wait")
     \/ Return(FALSE, "fork") /\ UNCHANGED child
  /\ UNCHANGED <<unity, fd, output>>

Close ==
  /\ CallIs("close") /\ fd' = [fd EXCEPT ![last] = "closed"] /\ To("wait")
  /\ UNCHANGED <<unity, child, output>>

(* waitpid                                                                 *)
Wait ==
  /\ CallIs("wait") /\ child[last].at = "zombie"
  /\ child' = [child EXCEPT ![last].at = "reaped"]
  /\ Return(child[last].status = 0, "nothing")
  /\ UNCHANGED <<unity, fd, output>>

(* waitpid when a signal interrupts it                                     *)
WaitInterrupted ==
  /\ CallIs("wait") /\ child[last].at # "zombie" /\ Return(FALSE, "wait")
  /\ UNCHANGED <<unity, child, fd, output>>

-----------------------------------------------------------------------------
(* Child i of the test program.                                            *)

Exits(i, code, ran) ==
  child' = [child EXCEPT ![i] = [at |-> "zombie", ran |-> ran, status |-> code]]

errno == 2 (* of the call that failed, not a multiple of 256               *)

(* Without an open file there is nothing that dup2 could duplicate.        *)
Dup2(i) ==
  /\ child[i].at = "forked" /\ Redirects(i)
  /\ IF calls[i].opened THEN child' = [child EXCEPT ![i].at = "redirected"]
     ELSE Exits(i, errno, FALSE)
  /\ UNCHANGED <<unity, calls, fd, output>>

(* Mutation: a child that cannot run its command goes on as the parent.    *)
ExecvFallsThrough(i) ==
  /\ child[i].at = IF Redirects(i) THEN "redirected" ELSE "forked"
  /\ child' = [child EXCEPT ![i].at =
                 IF calls[i].command.runs THEN "running" ELSE "test program"]
  /\ UNCHANGED <<unity, calls, fd, output>>

(* Mutation: the child that cannot run its command exits with 0.           *)
ExecvExitsZero(i) ==
  /\ child[i].at = IF Redirects(i) THEN "redirected" ELSE "forked"
  /\ IF calls[i].command.runs THEN child' = [child EXCEPT ![i].at = "running"]
     ELSE Exits(i, 0, FALSE)
  /\ UNCHANGED <<unity, calls, fd, output>>

Execv(i) ==
  /\ child[i].at = IF Redirects(i) THEN "redirected" ELSE "forked"
  /\ IF calls[i].command.runs THEN child' = [child EXCEPT ![i].at = "running"]
     ELSE Exits(i, errno, FALSE)
  /\ UNCHANGED <<unity, calls, fd, output>>

Runs(i) ==
  /\ child[i].at = "running" /\ Exits(i, calls[i].command.status, TRUE)
  /\ output' = IF Redirects(i)
               THEN LET w == calls[i].command.writes
                    IN  w \o SubSeq(output, Len(w) + 1, Len(output))
               ELSE output
  /\ UNCHANGED <<unity, calls, fd>>
-----------------------------------------------------------------------------

(* TEST_ASSERT of the value a call should have, but for do_exec_redirect,  *)
(* and of the output that the test finds in the file.                      *)
CheckResult ==
  /\ CallIs("returned")
  /\ LET c == calls[last]
         succeeds == c.command.runs /\ c.command.status = 0
         agrees == /\ c.function # "do_exec_redirect" => c.value = succeeds
                   /\ c.function # "do_exec" /\ succeeds => output = c.command.writes
     IN  IF agrees THEN To("checked") /\ UNCHANGED unity
         ELSE UnityFail /\ UNCHANGED <<program, file, asked, status, calls>>
  /\ UNCHANGED <<child, fd, output>>

CallsTestBegins ==
  /\ stage = "setUp" /\ kind = "calls" /\ stage' = "body"
  /\ calls' = <<>> /\ child' = [i \in DOMAIN child |-> NoChild]
  /\ fd' = [i \in DOMAIN fd |-> "closed"]
  /\ UNCHANGED <<Unity, program, file, asked, lines, status, output>>

Child(i) == i <= last /\ (Dup2(i) \/ Execv(i) \/ Runs(i))

Caller ==
  \/ CallsTestBegins \/ Fork \/ Close \/ Wait \/ CheckResult
  \/ \E command \in Commands :
       do_system(command) \/ do_exec(command) \/ do_exec_redirect(command)

CallsNext ==
  \/ Caller \/ WaitInterrupted
  \/ \E i \in DOMAIN child : stage # "exited" /\ Child(i)

-----------------------------------------------------------------------------

(* No child that an interrupted wait left behind writes to the file.       *)
Undisturbed == \A i \in 1 .. last - 1 : calls[i].failed # "wait"

(* A call returns true only when its command ran to its end and exited     *)
(* with 0, with what it wrote, and nothing else, in the output file; and   *)
(* unless fork failed or a signal interrupted the wait it does return true *)
(* then.                                                                   *)
ResultIsTrue ==
  CallIs("returned") =>
    LET c == calls[last]
        k == child[last]
    IN  /\ c.value => /\ k.ran /\ k.status = 0
                      /\ Redirects(last) /\ Undisturbed => output = c.command.writes
        /\ c.failed = "nothing" /\ k.ran /\ k.status = 0 => c.value

(* When a call has returned the child is reaped and no copy of the test    *)
(* program runs on, unless a signal interrupted the wait; and the output   *)
(* file is closed, unless fork failed.                                     *)
CallsLeaveNothing ==
  CallIs("returned") =>
    /\ calls[last].failed # "wait" => child[last].at \in {"none", "reaped"}
    /\ calls[last].failed # "fork" => fd[last] = "closed"
    /\ \A i \in DOMAIN child : child[i].at # "test program"
=============================================================================
