---------------------------- MODULE SocketServer ----------------------------
(***************************************************************************)
(* server/aesdsocket.c: the main thread, the client threads, the timer     *)
(* thread and the signal handler of the daemon, its clients, and the       *)
(* sockets between them.  The device is used through SeekableLog, which    *)
(* CharDriver implements.                                                  *)
(***************************************************************************)
EXTENDS Integers, Sequences, FiniteSets, SequencesExt

CONSTANTS
  Clients, NoClient,  (* the clients; a socket that accept failed to make  *)
  Request,            (* Request[c]: the bytes c sends; a member of        *)
                      (* SeekTos stands for an AESDCHAR_IOCSEEKTO: command *)
  NL, NUL, Junk,      (* newline, the end of a string, a byte nobody sent  *)
  BufferSize,         (* BUFFER_SIZE                                       *)
  MaxOps, SeekTos,    (* of the device                                     *)
  Idle,               (* clients that may never send                       *)
  Segments,           (* may a request arrive in several pieces?           *)
  StackReused,        (* does a thread get the stack of an earlier one?    *)
  Leavers,            (* clients that may go away without their answer     *)
  MaxSignals          (* bound: SIGINT and SIGTERM altogether              *)

(* What a client may send, and what fputs may write.                       *)
Stored  == {Junk} \cup UNION {ToSet(Request[c]) : c \in Clients}
Strings == Seq(Stored)

ASSUME ClientsAssumption == NoClient \notin Clients
ASSUME RequestAssumption == Request \in [Clients -> Strings \ {<<>>}]
ASSUME BufferAssumption  == BufferSize \in Nat /\ BufferSize > 1 /\ MaxSignals \in Nat
ASSUME DeviceAssumption  == /\ MaxOps \in Nat \ {0} /\ NUL \notin SeekTos
                            /\ SeekTos \subseteq [write_cmd : Nat, write_cmd_offset : Nat]

Threads == Clients \cup {NoClient}

VARIABLES
  log, partial, f_pos, got, (* the device; got[t]: what stdio has read     *)
  cleanShutdown,
  listener,      (* socket_server: "bound", "listening" or "closed"        *)
  backlog,       (* connections not accepted yet                           *)
  main, timer,   (* where the main thread and the timer thread are         *)
  handler,       (* the signal handler: where it is and in which thread    *)
  socket_client, (* what accept returned                                   *)
  head,          (* the list of slist_data_t nodes: the threads they are of*)
  pc, buf, text, line,      (* per client thread: place, buf, what fputs   *)
                            (* writes, what fgets has of the line          *)
  stack,         (* buf as the last client thread left it                  *)
  conn, todo, sent, answer, (* per client: connection, bytes to send,      *)
                            (* bytes not received yet, bytes it was sent   *)
  signals        (* signals so far (for the bound)                         *)

device  == <<log, partial, f_pos, got>>
thread  == <<pc, buf, text, line, stack>>
network == <<conn, todo, sent, answer, backlog>>
process == <<cleanShutdown, listener, main, timer, handler, socket_client, head>>
vars    == <<device, thread, network, process, signals>>

Device == INSTANCE SeekableLog
            WITH Procs <- Threads, pos <- f_pos, Chunks <- {Request[c] : c \in Clients},
                 Counts <- {}, SeekOffs <- {}

NoHandler == [in |-> "nobody", at |-> "idle"]

Zeros == [i \in 1 .. BufferSize |-> NUL]

Init ==
  /\ log = <<>> /\ partial = <<>>
  /\ f_pos = [t \in Threads |-> 0] /\ got = [t \in Threads |-> <<>>]
  /\ cleanShutdown = FALSE
  /\ listener = "bound" /\ backlog = <<>>
  /\ main = "check" /\ timer = "check" /\ handler = NoHandler
  /\ socket_client = NoClient /\ head = <<>>
  /\ pc = [t \in Threads |-> "none"]
  /\ buf = [t \in Threads |-> Zeros] /\ stack = Zeros
  /\ text = [t \in Threads |-> <<>>] /\ line = [t \in Threads |-> <<>>]
  /\ conn = [c \in Clients |-> "off"]
  /\ todo = Request
  /\ sent = [c \in Clients |-> <<>>] /\ answer = [c \in Clients |-> <<>>]
  /\ signals = 0

(* Thread t of the process executes: the process lives, and t is not busy  *)
(* with the signal handler.                                                *)
Runs(t) == main \notin {"exited", "killed"} /\ handler.in # t

-----------------------------------------------------------------------------
(* The clients and the network.                                            *)

Connect(c) ==
  /\ conn[c] = "off" /\ listener = "listening"
  /\ conn' = [conn EXCEPT ![c] = "open"]
  /\ backlog' = Append(backlog, c)
  /\ UNCHANGED <<device, thread, process, todo, sent, answer, signals>>

Send(c) ==
  /\ conn[c] = "open" /\ todo[c] # <<>>
  /\ \E n \in IF Segments THEN 1 .. Len(todo[c]) ELSE {Len(todo[c])} :
       /\ sent' = [sent EXCEPT ![c] = @ \o SubSeq(todo[c], 1, n)]
       /\ todo' = [todo EXCEPT ![c] = SubSeq(@, n + 1, Len(@))]
  /\ UNCHANGED <<device, thread, process, conn, answer, backlog, signals>>

Leave(c) ==
  /\ c \in Leavers /\ conn[c] = "open"
  /\ conn' = [conn EXCEPT ![c] = "gone"]
  /\ UNCHANGED <<device, thread, process, todo, sent, answer, backlog, signals>>

-----------------------------------------------------------------------------
(* threadFunc, in the thread of client t.                                  *)

(* A step of thread t, and what no such step changes.                      *)
ThreadStep(t, from, to) ==
  /\ pc[t] = from /\ pc' = [pc EXCEPT ![t] = to] /\ Runs(t)
  /\ UNCHANGED <<todo, backlog, cleanShutdown, listener, timer, handler,
                 socket_client, head, signals>>

(* Mutation: the terminating byte is written, too.                         *)
TextsWithNul(holder) == {holder}

(* What fputs(holder) writes: the bytes before the first NUL; when the     *)
(* holder has none, the memory behind it may add some.                     *)
Texts(holder) ==
  LET nuls == {i \in 1 .. Len(holder) : holder[i] = NUL}
  IN  IF nuls # {} THEN {SubSeq(holder, 1, Min(nuls) - 1)}
                   ELSE {holder, Append(holder, Junk)}

(* recv and the copy.  One recv takes what has arrived, up to BUFFER_SIZE  *)
(* - 1 bytes, 0 bytes of a client that left, and fails on the socket       *)
(* accept failed to make.  The copy takes one byte more than was received. *)
Recv(t) ==
  /\ ThreadStep(t, "recv", "fopen")
  /\ IF t = NoClient
     THEN /\ \E x \in Texts(<<>>) : text' = [text EXCEPT ![t] = x]
          /\ UNCHANGED <<buf, sent>>
     ELSE /\ sent[t] # <<>> \/ conn[t] = "gone"
          /\ LET n == Min({Len(sent[t]), BufferSize - 1})
                 b == [i \in 1 .. BufferSize |-> IF i <= n THEN sent[t][i] ELSE buf[t][i]]
             IN  /\ sent' = [sent EXCEPT ![t] = SubSeq(@, n + 1, Len(@))]
                 /\ buf' = [buf EXCEPT ![t] = b]
                 /\ \E x \in Texts(SubSeq(b, 1, n + 1)) : text' = [text EXCEPT ![t] = x]
  /\ UNCHANGED <<device, line, stack, conn, answer, main>>

Fopen(t) ==
  /\ ThreadStep(t, "fopen", "request")
  /\ Device!Open(t)
  /\ UNCHANGED <<buf, text, line, stack, conn, sent, answer, main>>

(* The ioctl, or fputs and the fseek that flushes it; then buf is cleared. *)
(* The position is 0 before the fseek: aesd_write does not move it.        *)
MakeRequest(t) ==
  /\ ThreadStep(t, "request", "fgets")
  /\ \/ text[t] = <<>> /\ UNCHANGED device
     \/ text[t] # <<>> /\ Head(text[t]) \in SeekTos /\ Device!SeekTo(t, Head(text[t]))
     \/ text[t] # <<>> /\ Head(text[t]) \notin SeekTos /\ Device!Write(text[t])
  /\ buf' = [buf EXCEPT ![t] = Zeros]
  /\ UNCHANGED <<text, line, stack, conn, sent, answer, main>>

(* fgets has a whole line, or all its buffer takes.                        *)
LineEnds(t) ==
  line[t] # <<>> /\ (Last(line[t]) = NL \/ Len(line[t]) = BufferSize - 1)

(* Mutation: the reading stops after the first read.                       *)
AtEndEarly(t) == got[t] = <<>> /\ (f_pos[t] > 0 \/ log = <<>>)

(* Nothing is left to read.                                                *)
AtEnd(t) == got[t] = <<>> /\ Device!Served(f_pos[t], 1) = <<>>

(* stdio reads from the device, as much as one read returns.               *)
Underflow(t) ==
  /\ ThreadStep(t, "fgets", "fgets")
  /\ ~LineEnds(t) /\ got[t] = <<>> /\ ~AtEnd(t)
  /\ Device!Read(t, Len(FlattenSeq(log)))
  /\ UNCHANGED <<buf, text, line, stack, conn, sent, answer, main>>

(* fgets takes the bytes up to the newline, or what its buffer holds.      *)
Take(t) ==
  /\ ThreadStep(t, "fgets", "fgets")
  /\ ~LineEnds(t) /\ got[t] # <<>>
  /\ LET ends == {i \in 1 .. Len(got[t]) : got[t][i] = NL}
         n    == Min(ends \cup {Len(got[t]), BufferSize - 1 - Len(line[t])})
     IN  /\ line' = [line EXCEPT ![t] = @ \o SubSeq(got[t], 1, n)]
         /\ got' = [got EXCEPT ![t] = SubSeq(@, n + 1, Len(@))]
  /\ UNCHANGED <<log, partial, f_pos, buf, text, stack, conn, sent, answer, main>>

(* fgets returns, and send: on a connection the client left it may fail,   *)
(* or raise SIGPIPE, which nothing catches and which ends the process.     *)
SendLine(t) ==
  /\ ThreadStep(t, "fgets", "fgets")
  /\ line[t] # <<>> /\ (LineEnds(t) \/ AtEnd(t))
  /\ line' = [line EXCEPT ![t] = <<>>]
  /\ LET n == Len(line[t])
     IN  buf' = [buf EXCEPT ![t] = [i \in 1 .. BufferSize |->
                   IF i <= n THEN line[t][i] ELSE IF i = n + 1 THEN NUL ELSE @[i]]]
  /\ IF t # NoClient /\ conn[t] = "open"
     THEN answer' = [answer EXCEPT ![t] = @ \o line[t]] /\ UNCHANGED main
     ELSE main' \in {main} \cup (IF t = NoClient THEN {} ELSE {"killed"})
          /\ UNCHANGED answer
  /\ UNCHANGED <<device, text, stack, conn, sent>>

(* Mutation: the connection stays open.                                    *)
CloseForgets(t) ==
  /\ ThreadStep(t, "fgets", "done")
  /\ line[t] = <<>> /\ AtEnd(t)
  /\ stack' = buf[t]
  /\ UNCHANGED <<device, buf, text, line, conn, sent, answer, main>>

(* fgets returns NULL: the file and the connection are closed.             *)
Close(t) ==
  /\ ThreadStep(t, "fgets", "done")
  /\ line[t] = <<>> /\ AtEnd(t)
  /\ conn' = [c \in Clients |-> IF c = t /\ conn[c] = "open" THEN "closed" ELSE conn[c]]
  /\ stack' = buf[t]
  /\ UNCHANGED <<device, buf, text, line, sent, answer, main>>

threadFunc(t) ==
  \/ Recv(t) \/ Fopen(t) \/ MakeRequest(t) \/ Underflow(t) \/ Take(t)
  \/ SendLine(t) \/ Close(t)

-----------------------------------------------------------------------------
(* main, from its accept loop on.                                          *)

(* A step of the main thread, and what no such step changes.               *)
MainStep(from, to) ==
  /\ main = from /\ main' = to /\ Runs("main")
  /\ UNCHANGED <<device, text, line, stack, todo, sent, answer, cleanShutdown, timer,
                 handler, signals>>

(* Mutation: the loop condition is not evaluated.                          *)
CheckIgnoresFlag ==
  /\ MainStep("check", "listen")
  /\ UNCHANGED <<pc, buf, conn, backlog, listener, socket_client, head>>

Check ==
  /\ MainStep("check", IF cleanShutdown THEN "close" ELSE "listen")
  /\ UNCHANGED <<pc, buf, conn, backlog, listener, socket_client, head>>

(* listen also turns a socket that was shut down into a listening one.     *)
Listen ==
  /\ MainStep("listen", "accept")
  /\ listener' = "listening"
  /\ UNCHANGED <<pc, buf, conn, backlog, socket_client, head>>

(* accept waits for a connection and fails when the socket is shut down;   *)
(* main goes on in either case.                                            *)
Accept ==
  /\ MainStep("accept", "create")
  /\ IF listener = "listening"
     THEN backlog # <<>> /\ socket_client' = Head(backlog) /\ backlog' = Tail(backlog)
     ELSE socket_client' = NoClient /\ UNCHANGED backlog
  /\ UNCHANGED <<pc, buf, conn, listener, head>>

(* A node for the new thread, and the thread.  Its buf is not initialised. *)
Create ==
  /\ MainStep("create", "join")
  /\ head' = <<socket_client>> \o head
  /\ pc' = [pc EXCEPT ![socket_client] = "recv"]
  /\ \E b \in {Zeros} \cup (IF StackReused THEN {stack} ELSE {}) :
       buf' = [buf EXCEPT ![socket_client] = b]
  /\ UNCHANGED <<conn, backlog, listener, socket_client>>

(* Mutation: the node is freed without pthread_join.                       *)
JoinDoesNotWait ==
  /\ MainStep("join", "check")
  /\ head' = Tail(head)
  /\ UNCHANGED <<pc, buf, conn, backlog, listener, socket_client>>

(* The loop over the list joins, removes and frees its first node, which   *)
(* is the newest, and stops.                                               *)
Join ==
  /\ MainStep("join", "check")
  /\ pc[Head(head)] = "done"
  /\ pc' = [pc EXCEPT ![Head(head)] = "none"]
  /\ head' = Tail(head)
  /\ UNCHANGED <<buf, conn, backlog, listener, socket_client>>

(* What happens to the connections nobody accepted.                        *)
BacklogReset ==
  /\ backlog' = <<>>
  /\ conn' = [c \in Clients |-> IF c \in ToSet(backlog) THEN "closed" ELSE conn[c]]

(* close(socket_server), and the timer thread is cancelled.                *)
CloseServer ==
  /\ MainStep("close", "join_timer")
  /\ listener' = "closed" /\ BacklogReset
  /\ UNCHANGED <<pc, buf, socket_client, head>>

(* pthread_join, remove(OUTPUT_FILE) and exit.                             *)
JoinTimerAndExit ==
  /\ MainStep("join_timer", "exited")
  /\ timer = "ended"
  /\ UNCHANGED <<pc, buf, conn, backlog, listener, socket_client, head>>

MainThread ==
  Check \/ Listen \/ Accept \/ Create \/ Join \/ CloseServer \/ JoinTimerAndExit

-----------------------------------------------------------------------------
(* The timer thread (it writes nothing: that code is commented out) and    *)
(* the signal handler, which runs inside one of the threads.               *)

timestamp ==
  /\ Runs("timer")
  /\ \/ timer = "check" /\ timer' = IF cleanShutdown THEN "ended" ELSE "sleep"
     \/ timer = "sleep" /\ timer' = "check"
     \/ timer = "sleep" /\ main = "join_timer" /\ timer' = "ended"
  /\ UNCHANGED <<device, thread, network, cleanShutdown, listener, main, handler,
                 socket_client, head, signals>>

Signal ==
  /\ main \notin {"exited", "killed"} /\ handler = NoHandler /\ signals < MaxSignals
  /\ signals' = signals + 1
  /\ \E t \in {"main"} \cup (IF timer # "ended" THEN {"timer"} ELSE {})
              \cup {u \in Threads : pc[u] \notin {"none", "done"}} :
       handler' = [in |-> t, at |-> "shutdown"]
  /\ UNCHANGED <<device, thread, network, cleanShutdown, listener, main, timer,
                 socket_client, head>>

(* shutdown(socket_server): it stops listening, and its backlog is reset.  *)
HandlerShutdown ==
  /\ main \notin {"exited", "killed"} /\ handler.at = "shutdown"
  /\ handler' = [handler EXCEPT !.at = "set"]
  /\ listener' = IF listener = "listening" THEN "bound" ELSE listener
  /\ BacklogReset
  /\ UNCHANGED <<device, thread, todo, sent, answer, cleanShutdown, main, timer,
                 socket_client, head, signals>>

HandlerSet ==
  /\ main \notin {"exited", "killed"} /\ handler.at = "set"
  /\ handler' = NoHandler
  /\ cleanShutdown' = TRUE
  /\ UNCHANGED <<device, thread, network, listener, main, timer, socket_client,
                 head, signals>>

signal_handler == HandlerShutdown \/ HandlerSet

Next ==
  \/ \E c \in Clients : Connect(c) \/ Send(c) \/ Leave(c)
  \/ \E t \in Threads : threadFunc(t)
  \/ MainThread \/ timestamp \/ Signal \/ signal_handler

Spec == Init /\ [][Next]_vars

(* Every thread of the process runs on, and so does a handler; a client    *)
(* that is not idle sends what it has.  Nobody has to connect, to leave or *)
(* to send a signal.                                                       *)
Fairness ==
  /\ WF_vars(MainThread) /\ WF_vars(timestamp) /\ WF_vars(signal_handler)
  /\ \A t \in Threads : WF_vars(threadFunc(t))
  /\ \A c \in Clients \ Idle : WF_vars(Send(c))

FairSpec == Spec /\ Fairness

-----------------------------------------------------------------------------
(* Correctness.                                                            *)

TypeOK ==
  /\ log \in Seq(Strings) /\ Len(log) <= MaxOps /\ partial \in Strings
  /\ f_pos \in [Threads -> Nat]
  /\ got \in [Threads -> Strings] /\ line \in [Threads -> Strings]
  /\ text \in [Threads -> Strings]
  /\ buf \in [Threads -> [1 .. BufferSize -> Stored \cup {NUL}]]
  /\ stack \in [1 .. BufferSize -> Stored \cup {NUL}]
  /\ cleanShutdown \in BOOLEAN
  /\ listener \in {"bound", "listening", "closed"}
  /\ backlog \in Seq(Clients) /\ head \in Seq(Threads)
  /\ main \in {"check", "listen", "accept", "create", "join", "close",
               "join_timer", "exited", "killed"}
  /\ timer \in {"check", "sleep", "ended"}
  /\ handler \in {NoHandler} \cup [in : {"main", "timer"} \cup Threads,
                                  at : {"shutdown", "set"}]
  /\ socket_client \in Threads
  /\ pc \in [Threads -> {"none", "recv", "fopen", "request", "fgets", "done"}]
  /\ conn \in [Clients -> {"off", "open", "gone", "closed"}]
  /\ todo \in [Clients -> Strings] /\ sent \in [Clients -> Strings]
  /\ answer \in [Clients -> Strings]
  /\ signals \in 0 .. MaxSignals

(* The memory a client thread works on, the thread_param in its list node, *)
(* lives until the thread has ended; so do the process and, at its end,    *)
(* the timer thread and the mutex in the frame of main.  No node is lost.  *)
ThreadsAreOutlived ==
  /\ \A t \in Threads : pc[t] # "none" => t \in ToSet(head)
  /\ main = "check" => head = <<>>
  /\ main = "exited" => timer = "ended" /\ \A t \in Threads : pc[t] = "none"

Contents == FlattenSeq(log)

(* A client that sent a line gets an answer that ends with that line       *)
(* (sockettest.sh compares the answer with all lines so far and the new    *)
(* one at the end).                                                        *)
AnswerEndsWithRequest ==
  \A c \in Clients :
    conn[c] = "closed" /\ pc[c] = "done" /\ Head(Request[c]) \notin SeekTos
      => IsSuffix(Request[c], answer[c])

(* Where the answer to a request begins that begins with s.                *)
From(s) ==
  IF s \notin SeekTos THEN 0
  ELSE IF s.write_cmd >= Len(log) THEN Len(Contents)
  ELSE Device!Start(s.write_cmd)
         + (IF s.write_cmd_offset <= Len(log[s.write_cmd + 1]) THEN s.write_cmd_offset ELSE 0)

(* The answer is everything the device holds, from the start for a line    *)
(* and from the position of the command for a seek: reading in pieces of   *)
(* commands and sending in pieces of lines loses and repeats nothing.      *)
AnswerIsTheContents ==
  [][\A c \in Clients : conn[c] = "open" /\ pc[c] = "fgets" /\ pc'[c] = "done" =>
       answer[c] = SubSeq(Contents, From(Head(Request[c])) + 1, Len(Contents))]_vars

(* Whoever connects and sends is served (the connection is closed after    *)
(* the answer) or dropped when the server shuts down, unless it leaves     *)
(* itself or a client that left brings the process down.                   *)
ClientsAreServed ==
  \A c \in Clients :
    conn[c] = "open" /\ sent[c] # <<>> ~> conn[c] # "open" \/ main = "killed"

(* Once the flag is set, the process exits, unless main was about to       *)
(* listen again or is already waiting on the revived socket.               *)
ShutdownCompletes ==
  /\ cleanShutdown /\ main # "listen" /\ (main = "accept" => listener # "listening")
  ~> main \in {"exited", "killed"}

-----------------------------------------------------------------------------
(* What the repository says and the code does not keep.                    *)

(* aesdsocket.c:60 logs "Caught signal, exiting": a signal ends the        *)
(* process.                                                                *)
SignalsEndTheServer == signals > 0 ~> main \in {"exited", "killed"}
=============================================================================
