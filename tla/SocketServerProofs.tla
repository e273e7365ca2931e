------------------------- MODULE SocketServerProofs -------------------------
(***************************************************************************)
(* Theorems about SocketServer, for any number of clients and signals and  *)
(* whatever the clients and the network do.                                *)
(***************************************************************************)
EXTENDS SocketServer, LibraryFacts

(* Main works on one client thread at a time: the list holds the node of   *)
(* the thread main waits for and is empty otherwise.  A killed process     *)
(* keeps whatever it had.                                                  *)
OneNode ==
  /\ main = "join" => head = <<socket_client>>
  /\ main \notin {"join", "killed"} => head = <<>>

(* Only the thread of a listed node is there.                              *)
ThreadsListed ==
  /\ pc \in [Threads -> {"none", "recv", "fopen", "request", "fgets", "done"}]
  /\ socket_client \in Threads
  /\ backlog \in Seq(Clients)
  /\ \A t \in Threads : pc[t] # "none" =>
       main \in {"join", "killed"} /\ head = <<t>>

TimerEnded == main = "exited" => timer = "ended"

ServerInv == OneNode /\ ThreadsListed /\ TimerEnded

LEMMA ServerInvInit == Init => ServerInv
<1> SUFFICES ASSUME Init
             PROVE  ServerInv
  OBVIOUS
<1>1. main = "check" /\ head = <<>> /\ backlog = <<>> /\ socket_client = NoClient
  BY DEF Init
<1>2. pc = [t \in Threads |-> "none"]
  BY DEF Init
<1>3. \A t \in Threads : pc[t] = "none"
  BY <1>2
<1>4. QED
  BY <1>1, <1>2, <1>3 DEF ServerInv, OneNode, ThreadsListed, TimerEnded, Threads

(* A client thread exists already when it moves, and main cannot have      *)
(* exited.                                                                 *)
LEMMA ServerInvThread ==
  ASSUME ServerInv, NEW t \in Threads, threadFunc(t)
  PROVE  ServerInv'
<1>1. /\ \E l \in {"fopen", "request", "fgets", "done"} : pc' = [pc EXCEPT ![t] = l]
      /\ pc[t] \in {"recv", "fopen", "request", "fgets"}
      /\ main' \in {main, "killed"} /\ main # "exited"
      /\ UNCHANGED <<backlog, socket_client, head, timer>>
  BY DEF threadFunc, Recv, Fopen, MakeRequest, Underflow, Take, SendLine, Close,
         ThreadStep, Runs
<1>2. /\ pc' \in [Threads -> {"none", "recv", "fopen", "request", "fgets", "done"}]
      /\ \A u \in Threads : pc'[u] # "none" => pc[u] # "none"
  BY <1>1 DEF ServerInv, ThreadsListed
<1>3. QED
  BY <1>1, <1>2 DEF ServerInv, OneNode, ThreadsListed, TimerEnded

(* The main thread: every node is made for one thread, and goes only when  *)
(* that thread has ended.                                                  *)
LEMMA ServerInvMain ==
  ASSUME ServerInv, MainThread
  PROVE  ServerInv'
<1> USE DEF ServerInv, OneNode, ThreadsListed, TimerEnded, MainStep
<1>1. CASE Check \/ Listen
  BY <1>1 DEF Check, Listen
<1>2. CASE Accept
  <2>1. backlog # <<>> => Head(backlog) \in Clients /\ Tail(backlog) \in Seq(Clients)
    OBVIOUS
  <2>2. socket_client' \in Threads /\ backlog' \in Seq(Clients)
    BY <1>2, <2>1 DEF Accept, Threads
  <2>3. QED
    BY <1>2, <2>2 DEF Accept
<1>3. CASE Create
  <2>1. head = <<>> /\ main' = "join" /\ UNCHANGED <<socket_client, backlog, timer>>
    BY <1>3 DEF Create
  <2>2. head' = <<socket_client>>
    BY <1>3, <2>1 DEF Create
  <2>3. pc' = [pc EXCEPT ![socket_client] = "recv"] /\ \A t \in Threads : pc[t] = "none"
    BY <1>3 DEF Create
  <2>4. QED
    BY <2>1, <2>2, <2>3
<1>4. CASE Join
  <2>1. /\ head = <<socket_client>> /\ main' = "check"
        /\ UNCHANGED <<socket_client, backlog, timer>>
    BY <1>4 DEF Join
  <2>2. Head(head) = socket_client /\ Tail(head) = <<>>
    BY <2>1
  <2>3. /\ pc' = [pc EXCEPT ![socket_client] = "none"] /\ head' = <<>>
        /\ \A t \in Threads : pc[t] # "none" => t = socket_client
    BY <1>4, <2>1, <2>2 DEF Join
  <2>4. QED
    BY <2>1, <2>3
<1>5. CASE CloseServer
  BY <1>5 DEF CloseServer, BacklogReset
<1>6. CASE JoinTimerAndExit
  BY <1>6 DEF JoinTimerAndExit
<1>7. QED
  BY <1>1, <1>2, <1>3, <1>4, <1>5, <1>6 DEF MainThread

LEMMA ServerInvNext == ServerInv /\ [Next]_vars => ServerInv'
<1> SUFFICES ASSUME ServerInv, [Next]_vars
             PROVE  ServerInv'
  OBVIOUS
<1> USE DEF ServerInv, OneNode, ThreadsListed, TimerEnded
<1>1. ASSUME NEW c \in Clients, Connect(c)
      PROVE  ServerInv'
  <2>1. backlog' \in Seq(Clients) /\ UNCHANGED <<pc, main, head, socket_client, timer>>
    BY <1>1 DEF Connect, thread, process
  <2>2. QED
    BY <2>1
<1>2. ASSUME NEW c \in Clients, Send(c) \/ Leave(c)
      PROVE  ServerInv'
  <2>1. UNCHANGED <<pc, main, head, socket_client, backlog, timer>>
    BY <1>2 DEF Send, Leave, thread, process
  <2>2. QED
    BY <2>1
<1>3. ASSUME NEW t \in Threads, threadFunc(t)
      PROVE  ServerInv'
  BY <1>3, ServerInvThread
<1>4. CASE MainThread
  BY <1>4, ServerInvMain
<1>5. CASE timestamp
  BY <1>5 DEF timestamp, Runs, thread, network
<1>6. CASE Signal
  BY <1>6 DEF Signal, thread, network
<1>7. CASE signal_handler
  <2>1. backlog' \in Seq(Clients) /\ UNCHANGED <<pc, main, head, socket_client, timer>>
    <3>1. CASE HandlerShutdown
      BY <3>1 DEF HandlerShutdown, BacklogReset, thread
    <3>2. CASE HandlerSet
      BY <3>2 DEF HandlerSet, thread, network
    <3>3. QED
      BY <1>7, <3>1, <3>2 DEF signal_handler
  <2>2. QED
    BY <2>1
<1>8. CASE UNCHANGED vars
  BY <1>8 DEF vars, thread, network, process
<1>9. QED
  BY <1>1, <1>2, <1>3, <1>4, <1>5, <1>6, <1>7, <1>8 DEF Next

(* A client thread never outlives its node, nor the timer thread and the   *)
(* client threads the process: with any number of clients and signals, and *)
(* whatever the stack holds.                                               *)
THEOREM ThreadsCorrect == Spec => []ThreadsAreOutlived
<1>1. ServerInv => ThreadsAreOutlived
  <2> SUFFICES ASSUME ServerInv
               PROVE  ThreadsAreOutlived
    OBVIOUS
  <2>1. ASSUME NEW t \in Threads, pc[t] # "none"
        PROVE  t \in ToSet(head)
    <3>1. head = <<t>>
      BY <2>1 DEF ServerInv, ThreadsListed
    <3>2. QED
      BY <3>1 DEF ToSet
  <2>2. QED
    BY <2>1 DEF ServerInv, OneNode, ThreadsListed, TimerEnded, ThreadsAreOutlived
<1>2. QED
  BY <1>1, ServerInvInit, ServerInvNext, PTL DEF Spec


-----------------------------------------------------------------------------
(* The types.                                                              *)

(* A piece of a sequence.                                                  *)
LEMMA PieceType ==
  ASSUME NEW S, NEW s \in Seq(S), NEW m \in Nat \ {0}, NEW n \in Int, n <= Len(s)
  PROVE  /\ SubSeq(s, m, n) \in Seq(S)
         /\ Len(SubSeq(s, m, n)) = IF m <= n THEN n - m + 1 ELSE 0
         /\ \A i \in 1 .. n - m + 1 : SubSeq(s, m, n)[i] = s[m + i - 1]
<1>1. Len(s) \in Nat /\ \A i \in 1 .. Len(s) : s[i] \in S
  BY LenProperties, ElementOfSeq
<1>2. \A i \in m .. n : s[i] \in S
  BY <1>1
<1>3. m \in Int
  OBVIOUS
<1>4. QED
  BY <1>2, <1>3, SubSeqProperties

LEMMA RequestTypes ==
  /\ Junk \in Stored /\ <<>> \in Strings /\ <<Junk>> \in Strings
  /\ \A c \in Clients : Request[c] \in Strings /\ Request[c] # <<>>
<1>1. Junk \in Stored
  BY DEF Stored
<1>2. QED
  BY <1>1, RequestAssumption DEF Strings

LEMMA TextsType ==
  ASSUME NEW holder \in Seq(Stored \cup {NUL}), NEW x \in Texts(holder)
  PROVE  x \in Strings
<1> DEFINE nuls == {i \in 1 .. Len(holder) : holder[i] = NUL}
<1>1. /\ Len(holder) \in Nat /\ DOMAIN holder = 1 .. Len(holder)
      /\ \A i \in 1 .. Len(holder) : holder[i] \in Stored \cup {NUL}
  BY LenProperties, ElementOfSeq
<1>2. CASE nuls # {}
  <2> DEFINE m == Min(nuls)
  <2>1. nuls \subseteq Nat
    OBVIOUS
  <2>2. m \in nuls /\ \A i \in nuls : m <= i
    BY <1>2, <2>1, MinOfNaturals
  <2>3. x = SubSeq(holder, 1, m - 1)
    BY <1>2 DEF Texts
  <2>4. m \in 1 .. Len(holder)
    BY <2>2
  <2>5. \A i \in 1 .. m - 1 : i \in 1 .. Len(holder) /\ i \notin nuls
    BY <1>1, <2>2, <2>4
  <2>6. \A i \in 1 .. m - 1 : holder[i] \in Stored
    BY <1>1, <2>5
  <2> HIDE DEF m
  <2>7. SubSeq(holder, 1, m - 1) \in Seq(Stored)
    BY <2>4, <2>6, SubSeqProperties
  <2>8. QED
    BY <2>3, <2>7 DEF Strings
<1>3. CASE nuls = {}
  <2>1. x \in {holder, Append(holder, Junk)}
    BY <1>3 DEF Texts
  <2>2. \A i \in 1 .. Len(holder) : holder[i] \in Stored
    BY <1>1, <1>3
  <2>3. holder \in Seq(Stored)
    <3>1. SubSeq(holder, 1, Len(holder)) \in Seq(Stored)
      BY <1>1, <2>2, SubSeqProperties
    <3>2. QED
      BY <3>1, SubSeqFull
  <2>4. Append(holder, Junk) \in Seq(Stored)
    BY <2>3, RequestTypes, AppendProperties
  <2>5. QED
    BY <2>1, <2>3, <2>4 DEF Strings
<1>4. QED
  BY <1>2, <1>3

(* The library as the device sees it.                                      *)
LEMMA SameLibrary ==
  /\ \A s : Device!FlattenSeq(s) = FlattenSeq(s)
  /\ \A T : Device!Min(T) = Min(T) /\ Device!Max(T) = Max(T)
<1>1. \A s : Device!FlattenSeq(s) = FlattenSeq(s)
  BY Zenon DEF Device!FlattenSeq, FlattenSeq
<1>2. \A T : Device!Min(T) = Min(T) /\ Device!Max(T) = Max(T)
  BY Zenon DEF Device!Min, Min, Device!Max, Max
<1>3. QED
  BY <1>1, <1>2

(* Positions of the device are positions in its contents.                  *)
LEMMA DeviceStart ==
  ASSUME log \in Seq(Strings)
  PROVE  /\ \A k : Device!Start(k) = Before(log, k)
         /\ \A k \in 0 .. Len(log) : Device!Start(k) \in Nat /\ Device!Start(k) <= Len(Contents)
         /\ \A k \in 1 .. Len(log) : Device!Start(k) = Device!Start(k - 1) + Len(log[k])
         /\ Device!Start(Len(log)) = Len(Contents)
         /\ Contents \in Strings /\ Len(Contents) \in Nat
<1>1. log \in Seq(Seq(Stored)) /\ Len(log) \in Nat
  BY LenProperties DEF Strings
<1>2. \A k : Device!Start(k) = Before(log, k)
  BY SameLibrary DEF Device!Start, Before
<1>3. \A k \in 0 .. Len(log) : Before(log, k) \in Nat /\ Before(log, k) <= Before(log, Len(log))
  BY <1>1, BeforeSums, BeforeGrows
<1>4. /\ \A k \in 1 .. Len(log) : Before(log, k) = Before(log, k - 1) + Len(log[k])
      /\ Before(log, Len(log)) = Len(Contents)
  BY <1>1, BeforeSums DEF Contents
<1>5. Contents \in Strings
  BY <1>1, FlattenType DEF Contents, Strings
<1>6. QED
  BY <1>1, <1>2, <1>3, <1>4, <1>5, LenProperties DEF Strings

(* What a read returns is what the contents have at the position.          *)
LEMMA ServedIs ==
  ASSUME log \in Seq(Strings), NEW at \in Nat, NEW count \in Nat \ {0}
  PROVE  /\ at >= Len(Contents) => Device!Served(at, count) = <<>>
         /\ at < Len(Contents) =>
              \E to \in Nat : /\ at < to /\ to <= Len(Contents)
                              /\ Device!Served(at, count) = SubSeq(Contents, at + 1, to)
<1> DEFINE here == {k \in 1 .. Len(log) : Device!Start(k - 1) <= at /\ at < Device!Start(k)}
           k == CHOOSE j \in here : TRUE
           from == at - Device!Start(k - 1)
<1>1. log \in Seq(Seq(Stored)) /\ Len(log) \in Nat
  BY LenProperties DEF Strings
<1>2. Device!Served(at, count) = IF here = {} THEN <<>>
        ELSE SubSeq(log[k], from + 1, Min({Len(log[k]), from + count}))
  BY SameLibrary DEF Device!Served
<1>3. at < Len(Contents) <=> here # {}
  <2>1. at < Len(FlattenSeq(log)) <=>
          \E j \in 1 .. Len(log) : Before(log, j - 1) <= at /\ at < Before(log, j)
    BY <1>1, PieceAt
  <2>2. QED
    BY <2>1, DeviceStart DEF Contents
<1>4. CASE here = {}
  BY <1>2, <1>3, <1>4, DeviceStart
<1>5. CASE here # {}
  <2> DEFINE n == Len(log[k])
             to == Min({n, from + count})
             b == Device!Start(k - 1)
  <2>1. k \in here
    BY <1>5
  <2> HIDE DEF here, k
  <2>2. k \in 1 .. Len(log) /\ b <= at /\ at < Device!Start(k) /\ k - 1 \in 0 .. Len(log)
    BY <2>1 DEF here
  <2>3. Device!Start(k) = b + n /\ b = Before(log, k - 1) /\ b \in Nat
    BY <2>2, DeviceStart
  <2>4. log[k] \in Seq(Stored) /\ n \in Nat
    BY <1>1, <2>2, ElementOfSeq, LenProperties
  <2> HIDE DEF b, n
  <2>5. from \in Nat /\ from < n /\ at = b + from
    BY <2>2, <2>3, <2>4 DEF b
  <2> HIDE DEF from
  <2>6. to \in Nat /\ from < to /\ to <= n
    <3> DEFINE x == from + count
               T == {n, x}
    <3>1. x \in Nat /\ from < x
      BY <2>5
    <3> HIDE DEF x
    <3>2. T \subseteq Nat /\ T # {}
      BY <2>4, <3>1
    <3>3. Min(T) \in T /\ \A y \in T : Min(T) <= y
      BY <3>2, MinOfNaturals
    <3>4. to = Min(T)
      BY DEF x
    <3> HIDE DEF to
    <3>5. QED
      BY <2>4, <2>5, <3>1, <3>3, <3>4
  <2> HIDE DEF to
  <2>7. from <= to /\ to <= Len(log[k])
    BY <2>4, <2>5, <2>6 DEF n
  <2>8. /\ Before(log, k - 1) + to <= Len(FlattenSeq(log))
        /\ SubSeq(log[k], from + 1, to)
             = SubSeq(FlattenSeq(log), Before(log, k - 1) + from + 1, Before(log, k - 1) + to)
    BY <1>1, <2>2, <2>5, <2>6, <2>7, PieceOf
  <2>9. Device!Served(at, count) = SubSeq(log[k], from + 1, to)
    BY <1>2, <1>5 DEF to, n
  <2>10. /\ Before(log, k - 1) + from + 1 = at + 1 /\ b + to \in Nat /\ at < b + to
         /\ Before(log, k - 1) + to = b + to
    BY <2>3, <2>5, <2>6
  <2>11. b + to <= Len(Contents) /\ Device!Served(at, count) = SubSeq(Contents, at + 1, b + to)
    BY <2>8, <2>9, <2>10 DEF Contents
  <2>12. at < Len(Contents) /\ Len(Contents) \in Nat
    BY <1>3, <1>5, DeviceStart
  <2> DEFINE end == b + to
  <2>13. end \in Nat /\ at < end /\ end <= Len(Contents)
         /\ Device!Served(at, count) = SubSeq(Contents, at + 1, end)
    BY <2>10, <2>11
  <2> HIDE DEF end
  <2>14. QED
    BY <2>12, <2>13
<1>6. QED
  BY <1>4, <1>5

LEMMA ServedType ==
  ASSUME log \in Seq(Strings), NEW at \in Nat, NEW count \in Nat \ {0}
  PROVE  Device!Served(at, count) \in Strings /\ Len(Device!Served(at, count)) \in Nat
<1>1. \A to \in Nat : to <= Len(Contents) => SubSeq(Contents, at + 1, to) \in Strings
  BY DeviceStart, PieceType DEF Strings
<1>2. Device!Served(at, count) \in Strings
  <2>1. CASE at >= Len(Contents)
    BY <2>1, ServedIs, RequestTypes
  <2>2. CASE ~(at >= Len(Contents))
    <3>1. at < Len(Contents)
      BY <2>2, DeviceStart
    <3>2. PICK to \in Nat : /\ at < to /\ to <= Len(Contents)
                            /\ Device!Served(at, count) = SubSeq(Contents, at + 1, to)
      BY <3>1, ServedIs
    <3>3. QED
      BY <1>1, <3>2
  <2>3. QED
    BY <2>1, <2>2
<1>3. QED
  BY <1>2, LenProperties DEF Strings

(* A write completes a command or makes the partial one longer.            *)
LEMMA WriteType ==
  ASSUME log \in Seq(Strings), Len(log) <= MaxOps, partial \in Strings, NEW c \in Strings,
         Device!Write(c)
  PROVE  log' \in Seq(Strings) /\ Len(log') <= MaxOps /\ partial' \in Strings
<1> DEFINE nl == Device!LastNewline(c)
           kept == IF partial = <<>> \/ nl = 0 THEN c ELSE SubSeq(c, 1, nl)
           e == partial \o kept
<1>1. nl \in 0 .. Len(c)
  <2> DEFINE T == {0} \cup {i \in 1 .. Len(c) : c[i] = NL}
  <2>1. Len(c) \in Nat /\ T \subseteq 0 .. Len(c) /\ T # {}
    BY LenProperties DEF Strings
  <2> HIDE DEF T
  <2>2. Max(T) \in T
    BY <2>1, MaxOfBounded
  <2>3. QED
    BY <2>1, <2>2, SameLibrary DEF T, Device!LastNewline
<1>2. /\ IF nl = 0 THEN log' = log /\ partial' = partial \o kept
                   ELSE log' = Device!Log!Pushed(log, partial \o kept) /\ partial' = <<>>
  BY DEF Device!Write
<1> HIDE DEF nl
<1>3. kept \in Seq(Stored)
  BY <1>1, LenProperties, PieceType DEF Strings
<1>4. e \in Strings
  BY <1>3, ConcatProperties DEF Strings
<1> HIDE DEF e, kept
<1>5. CASE nl = 0
  BY <1>2, <1>4, <1>5 DEF e
<1>6. CASE nl # 0
  <2> DEFINE r == IF Len(log) < MaxOps THEN log ELSE Tail(log)
  <2>1. log' = Append(r, e) /\ partial' = <<>>
    BY <1>2, <1>6 DEF e, Device!Log!Pushed
  <2>2. Len(log) \in Nat /\ MaxOps \in Nat \ {0}
    BY LenProperties, DeviceAssumption
  <2>3. r \in Seq(Strings) /\ Len(r) \in Nat /\ Len(r) + 1 <= MaxOps
    <3>1. CASE Len(log) < MaxOps
      BY <2>2, <3>1
    <3>2. CASE ~(Len(log) < MaxOps)
      <4>1. Len(log) = MaxOps /\ log # <<>>
        BY <2>2, <3>2
      <4>2. Tail(log) \in Seq(Strings) /\ Len(Tail(log)) = Len(log) - 1
        BY <4>1, HeadTailProperties
      <4>3. QED
        BY <2>2, <3>2, <4>1, <4>2
    <3>3. QED
      BY <3>1, <3>2
  <2> HIDE DEF r
  <2>4. Append(r, e) \in Seq(Strings) /\ Len(Append(r, e)) = Len(r) + 1
    BY <1>4, <2>3, AppendProperties
  <2>5. QED
    BY <2>1, <2>3, <2>4, RequestTypes
<1>7. QED
  BY <1>5, <1>6

LEMMA SeekToType ==
  ASSUME log \in Seq(Strings), f_pos \in [Threads -> Nat], NEW t \in Threads,
         NEW s \in SeekTos, Device!SeekTo(t, s)
  PROVE  f_pos' \in [Threads -> Nat] /\ UNCHANGED <<log, partial, got>>
<1> DEFINE at == IF s.write_cmd >= Len(log) THEN Device!Start(Len(log))
                 ELSE Device!Start(s.write_cmd)
                        + (IF s.write_cmd_offset <= Len(log[s.write_cmd + 1])
                           THEN s.write_cmd_offset ELSE 0)
<1>1. s.write_cmd \in Nat /\ s.write_cmd_offset \in Nat /\ Len(log) \in Nat
  BY DeviceAssumption, LenProperties
<1>2. at \in Nat
  <2>1. CASE s.write_cmd >= Len(log)
    BY <1>1, <2>1, DeviceStart
  <2>2. CASE ~(s.write_cmd >= Len(log))
    <3>1. s.write_cmd \in 0 .. Len(log)
      BY <1>1, <2>2
    <3>2. Device!Start(s.write_cmd) \in Nat
      BY <3>1, DeviceStart
    <3>3. QED
      BY <1>1, <2>2, <3>2
  <2>3. QED
    BY <2>1, <2>2
<1>3. f_pos' = [f_pos EXCEPT ![t] = at] /\ UNCHANGED <<log, partial, got>>
  BY DEF Device!SeekTo
<1> HIDE DEF at
<1>4. QED
  BY <1>2, <1>3

(* The parts of the type invariant.                                        *)
Bytes  == Stored \cup {NUL}
Points == {"none", "recv", "fopen", "request", "fgets", "done"}
Places == {"check", "listen", "accept", "create", "join", "close", "join_timer", "exited", "killed"}

DeviceTypes ==
  /\ log \in Seq(Strings) /\ Len(log) <= MaxOps /\ partial \in Strings
  /\ f_pos \in [Threads -> Nat] /\ got \in [Threads -> Strings]

ThreadTypes ==
  /\ line \in [Threads -> Strings] /\ text \in [Threads -> Strings]
  /\ buf \in [Threads -> [1 .. BufferSize -> Bytes]] /\ stack \in [1 .. BufferSize -> Bytes]
  /\ pc \in [Threads -> Points]

NetworkTypes ==
  /\ backlog \in Seq(Clients) /\ conn \in [Clients -> {"off", "open", "gone", "closed"}]
  /\ todo \in [Clients -> Strings] /\ sent \in [Clients -> Strings]
  /\ answer \in [Clients -> Strings]

ProcessTypes ==
  /\ cleanShutdown \in BOOLEAN /\ listener \in {"bound", "listening", "closed"}
  /\ head \in Seq(Threads) /\ main \in Places /\ timer \in {"check", "sleep", "ended"}
  /\ handler \in {NoHandler} \cup [in : {"main", "timer"} \cup Threads, at : {"shutdown", "set"}]
  /\ socket_client \in Threads /\ signals \in 0 .. MaxSignals

LEMMA TypeParts == TypeOK <=> DeviceTypes /\ ThreadTypes /\ NetworkTypes /\ ProcessTypes
BY DEF TypeOK, DeviceTypes, ThreadTypes, NetworkTypes, ProcessTypes, Bytes, Points, Places

LEMMA TypeInit == Init => TypeOK
<1> SUFFICES ASSUME Init
             PROVE  TypeOK
  OBVIOUS
<1>1. DeviceTypes
  <2>1. /\ log = <<>> /\ partial = <<>> /\ f_pos = [t \in Threads |-> 0]
        /\ got = [t \in Threads |-> <<>>]
    BY DEF Init
  <2>2. <<>> \in Seq(Strings) /\ Len(<<>>) = 0 /\ MaxOps \in Nat
    BY EmptySeq, DeviceAssumption
  <2>3. QED
    BY <2>1, <2>2, RequestTypes DEF DeviceTypes
<1>2. ThreadTypes
  <2>1. Zeros \in [1 .. BufferSize -> Bytes]
    BY DEF Zeros, Bytes
  <2>2. QED
    BY <2>1, RequestTypes DEF Init, ThreadTypes, Points
<1>3. NetworkTypes
  <2>1. Request \in [Clients -> Strings]
    BY RequestAssumption
  <2>2. QED
    BY <2>1, RequestTypes DEF Init, NetworkTypes
<1>4. ProcessTypes
  <2>1. <<>> \in Seq(Threads) /\ NoClient \in Threads /\ 0 \in 0 .. MaxSignals
    BY EmptySeq, BufferAssumption DEF Threads
  <2>2. QED
    BY <2>1 DEF Init, ProcessTypes, Places
<1>5. QED
  BY <1>1, <1>2, <1>3, <1>4, TypeParts

(* The buffer of a thread, and what it makes of it.                        *)
LEMMA TypeRecv ==
  ASSUME TypeOK, NEW t \in Threads, Recv(t)
  PROVE  ThreadTypes' /\ NetworkTypes'
<1>1. /\ ThreadTypes /\ NetworkTypes /\ pc' = [pc EXCEPT ![t] = "fopen"]
      /\ UNCHANGED <<line, stack, conn, answer, todo, backlog>>
  BY TypeParts DEF Recv, ThreadStep
<1>2. pc' \in [Threads -> Points]
  BY <1>1 DEF ThreadTypes, Points
<1>3. CASE t = NoClient
  <2>1. UNCHANGED <<buf, sent>> /\ \E x \in Texts(<<>>) : text' = [text EXCEPT ![t] = x]
    BY <1>3 DEF Recv
  <2>2. \A x \in Texts(<<>>) : x \in Strings
    BY TextsType, EmptySeq
  <2>3. text' \in [Threads -> Strings]
    BY <1>1, <2>1, <2>2 DEF ThreadTypes
  <2>4. QED
    BY <1>1, <1>2, <2>1, <2>3 DEF ThreadTypes, NetworkTypes
<1>4. CASE t # NoClient
  <2> DEFINE n == Min({Len(sent[t]), BufferSize - 1})
             b == [i \in 1 .. BufferSize |-> IF i <= n THEN sent[t][i] ELSE buf[t][i]]
             h == SubSeq(b, 1, n + 1)
  <2>1. /\ sent' = [sent EXCEPT ![t] = SubSeq(sent[t], n + 1, Len(sent[t]))]
        /\ buf' = [buf EXCEPT ![t] = b]
        /\ \E x \in Texts(h) : text' = [text EXCEPT ![t] = x]
    BY <1>4 DEF Recv
  <2>2. t \in Clients /\ sent[t] \in Seq(Stored) /\ Len(sent[t]) \in Nat
    BY <1>1, <1>4, LenProperties DEF NetworkTypes, Threads, Strings
  <2>3. n \in Nat /\ n <= Len(sent[t]) /\ n + 1 <= BufferSize /\ BufferSize \in Nat
    <3> DEFINE T == {Len(sent[t]), BufferSize - 1}
    <3>1. T \subseteq Nat /\ T # {}
      BY <2>2, BufferAssumption
    <3>2. Min(T) \in T /\ \A y \in T : Min(T) <= y
      BY <3>1, MinOfNaturals
    <3> HIDE DEF n
    <3>3. n \in T /\ n <= Len(sent[t]) /\ n <= BufferSize - 1
      BY <3>2 DEF n
    <3>4. QED
      BY <2>2, <3>3, BufferAssumption
  <2> HIDE DEF n
  <2>4. b \in [1 .. BufferSize -> Bytes]
    <3>1. \A i \in 1 .. BufferSize : i <= n => sent[t][i] \in Stored
      BY <2>2, <2>3, ElementOfSeq
    <3>2. buf[t] \in [1 .. BufferSize -> Bytes]
      BY <1>1 DEF ThreadTypes
    <3>3. QED
      BY <3>1, <3>2 DEF Bytes
  <2> HIDE DEF b
  <2>5. h \in Seq(Stored \cup {NUL})
    <3>1. \A i \in 1 .. n + 1 : b[i] \in Bytes
      BY <2>3, <2>4
    <3>2. 1 \in Int /\ n + 1 \in Int
      BY <2>3
    <3>3. QED
      BY <3>1, <3>2, SubSeqProperties DEF Bytes
  <2> HIDE DEF h
  <2>6. text' \in [Threads -> Strings]
    <3>1. \A x \in Texts(h) : x \in Strings
      BY <2>5, TextsType
    <3>2. QED
      BY <1>1, <2>1, <3>1 DEF ThreadTypes
  <2>7. buf' \in [Threads -> [1 .. BufferSize -> Bytes]]
    BY <1>1, <2>1, <2>4 DEF ThreadTypes
  <2>8. sent' \in [Clients -> Strings]
    <3>1. SubSeq(sent[t], n + 1, Len(sent[t])) \in Strings
      BY <2>2, <2>3, PieceType DEF Strings
    <3>2. QED
      BY <1>1, <2>1, <3>1 DEF NetworkTypes
  <2>9. QED
    BY <1>1, <1>2, <2>6, <2>7, <2>8 DEF ThreadTypes, NetworkTypes
<1>5. QED
  BY <1>3, <1>4

(* The request, and what the device makes of it.                           *)
LEMMA TypeRequest ==
  ASSUME TypeOK, NEW t \in Threads, MakeRequest(t)
  PROVE  DeviceTypes'
<1>1. DeviceTypes /\ text[t] \in Strings
  BY TypeParts DEF ThreadTypes
<1>2. \/ UNCHANGED device
      \/ Head(text[t]) \in SeekTos /\ Device!SeekTo(t, Head(text[t]))
      \/ Device!Write(text[t])
  BY DEF MakeRequest
<1>3. CASE UNCHANGED device
  BY <1>1, <1>3 DEF device, DeviceTypes
<1>4. CASE Head(text[t]) \in SeekTos /\ Device!SeekTo(t, Head(text[t]))
  BY <1>1, <1>4, SeekToType DEF DeviceTypes
<1>5. CASE Device!Write(text[t])
  <2>1. UNCHANGED <<f_pos, got>>
    BY <1>5 DEF Device!Write
  <2>2. QED
    BY <1>1, <1>5, <2>1, WriteType DEF DeviceTypes
<1>6. QED
  BY <1>2, <1>3, <1>4, <1>5

(* The reading of the answer.                                              *)
LEMMA TypeUnderflow ==
  ASSUME TypeOK, NEW t \in Threads, Underflow(t)
  PROVE  DeviceTypes'
<1> DEFINE count == Len(FlattenSeq(log))
           s == Device!Served(f_pos[t], count)
<1>1. DeviceTypes /\ f_pos[t] \in Nat
  BY TypeParts DEF DeviceTypes
<1>2. /\ got' = [got EXCEPT ![t] = s] /\ f_pos' = [f_pos EXCEPT ![t] = @ + Len(s)]
      /\ UNCHANGED <<log, partial>>
  BY DEF Underflow, Device!Read
<1>3. count \in Nat \ {0}
  <2>1. Device!Served(f_pos[t], 1) # <<>>
    BY DEF Underflow, AtEnd
  <2>2. ~(f_pos[t] >= Len(Contents))
    BY <1>1, <2>1, ServedIs DEF DeviceTypes
  <2>3. Len(Contents) \in Nat
    BY <1>1, DeviceStart DEF DeviceTypes
  <2>4. QED
    BY <1>1, <2>2, <2>3 DEF Contents
<1> HIDE DEF count
<1>4. s \in Strings /\ Len(s) \in Nat
  BY <1>1, <1>3, ServedType DEF DeviceTypes
<1> HIDE DEF s
<1>5. QED
  BY <1>1, <1>2, <1>4 DEF DeviceTypes

(* What fgets has of a line fits into the buffer of the thread, with the   *)
(* byte behind it.                                                         *)
LinesFit == \A t \in Threads : Len(line[t]) < BufferSize

LEMMA TakeEffect ==
  ASSUME TypeOK, LinesFit, NEW t \in Threads, Take(t)
  PROVE  \E n \in Nat \ {0} :
           /\ n <= Len(got[t]) /\ Len(line[t]) + n < BufferSize
           /\ line' = [line EXCEPT ![t] = line[t] \o SubSeq(got[t], 1, n)]
           /\ got' = [got EXCEPT ![t] = SubSeq(got[t], n + 1, Len(got[t]))]
<1> DEFINE ends == {i \in 1 .. Len(got[t]) : got[t][i] = NL}
           room == BufferSize - 1 - Len(line[t])
           T == ends \cup {Len(got[t]), room}
           n == Min(T)
<1>1. /\ line' = [line EXCEPT ![t] = line[t] \o SubSeq(got[t], 1, n)]
      /\ got' = [got EXCEPT ![t] = SubSeq(got[t], n + 1, Len(got[t]))]
  BY DEF Take
<1>2. got[t] \in Seq(Stored) /\ line[t] \in Seq(Stored) /\ got[t] # <<>>
  BY TypeParts DEF DeviceTypes, ThreadTypes, Strings, Take
<1>3. Len(got[t]) \in Nat \ {0} /\ Len(line[t]) \in Nat
  BY <1>2, EmptySeq, LenProperties
<1>4. room \in Nat \ {0}
  <2>1. Len(line[t]) < BufferSize
    BY DEF LinesFit
  <2>2. Len(line[t]) # BufferSize - 1
    <3>1. CASE line[t] = <<>>
      BY <3>1, BufferAssumption
    <3>2. CASE line[t] # <<>>
      BY <3>2 DEF Take, LineEnds
    <3>3. QED
      BY <3>1, <3>2
  <2>3. QED
    BY <1>3, <2>1, <2>2, BufferAssumption
<1>5. T \subseteq Nat \ {0} /\ T # {}
  BY <1>3, <1>4
<1>6. n \in T /\ \A y \in T : n <= y
  BY <1>5, MinOfNaturals
<1>7. Len(got[t]) \in T /\ room \in T /\ Len(line[t]) + room < BufferSize
  BY <1>3, BufferAssumption
<1> HIDE DEF n, room, T
<1>8. n \in Nat \ {0} /\ n <= Len(got[t]) /\ n <= room
  BY <1>5, <1>6, <1>7
<1>9. Len(line[t]) + n < BufferSize
  <2>1. room \in Nat /\ BufferSize \in Nat
    BY <1>4, BufferAssumption
  <2>2. QED
    BY <1>3, <1>7, <1>8, <2>1
<1>10. QED
  BY <1>1, <1>8, <1>9

LEMMA TypeTake ==
  ASSUME TypeOK, LinesFit, NEW t \in Threads, Take(t)
  PROVE  DeviceTypes' /\ line' \in [Threads -> Strings] /\ LinesFit'
<1>1. DeviceTypes /\ line \in [Threads -> Strings]
  BY TypeParts DEF ThreadTypes
<1>2. UNCHANGED <<log, partial, f_pos>>
  BY DEF Take
<1>3. PICK n \in Nat \ {0} :
           /\ n <= Len(got[t]) /\ Len(line[t]) + n < BufferSize
           /\ line' = [line EXCEPT ![t] = line[t] \o SubSeq(got[t], 1, n)]
           /\ got' = [got EXCEPT ![t] = SubSeq(got[t], n + 1, Len(got[t]))]
  BY TakeEffect
<1> DEFINE g == got[t]
           l == line[t]
           x == SubSeq(g, 1, n)
           y == SubSeq(g, n + 1, Len(g))
<1>4. g \in Seq(Stored) /\ l \in Seq(Stored) /\ Len(g) \in Nat /\ Len(l) \in Nat
  BY <1>1, LenProperties DEF DeviceTypes, Strings
<1>5. x \in Seq(Stored) /\ Len(x) = n /\ y \in Seq(Stored)
  BY <1>3, <1>4, PieceType
<1>6. l \o x \in Seq(Stored) /\ Len(l \o x) = Len(l) + n
  BY <1>4, <1>5, ConcatProperties
<1>7. line' = [line EXCEPT ![t] = l \o x] /\ got' = [got EXCEPT ![t] = y] /\ Len(l \o x) < BufferSize
  BY <1>3, <1>6
<1> HIDE DEF l, x, y, g
<1>8. got' \in [Threads -> Strings] /\ line' \in [Threads -> Strings]
  BY <1>1, <1>5, <1>6, <1>7 DEF DeviceTypes, Strings
<1>9. LinesFit'
  BY <1>1, <1>7 DEF LinesFit
<1>10. QED
  BY <1>1, <1>2, <1>8, <1>9 DEF DeviceTypes

LEMMA TypeSendLine ==
  ASSUME TypeOK, LinesFit, NEW t \in Threads, SendLine(t)
  PROVE  /\ line' = [line EXCEPT ![t] = <<>>] /\ buf' \in [Threads -> [1 .. BufferSize -> Bytes]]
         /\ answer' \in [Clients -> Strings] /\ main' \in {main, "killed"}
<1> DEFINE n == Len(line[t])
           b == [i \in 1 .. BufferSize |-> IF i <= n THEN line[t][i]
                                           ELSE IF i = n + 1 THEN NUL ELSE buf[t][i]]
<1>1. /\ buf \in [Threads -> [1 .. BufferSize -> Bytes]] /\ line[t] \in Seq(Stored)
      /\ answer \in [Clients -> Strings]
  BY TypeParts DEF ThreadTypes, NetworkTypes, Strings
<1>2. buf' = [buf EXCEPT ![t] = b] /\ line' = [line EXCEPT ![t] = <<>>]
  BY DEF SendLine
<1>3. b \in [1 .. BufferSize -> Bytes]
  <2>1. n \in Nat /\ \A i \in 1 .. BufferSize : i <= n => line[t][i] \in Stored
    BY <1>1, ElementOfSeq, LenProperties
  <2>2. buf[t] \in [1 .. BufferSize -> Bytes]
    BY <1>1
  <2>3. QED
    BY <2>1, <2>2 DEF Bytes
<1> HIDE DEF b
<1>4. CASE t # NoClient /\ conn[t] = "open"
  <2>1. answer' = [answer EXCEPT ![t] = answer[t] \o line[t]] /\ main' = main /\ t \in Clients
    BY <1>4 DEF SendLine, Threads
  <2>2. answer[t] \in Seq(Stored)
    BY <1>1, <2>1 DEF Strings
  <2>3. answer[t] \o line[t] \in Strings
    BY <1>1, <2>2, ConcatProperties DEF Strings
  <2>4. QED
    BY <1>1, <1>2, <1>3, <2>1, <2>3
<1>5. CASE ~(t # NoClient /\ conn[t] = "open")
  <2>1. answer' = answer /\ main' \in {main, "killed"}
    BY <1>5 DEF SendLine
  <2>2. QED
    BY <1>1, <1>2, <1>3, <2>1
<1>6. QED
  BY <1>4, <1>5

LEMMA TypeThread ==
  ASSUME TypeOK, LinesFit, NEW t \in Threads, threadFunc(t)
  PROVE  TypeOK' /\ LinesFit'
<1>1. DeviceTypes /\ ThreadTypes /\ NetworkTypes /\ ProcessTypes
  BY TypeParts
<1>2. ASSUME NEW to \in Points, NEW from, ThreadStep(t, from, to)
      PROVE  /\ pc' \in [Threads -> Points] /\ (main' \in {main, "killed"} => ProcessTypes')
             /\ UNCHANGED <<todo, backlog>>
  BY <1>1, <1>2 DEF ThreadStep, ThreadTypes, ProcessTypes, Places
<1>3. ASSUME UNCHANGED line
      PROVE  LinesFit'
  BY <1>3 DEF LinesFit
<1>4. CASE Recv(t)
  <2>1. ProcessTypes' /\ UNCHANGED <<device, line>>
    BY <1>2, <1>4 DEF Recv, Points
  <2>2. DeviceTypes'
    BY <1>1, <2>1 DEF device, DeviceTypes
  <2>3. ThreadTypes' /\ NetworkTypes' /\ LinesFit'
    BY <1>3, <1>4, <2>1, TypeRecv
  <2>4. QED
    BY <2>1, <2>2, <2>3, TypeParts, PTL
<1>5. ASSUME pc' \in [Threads -> Points], ProcessTypes', DeviceTypes',
             line' \in [Threads -> Strings], buf' \in [Threads -> [1 .. BufferSize -> Bytes]],
             answer' \in [Clients -> Strings],
             conn' \in [Clients -> {"off", "open", "gone", "closed"}],
             stack' \in [1 .. BufferSize -> Bytes], UNCHANGED <<text, sent, todo, backlog>>
      PROVE  TypeOK'
  <2>1. ThreadTypes'
    BY <1>1, <1>5 DEF ThreadTypes
  <2>2. NetworkTypes'
    BY <1>1, <1>5 DEF NetworkTypes
  <2>3. QED
    BY <1>5, <2>1, <2>2, TypeParts, PTL
<1>6. CASE Fopen(t)
  <2>1. pc' \in [Threads -> Points] /\ ProcessTypes' /\ UNCHANGED <<todo, backlog>>
    BY <1>2, <1>6 DEF Fopen, Points
  <2>2. DeviceTypes'
    BY <1>1, <1>6, RequestTypes DEF Fopen, Device!Open, DeviceTypes
  <2>3. QED
    BY <1>1, <1>3, <1>5, <1>6, <2>1, <2>2 DEF Fopen, ThreadTypes, NetworkTypes
<1>7. CASE MakeRequest(t)
  <2>1. pc' \in [Threads -> Points] /\ ProcessTypes' /\ UNCHANGED <<todo, backlog>>
    BY <1>2, <1>7 DEF MakeRequest, Points
  <2>2. buf' \in [Threads -> [1 .. BufferSize -> Bytes]]
    <3>1. Zeros \in [1 .. BufferSize -> Bytes]
      BY DEF Zeros, Bytes
    <3>2. QED
      BY <1>1, <1>7, <3>1 DEF MakeRequest, ThreadTypes
  <2>3. DeviceTypes'
    BY <1>7, TypeRequest
  <2>4. QED
    BY <1>1, <1>3, <1>5, <1>7, <2>1, <2>2, <2>3 DEF MakeRequest, ThreadTypes, NetworkTypes
<1>8. CASE Underflow(t)
  <2>1. pc' \in [Threads -> Points] /\ ProcessTypes' /\ UNCHANGED <<todo, backlog>>
    BY <1>2, <1>8 DEF Underflow, Points
  <2>2. DeviceTypes'
    BY <1>8, TypeUnderflow
  <2>3. QED
    BY <1>1, <1>3, <1>5, <1>8, <2>1, <2>2 DEF Underflow, ThreadTypes, NetworkTypes
<1>9. CASE Take(t)
  <2>1. pc' \in [Threads -> Points] /\ ProcessTypes' /\ UNCHANGED <<todo, backlog>>
    BY <1>2, <1>9 DEF Take, Points
  <2>2. DeviceTypes' /\ line' \in [Threads -> Strings] /\ LinesFit'
    BY <1>9, TypeTake
  <2>3. QED
    BY <1>1, <1>5, <1>9, <2>1, <2>2 DEF Take, ThreadTypes, NetworkTypes
<1>10. CASE SendLine(t)
  <2>1. /\ line' = [line EXCEPT ![t] = <<>>] /\ buf' \in [Threads -> [1 .. BufferSize -> Bytes]]
        /\ answer' \in [Clients -> Strings] /\ main' \in {main, "killed"}
    BY <1>10, TypeSendLine
  <2>2. pc' \in [Threads -> Points] /\ ProcessTypes' /\ UNCHANGED <<todo, backlog>>
    BY <1>2, <1>10, <2>1 DEF SendLine, Points
  <2>3. DeviceTypes'
    BY <1>1, <1>10 DEF SendLine, device, DeviceTypes
  <2>4. line' \in [Threads -> Strings] /\ LinesFit'
    <3>1. \A u \in Threads : line'[u] = IF u = t THEN <<>> ELSE line[u]
      BY <1>1, <2>1 DEF ThreadTypes
    <3>2. Len(<<>>) = 0
      OBVIOUS
    <3>3. LinesFit'
      BY <3>1, <3>2, BufferAssumption DEF LinesFit
    <3>4. QED
      BY <1>1, <2>1, <3>3, RequestTypes DEF ThreadTypes
  <2>5. QED
    BY <1>1, <1>5, <1>10, <2>1, <2>2, <2>3, <2>4 DEF SendLine, ThreadTypes, NetworkTypes
<1>11. CASE Close(t)
  <2>1. pc' \in [Threads -> Points] /\ ProcessTypes' /\ UNCHANGED <<todo, backlog>>
    BY <1>2, <1>11 DEF Close, Points
  <2>2. DeviceTypes'
    BY <1>1, <1>11 DEF Close, device, DeviceTypes
  <2>3. /\ conn' \in [Clients -> {"off", "open", "gone", "closed"}]
        /\ stack' \in [1 .. BufferSize -> Bytes]
    BY <1>1, <1>11 DEF Close, ThreadTypes, NetworkTypes
  <2>4. QED
    BY <1>1, <1>3, <1>5, <1>11, <2>1, <2>2, <2>3 DEF Close, ThreadTypes, NetworkTypes
<1>12. QED
  BY <1>4, <1>6, <1>7, <1>8, <1>9, <1>10, <1>11 DEF threadFunc

LEMMA TypeMain ==
  ASSUME TypeOK, ServerInv, MainThread
  PROVE  TypeOK'
<1>1. DeviceTypes /\ ThreadTypes /\ NetworkTypes /\ ProcessTypes
  BY TypeParts
<1>2. ASSUME NEW from, NEW to \in Places, MainStep(from, to),
             pc' \in [Threads -> Points], buf' \in [Threads -> [1 .. BufferSize -> Bytes]],
             conn' \in [Clients -> {"off", "open", "gone", "closed"}], backlog' \in Seq(Clients),
             listener' \in {"bound", "listening", "closed"}, socket_client' \in Threads,
             head' \in Seq(Threads)
      PROVE  TypeOK'
  <2>1. DeviceTypes'
    BY <1>1, <1>2 DEF MainStep, device, DeviceTypes
  <2>2. ThreadTypes'
    BY <1>1, <1>2 DEF MainStep, ThreadTypes
  <2>3. NetworkTypes'
    BY <1>1, <1>2 DEF MainStep, NetworkTypes
  <2>4. ProcessTypes'
    BY <1>1, <1>2 DEF MainStep, ProcessTypes
  <2>5. QED
    BY <2>1, <2>2, <2>3, <2>4, TypeParts, PTL
<1> USE DEF Places
<1>3. /\ pc \in [Threads -> Points] /\ buf \in [Threads -> [1 .. BufferSize -> Bytes]]
      /\ stack \in [1 .. BufferSize -> Bytes]
      /\ conn \in [Clients -> {"off", "open", "gone", "closed"}] /\ backlog \in Seq(Clients)
      /\ listener \in {"bound", "listening", "closed"} /\ socket_client \in Threads
      /\ head \in Seq(Threads)
  BY <1>1 DEF ThreadTypes, NetworkTypes, ProcessTypes
<1>4. CASE Check
  BY <1>2, <1>3, <1>4 DEF Check
<1>5. CASE Listen
  BY <1>2, <1>3, <1>5 DEF Listen
<1>6. CASE Accept
  <2>1. backlog # <<>> => Head(backlog) \in Clients /\ Tail(backlog) \in Seq(Clients)
    BY <1>3, HeadTailProperties
  <2>2. socket_client' \in Threads /\ backlog' \in Seq(Clients)
    BY <1>3, <1>6, <2>1 DEF Accept, Threads
  <2>3. QED
    BY <1>2, <1>3, <1>6, <2>2 DEF Accept
<1>7. CASE Create
  <2>1. head' \in Seq(Threads)
    <3>1. <<socket_client>> \in Seq(Threads)
      BY <1>3
    <3>2. QED
      BY <1>3, <1>7, <3>1, ConcatProperties DEF Create
  <2>2. Zeros \in [1 .. BufferSize -> Bytes]
    BY DEF Zeros, Bytes
  <2>3. buf' \in [Threads -> [1 .. BufferSize -> Bytes]] /\ pc' \in [Threads -> Points]
    BY <1>3, <1>7, <2>2 DEF Create, Points
  <2>4. QED
    BY <1>2, <1>3, <1>7, <2>1, <2>3 DEF Create
<1>8. CASE Join
  <2>1. head = <<socket_client>>
    BY <1>8 DEF Join, MainStep, ServerInv, OneNode
  <2>2. Head(head) = socket_client /\ Tail(head) = <<>>
    BY <2>1
  <2>3. head' \in Seq(Threads) /\ pc' \in [Threads -> Points]
    BY <1>3, <1>8, <2>2, EmptySeq DEF Join, Points
  <2>4. QED
    BY <1>2, <1>3, <1>8, <2>3 DEF Join
<1>9. CASE CloseServer
  <2>1. backlog' \in Seq(Clients) /\ conn' \in [Clients -> {"off", "open", "gone", "closed"}]
    BY <1>3, <1>9, EmptySeq DEF CloseServer, BacklogReset
  <2>2. QED
    BY <1>2, <1>3, <1>9, <2>1 DEF CloseServer
<1>10. CASE JoinTimerAndExit
  BY <1>2, <1>3, <1>10 DEF JoinTimerAndExit
<1>11. QED
  BY <1>4, <1>5, <1>6, <1>7, <1>8, <1>9, <1>10 DEF MainThread

LEMMA TypeNext == TypeOK /\ LinesFit /\ ServerInv /\ [Next]_vars => TypeOK' /\ LinesFit'
<1> SUFFICES ASSUME TypeOK, LinesFit, ServerInv, [Next]_vars
             PROVE  TypeOK' /\ LinesFit'
  OBVIOUS
<1>1. DeviceTypes /\ ThreadTypes /\ NetworkTypes /\ ProcessTypes
  BY TypeParts
<1>2. ASSUME UNCHANGED <<device, thread>>, NetworkTypes', ProcessTypes'
      PROVE  TypeOK' /\ LinesFit'
  <2>1. DeviceTypes' /\ ThreadTypes'
    BY <1>1, <1>2 DEF device, thread, DeviceTypes, ThreadTypes
  <2>2. LinesFit'
    BY <1>2 DEF thread, LinesFit
  <2>3. QED
    BY <1>2, <2>1, <2>2, TypeParts, PTL
<1>3. ASSUME UNCHANGED process, UNCHANGED signals
      PROVE  ProcessTypes'
  BY <1>1, <1>3 DEF process, ProcessTypes
<1>4. ASSUME NEW c \in Clients, Connect(c)
      PROVE  TypeOK' /\ LinesFit'
  <2>1. backlog' \in Seq(Clients)
    BY <1>1, <1>4, AppendProperties DEF Connect, NetworkTypes
  <2>2. NetworkTypes'
    BY <1>1, <1>4, <2>1 DEF Connect, NetworkTypes
  <2>3. QED
    BY <1>2, <1>3, <1>4, <2>2 DEF Connect
<1>5. ASSUME NEW c \in Clients, Send(c)
      PROVE  TypeOK' /\ LinesFit'
  <2>1. todo[c] \in Seq(Stored) /\ sent[c] \in Seq(Stored) /\ Len(todo[c]) \in Nat
    BY <1>1, LenProperties DEF NetworkTypes, Strings
  <2>2. PICK n \in 1 .. Len(todo[c]) :
          /\ sent' = [sent EXCEPT ![c] = sent[c] \o SubSeq(todo[c], 1, n)]
          /\ todo' = [todo EXCEPT ![c] = SubSeq(todo[c], n + 1, Len(todo[c]))]
    <3>1. Len(todo[c]) \in 1 .. Len(todo[c])
      BY <1>5, <2>1, EmptySeq DEF Send
    <3>2. QED
      BY <1>5, <3>1 DEF Send
  <2>3. /\ SubSeq(todo[c], 1, n) \in Seq(Stored)
        /\ SubSeq(todo[c], n + 1, Len(todo[c])) \in Strings
    BY <2>1, <2>2, PieceType DEF Strings
  <2>4. sent[c] \o SubSeq(todo[c], 1, n) \in Strings
    BY <2>1, <2>3, ConcatProperties DEF Strings
  <2>5. sent' \in [Clients -> Strings] /\ todo' \in [Clients -> Strings]
    BY <1>1, <2>2, <2>3, <2>4 DEF NetworkTypes
  <2>6. NetworkTypes'
    BY <1>1, <1>5, <2>5 DEF Send, NetworkTypes
  <2>7. QED
    BY <1>2, <1>3, <1>5, <2>6 DEF Send
<1>6. ASSUME NEW c \in Clients, Leave(c)
      PROVE  TypeOK' /\ LinesFit'
  <2>1. NetworkTypes'
    BY <1>1, <1>6 DEF Leave, NetworkTypes
  <2>2. QED
    BY <1>2, <1>3, <1>6, <2>1 DEF Leave
<1>7. ASSUME NEW t \in Threads, threadFunc(t)
      PROVE  TypeOK' /\ LinesFit'
  BY <1>7, TypeThread
<1>8. CASE MainThread
  <2>1. UNCHANGED line
    BY <1>8 DEF MainThread, Check, Listen, Accept, Create, Join, CloseServer, JoinTimerAndExit,
                MainStep
  <2>2. QED
    BY <1>8, <2>1, TypeMain DEF LinesFit
<1>9. ASSUME UNCHANGED network
      PROVE  NetworkTypes'
  BY <1>1, <1>9 DEF network, NetworkTypes
<1>10. CASE timestamp
  <2>1. timer' \in {"check", "sleep", "ended"}
    BY <1>10 DEF timestamp
  <2>2. ProcessTypes'
    BY <1>1, <1>10, <2>1 DEF timestamp, ProcessTypes
  <2>3. QED
    BY <1>2, <1>9, <1>10, <2>2 DEF timestamp
<1>11. CASE Signal
  <2>1. signals' \in 0 .. MaxSignals
    BY <1>1, <1>11, BufferAssumption DEF Signal, ProcessTypes
  <2>2. handler' \in [in : {"main", "timer"} \cup Threads, at : {"shutdown", "set"}]
    BY <1>11 DEF Signal
  <2>3. ProcessTypes'
    BY <1>1, <1>11, <2>1, <2>2 DEF Signal, ProcessTypes
  <2>4. QED
    BY <1>2, <1>9, <1>11, <2>3 DEF Signal
<1>12. CASE HandlerShutdown
  <2>1. handler \in [in : {"main", "timer"} \cup Threads, at : {"shutdown", "set"}]
    BY <1>1, <1>12 DEF HandlerShutdown, ProcessTypes, NoHandler
  <2>2. handler' \in [in : {"main", "timer"} \cup Threads, at : {"shutdown", "set"}]
    BY <1>12, <2>1 DEF HandlerShutdown
  <2>3. ProcessTypes'
    BY <1>1, <1>12, <2>2 DEF HandlerShutdown, ProcessTypes
  <2>4. NetworkTypes'
    BY <1>1, <1>12, EmptySeq DEF HandlerShutdown, BacklogReset, NetworkTypes
  <2>5. QED
    BY <1>2, <1>12, <2>3, <2>4 DEF HandlerShutdown
<1>13. CASE HandlerSet
  <2>1. ProcessTypes'
    BY <1>1, <1>13 DEF HandlerSet, ProcessTypes
  <2>2. QED
    BY <1>2, <1>9, <1>13, <2>1 DEF HandlerSet
<1>14. CASE UNCHANGED vars
  BY <1>2, <1>3, <1>9, <1>14 DEF vars
<1>15. QED
  BY <1>4, <1>5, <1>6, <1>7, <1>8, <1>10, <1>11, <1>12, <1>13, <1>14 DEF Next, signal_handler

(* The types, for any number of clients, requests of any length and any    *)
(* buffers: in particular no line of an answer is longer than the buffer   *)
(* of its thread.                                                          *)
THEOREM ServerTypeCorrect == Spec => []TypeOK
<1>1. Init => LinesFit
  <2>1. Len(<<>>) = 0
    OBVIOUS
  <2>2. QED
    BY <2>1, BufferAssumption DEF Init, LinesFit
<1>2. QED
  BY <1>1, TypeInit, TypeNext, ServerInvInit, ServerInvNext, PTL DEF Spec


-----------------------------------------------------------------------------
(* A client is accepted at most once: it is in the backlog, then in        *)
(* socket_client, then there is its thread.                                *)
Unaccepted(c) ==
  \/ conn[c] = "off" \/ c \in ToSet(backlog) \/ (main = "create" /\ socket_client = c)

AcceptedOnce ==
  /\ \A i, j \in DOMAIN backlog : i # j => backlog[i] # backlog[j]
  /\ \A c \in Clients :
       /\ c \in ToSet(backlog) => conn[c] # "off" /\ ~(main = "create" /\ socket_client = c)
       /\ main = "create" /\ socket_client = c => conn[c] # "off"
       /\ pc[c] # "none" => ~Unaccepted(c)

(* What a thread knows of the request and the answer of its client c.      *)
Unread(c) == Unaccepted(c) \/ pc[c] = "recv"

RequestsKept ==
  \A c \in Clients :
    /\ Unread(c) => answer[c] = <<>> /\ sent[c] \o todo[c] = Request[c]
    /\ pc[c] \in {"fopen", "request"} =>
         /\ answer[c] = <<>>
         /\ conn[c] = "open" => IF Head(Request[c]) = NUL THEN text[c] = <<>>
                                ELSE text[c] # <<>> /\ Head(text[c]) = Head(Request[c])

FilesKept ==
  \A t \in Threads :
    /\ pc[t] # "fgets" => line[t] = <<>>
    /\ pc[t] = "request" => f_pos[t] = 0 /\ got[t] = <<>>

(* What the client has, the line and what stdio holds are all there is up  *)
(* to the position of the file.                                            *)
AnswerSoFar ==
  \A c \in Clients :
    pc[c] = "fgets" /\ conn[c] = "open" =>
      /\ From(Head(Request[c])) <= f_pos[c] /\ f_pos[c] <= Len(Contents)
      /\ (answer[c] \o line[c]) \o got[c] = SubSeq(Contents, From(Head(Request[c])) + 1, f_pos[c])

AnswerInv == AcceptedOnce /\ RequestsKept /\ FilesKept /\ AnswerSoFar

SockInv == TypeOK /\ LinesFit /\ ServerInv

(* The steps that accept nobody and make no connection.                    *)
Calm ==
  /\ backlog' \in {backlog, <<>>}
  /\ main' = "create" => main = "create" /\ socket_client' = socket_client
  /\ \A c \in Clients : /\ conn'[c] = "off" <=> conn[c] = "off"
                        /\ pc'[c] # "none" => pc[c] # "none"
                        /\ pc'[c] = "recv" => pc[c] = "recv"

NobodyTwice ==
  \A c \in Clients : (Unaccepted(c)' => Unaccepted(c)) /\ (Unread(c)' => Unread(c))

LEMMA CalmKeeps ==
  ASSUME AcceptedOnce, Calm
  PROVE  AcceptedOnce' /\ NobodyTwice
<1>1. DOMAIN <<>> = {} /\ ToSet(<<>>) = {}
  BY DEF ToSet
<1>2. ToSet(backlog') \subseteq ToSet(backlog)
  BY <1>1 DEF Calm
<1>3. \A i, j \in DOMAIN backlog' : i # j => backlog'[i] # backlog'[j]
  BY <1>1 DEF Calm, AcceptedOnce
<1>4. \A c \in Clients : Unaccepted(c)' => Unaccepted(c)
  BY <1>2 DEF Calm, Unaccepted
<1>5. \A c \in Clients : Unread(c)' => Unread(c)
  BY <1>4 DEF Calm, Unread
<1>6. AcceptedOnce'
  BY <1>2, <1>3, <1>4 DEF Calm, AcceptedOnce
<1>7. QED
  BY <1>4, <1>5, <1>6 DEF NobodyTwice

LEMMA AcceptedNext ==
  ASSUME SockInv, AcceptedOnce, [Next]_vars
  PROVE  AcceptedOnce' /\ NobodyTwice
<1> DEFINE Goal == AcceptedOnce' /\ NobodyTwice
<1>1. /\ backlog \in Seq(Clients) /\ Len(backlog) \in Nat /\ DOMAIN backlog = 1 .. Len(backlog)
      /\ conn \in [Clients -> {"off", "open", "gone", "closed"}] /\ pc \in [Threads -> Points]
      /\ Clients \subseteq Threads
  BY TypeParts, LenProperties DEF SockInv, NetworkTypes, ThreadTypes, Threads
<1>2. Calm => Goal
  BY CalmKeeps
<1>3. ASSUME NEW c \in Clients, Connect(c)
      PROVE  Goal
  <2>1. /\ conn[c] = "off" /\ conn' = [conn EXCEPT ![c] = "open"] /\ backlog' = Append(backlog, c)
        /\ UNCHANGED <<main, socket_client, pc>>
    BY <1>3 DEF Connect, thread, process
  <2>2. c \notin ToSet(backlog) /\ Unaccepted(c) /\ pc[c] = "none"
        /\ ~(main = "create" /\ socket_client = c)
    BY <2>1 DEF AcceptedOnce, Unaccepted
  <2>3. /\ Len(backlog') = Len(backlog) + 1 /\ DOMAIN backlog' = 1 .. Len(backlog) + 1
        /\ \A i \in 1 .. Len(backlog) : backlog'[i] = backlog[i]
        /\ backlog'[Len(backlog) + 1] = c
    BY <1>1, <2>1, AppendProperties, LenProperties
  <2>4. \A i \in DOMAIN backlog : backlog[i] # c
    BY <2>2 DEF ToSet
  <2>5. \A i, j \in DOMAIN backlog' : i # j => backlog'[i] # backlog'[j]
    BY <1>1, <2>3, <2>4 DEF AcceptedOnce
  <2>6. \A e \in ToSet(backlog') : e = c \/ e \in ToSet(backlog)
    <3>1. \A i \in DOMAIN backlog' : backlog'[i] = c \/ i \in DOMAIN backlog
      BY <1>1, <2>3
    <3>2. \A i \in DOMAIN backlog : backlog'[i] = backlog[i]
      BY <1>1, <2>3
    <3>3. QED
      BY <3>1, <3>2 DEF ToSet
  <2>7. \A e \in Clients : conn'[e] = IF e = c THEN "open" ELSE conn[e]
    BY <1>1, <2>1
  <2>8. \A e \in Clients : Unaccepted(e)' => Unaccepted(e)
    BY <2>1, <2>2, <2>6, <2>7 DEF Unaccepted
  <2>9. \A e \in Clients : Unread(e)' => Unread(e)
    BY <2>1, <2>8 DEF Unread
  <2>10. AcceptedOnce'
    BY <2>1, <2>2, <2>5, <2>6, <2>7, <2>8 DEF AcceptedOnce
  <2>11. QED
    BY <2>8, <2>9, <2>10 DEF NobodyTwice
<1>4. ASSUME NEW c \in Clients, Send(c) \/ Leave(c)
      PROVE  Goal
  <2>1. Calm
    BY <1>1, <1>4 DEF Send, Leave, thread, process, Calm
  <2>2. QED
    BY <1>2, <2>1
<1>5. ASSUME NEW t \in Threads, threadFunc(t)
      PROVE  Goal
  <2>1. /\ UNCHANGED <<backlog, socket_client>> /\ main' \in {main, "killed"}
        /\ pc[t] # "none" /\ \E to \in Points : to # "recv" /\ pc' = [pc EXCEPT ![t] = to]
    BY <1>5 DEF threadFunc, Recv, Fopen, MakeRequest, Underflow, Take, SendLine, Close, ThreadStep,
                Points
  <2>2. \A c \in Clients : conn'[c] = "off" <=> conn[c] = "off"
    BY <1>1, <1>5 DEF threadFunc, Recv, Fopen, MakeRequest, Underflow, Take, SendLine, Close
  <2>3. Calm
    BY <1>1, <2>1, <2>2 DEF Calm
  <2>4. QED
    BY <1>2, <2>3
<1>6. CASE Check \/ Listen \/ CloseServer \/ JoinTimerAndExit
  <2>1. /\ backlog' \in {backlog, <<>>} /\ main' # "create" /\ pc' = pc
    BY <1>6 DEF Check, Listen, CloseServer, JoinTimerAndExit, BacklogReset, MainStep
  <2>2. \A c \in Clients : conn'[c] = "off" <=> conn[c] = "off"
    BY <1>1, <1>6 DEF Check, Listen, CloseServer, JoinTimerAndExit, BacklogReset, AcceptedOnce
  <2>3. QED
    BY <1>2, <2>1, <2>2 DEF Calm
<1>7. CASE Accept
  <2>1. main = "accept" /\ main' = "create" /\ UNCHANGED <<conn, pc>>
    BY <1>7 DEF Accept, MainStep
  <2>2. \A c \in Clients : pc[c] = "none"
    BY <1>1, <2>1 DEF SockInv, ServerInv, OneNode, ThreadsListed
  <2>3. CASE socket_client' = NoClient /\ UNCHANGED backlog
    <3>1. \A c \in Clients : /\ Unaccepted(c)' => Unaccepted(c)
                             /\ ~(main' = "create" /\ socket_client' = c)
      BY <2>1, <2>3, ClientsAssumption DEF Unaccepted
    <3>2. AcceptedOnce'
      BY <2>1, <2>2, <2>3, <3>1 DEF AcceptedOnce
    <3>3. QED
      BY <2>1, <3>1, <3>2 DEF NobodyTwice, Unread
  <2>4. CASE backlog # <<>> /\ socket_client' = Head(backlog) /\ backlog' = Tail(backlog)
    <3>1. /\ Len(backlog') = Len(backlog) - 1 /\ DOMAIN backlog' = 1 .. Len(backlog) - 1
          /\ \A i \in DOMAIN backlog' : backlog'[i] = backlog[i + 1]
          /\ socket_client' = backlog[1] /\ 1 \in DOMAIN backlog
      <4>1. Tail(backlog) \in Seq(Clients) /\ Len(backlog) # 0
        BY <1>1, <2>4, EmptySeq, HeadTailProperties
      <4>2. QED
        BY <1>1, <2>4, <4>1, HeadTailProperties, LenProperties
    <3>2. \A i, j \in DOMAIN backlog' : i # j => backlog'[i] # backlog'[j]
      <4>1. \A i \in DOMAIN backlog' : i + 1 \in DOMAIN backlog
        BY <1>1, <3>1
      <4>2. QED
        BY <3>1, <4>1 DEF AcceptedOnce
    <3>3. \A i \in DOMAIN backlog' : /\ backlog'[i] # socket_client'
                                     /\ \E j \in DOMAIN backlog : backlog'[i] = backlog[j]
      <4>1. \A i \in DOMAIN backlog' : i + 1 \in DOMAIN backlog /\ i + 1 # 1
        BY <1>1, <3>1
      <4>2. QED
        BY <3>1, <4>1 DEF AcceptedOnce
    <3>4. /\ ToSet(backlog') \subseteq ToSet(backlog) /\ socket_client' \in ToSet(backlog)
          /\ socket_client' \notin ToSet(backlog')
      BY <3>1, <3>3 DEF ToSet
    <3>5. \A c \in Clients : Unaccepted(c)' => Unaccepted(c)
      BY <2>1, <3>4 DEF Unaccepted
    <3>6. AcceptedOnce'
      BY <2>1, <2>2, <3>2, <3>4 DEF AcceptedOnce
    <3>7. QED
      BY <2>1, <3>5, <3>6 DEF NobodyTwice, Unread
  <2>5. QED
    BY <1>7, <2>3, <2>4 DEF Accept
<1>8. CASE Create
  <2>1. /\ main = "create" /\ main' = "join" /\ pc' = [pc EXCEPT ![socket_client] = "recv"]
        /\ UNCHANGED <<conn, backlog, socket_client>>
    BY <1>8 DEF Create, MainStep
  <2>2. \A c \in Clients : pc[c] = "none"
    BY <1>1, <2>1 DEF SockInv, ServerInv, OneNode, ThreadsListed
  <2>3. \A c \in Clients : pc'[c] # "none" => c = socket_client
    BY <1>1, <2>1, <2>2
  <2>4. \A c \in Clients : Unaccepted(c)' => Unaccepted(c)
    BY <2>1 DEF Unaccepted
  <2>5. \A c \in Clients : Unread(c)' => Unread(c)
    BY <2>1, <2>3, <2>4 DEF Unread, Unaccepted
  <2>6. AcceptedOnce'
    BY <2>1, <2>3 DEF AcceptedOnce, Unaccepted
  <2>7. QED
    BY <2>4, <2>5, <2>6 DEF NobodyTwice
<1>9. CASE Join
  <2>1. /\ main' = "check" /\ UNCHANGED <<conn, backlog>>
        /\ \E t : pc' = [pc EXCEPT ![t] = "none"]
    BY <1>9 DEF Join, MainStep
  <2>2. \A c \in Clients : pc'[c] # "none" => pc'[c] = pc[c]
    BY <1>1, <2>1
  <2>3. QED
    BY <1>2, <2>1, <2>2 DEF Calm
<1>10. CASE timestamp \/ Signal \/ HandlerSet \/ UNCHANGED vars
  <2>1. UNCHANGED <<main, socket_client, conn, backlog, pc>>
    BY <1>10 DEF timestamp, Signal, HandlerSet, vars, thread, network, process
  <2>2. QED
    BY <1>2, <2>1 DEF Calm
<1>11. CASE HandlerShutdown
  <2>1. /\ UNCHANGED <<main, socket_client, pc>> /\ backlog' = <<>>
        /\ conn' = [c \in Clients |-> IF c \in ToSet(backlog) THEN "closed" ELSE conn[c]]
    BY <1>11 DEF HandlerShutdown, BacklogReset, thread
  <2>2. \A c \in Clients : conn'[c] = "off" <=> conn[c] = "off"
    BY <2>1 DEF AcceptedOnce
  <2>3. QED
    BY <1>2, <2>1, <2>2 DEF Calm
<1>12. QED
  BY <1>3, <1>4, <1>5, <1>6, <1>7, <1>8, <1>9, <1>10, <1>11 DEF Next, MainThread, signal_handler


(* The steps of everyone but the client threads.                           *)
OthersStep ==
  \/ \E c \in Clients : Connect(c) \/ Send(c) \/ Leave(c)
  \/ MainThread \/ timestamp \/ Signal \/ signal_handler \/ UNCHANGED vars

OthersKeep ==
  /\ UNCHANGED <<device, text, line, answer>>
  /\ \A t \in Threads : /\ pc'[t] \in {"fopen", "request", "fgets", "done"} => pc[t] = pc'[t]
                        /\ pc[t] = "fgets" => pc'[t] = "fgets"
                        /\ pc'[t] = "recv" => /\ pc[t] \in {"none", "recv"}
                                              /\ \/ pc[t] = "recv" /\ buf'[t] = buf[t]
                                                 \/ buf'[t] = Zeros \/ StackReused
  /\ \A c \in Clients :
       /\ sent'[c] \o todo'[c] = sent[c] \o todo[c]
       /\ pc[c] # "none" /\ conn'[c] \in {"open", "closed"} => conn'[c] = conn[c]

LEMMA SendKeeps ==
  ASSUME TypeOK, NEW c \in Clients, Send(c)
  PROVE  \A e \in Clients : sent'[e] \o todo'[e] = sent[e] \o todo[e]
<1> DEFINE r == todo[c]
           s == sent[c]
<1>1. sent \in [Clients -> Strings] /\ todo \in [Clients -> Strings]
  BY TypeParts DEF NetworkTypes
<1>2. r \in Seq(Stored) /\ s \in Seq(Stored) /\ Len(r) \in Nat \ {0}
  BY <1>1, LenProperties, EmptySeq DEF Strings, Send
<1>3. PICK n \in 1 .. Len(r) :
          /\ sent' = [sent EXCEPT ![c] = s \o SubSeq(r, 1, n)]
          /\ todo' = [todo EXCEPT ![c] = SubSeq(r, n + 1, Len(r))]
  <2>1. \E n \in IF Segments THEN 1 .. Len(r) ELSE {Len(r)} :
          /\ sent' = [sent EXCEPT ![c] = @ \o SubSeq(r, 1, n)]
          /\ todo' = [todo EXCEPT ![c] = SubSeq(@, n + 1, Len(@))]
    BY DEF Send
  <2>2. Len(r) \in 1 .. Len(r)
    BY <1>2
  <2> HIDE DEF r, s
  <2>3. (IF Segments THEN 1 .. Len(r) ELSE {Len(r)}) \subseteq 1 .. Len(r)
    BY <2>2
  <2> USE DEF r, s
  <2>4. QED
    BY <2>1, <2>3
<1> DEFINE x == SubSeq(r, 1, n)
           y == SubSeq(r, n + 1, Len(r))
<1>4. x \in Seq(Stored) /\ y \in Seq(Stored) /\ x \o y = r
  <2>1. x \in Seq(Stored) /\ y \in Seq(Stored)
    BY <1>2, <1>3, PieceType
  <2>2. /\ 1 \in 1 .. Len(r) + 1 /\ n \in 1 - 1 .. Len(r) /\ Len(r) \in n .. Len(r)
    BY <1>2, <1>3
  <2>3. x \o y = SubSeq(r, 1, Len(r))
    BY <1>2, <2>2, ConcatAdjacentSubSeq
  <2>4. QED
    BY <1>2, <2>1, <2>3, SubSeqFull
<1>5. sent'[c] = s \o x /\ todo'[c] = y
  BY <1>1, <1>3
<1>6. \A e \in Clients : e # c => sent'[e] = sent[e] /\ todo'[e] = todo[e]
  BY <1>1, <1>3
<1> HIDE DEF x, y
<1>7. sent'[c] \o todo'[c] = s \o r
  <2>0. s \in Seq(Stored) /\ x \in Seq(Stored) /\ y \in Seq(Stored)
    BY <1>2, <1>4
  <2>2. x \o y = r
    BY <1>4
  <2> HIDE DEF s, r
  <2>1. (s \o x) \o y = s \o (x \o y)
    BY <2>0, ConcatAssociative
  <2>3. s \o (x \o y) = s \o r
    BY <2>2
  <2>4. sent'[c] \o todo'[c] = (s \o x) \o y
    BY <1>5
  <2>5. QED
    BY <2>1, <2>3, <2>4, Zenon
<1>8. QED
  BY <1>6, <1>7 DEF r, s

LEMMA OthersNext ==
  ASSUME SockInv, AcceptedOnce, OthersStep
  PROVE  OthersKeep
<1>1. /\ conn \in [Clients -> {"off", "open", "gone", "closed"}] /\ pc \in [Threads -> Points]
      /\ buf \in [Threads -> [1 .. BufferSize -> Bytes]]
      /\ Clients \subseteq Threads /\ socket_client \in Threads
  BY TypeParts DEF SockInv, NetworkTypes, ThreadTypes, ProcessTypes, Threads
<1>2. \A c \in Clients : pc[c] # "none" => conn[c] # "off" /\ c \notin ToSet(backlog)
  BY DEF AcceptedOnce, Unaccepted
<1>3. ASSUME UNCHANGED <<device, text, line, answer, sent, todo, pc, buf>>,
             \A c \in Clients : pc[c] # "none" /\ conn'[c] \in {"open", "closed"} => conn'[c] = conn[c]
      PROVE  OthersKeep
  BY <1>1, <1>3 DEF OthersKeep
<1>4. ASSUME NEW c \in Clients, Connect(c)
      PROVE  OthersKeep
  BY <1>1, <1>2, <1>3, <1>4 DEF Connect, thread
<1>5. ASSUME NEW c \in Clients, Send(c)
      PROVE  OthersKeep
  BY <1>1, <1>5, SendKeeps DEF SockInv, Send, thread, OthersKeep
<1>6. ASSUME NEW c \in Clients, Leave(c)
      PROVE  OthersKeep
  BY <1>1, <1>3, <1>6 DEF Leave, thread
<1>7. BacklogReset => \A c \in Clients :
                        pc[c] # "none" /\ conn'[c] \in {"open", "closed"} => conn'[c] = conn[c]
  BY <1>2 DEF BacklogReset
<1>8. CASE Check \/ Listen \/ Accept \/ CloseServer \/ JoinTimerAndExit
  <2>1. UNCHANGED <<device, text, line, answer, sent, todo, pc, buf>>
    BY <1>8 DEF Check, Listen, Accept, CloseServer, JoinTimerAndExit, MainStep
  <2>2. conn' = conn \/ BacklogReset
    BY <1>8 DEF Check, Listen, Accept, CloseServer, JoinTimerAndExit
  <2>3. QED
    BY <1>3, <1>7, <2>1, <2>2
<1>9. CASE Create
  <2>1. /\ pc' = [pc EXCEPT ![socket_client] = "recv"]
        /\ \E b \in {Zeros} \cup (IF StackReused THEN {stack} ELSE {}) :
             buf' = [buf EXCEPT ![socket_client] = b]
        /\ UNCHANGED <<device, text, line, answer, sent, todo, conn>> /\ main = "create"
    BY <1>9 DEF Create, MainStep
  <2>2. \A t \in Threads : pc[t] = "none"
    BY <1>1, <2>1 DEF SockInv, ServerInv, OneNode, ThreadsListed
  <2>3. \A t \in Threads : pc'[t] \in {"none", "recv"} /\ (pc'[t] = "recv" => t = socket_client)
    BY <1>1, <2>1, <2>2
  <2>4. buf'[socket_client] = Zeros \/ StackReused
    BY <1>1, <2>1
  <2>5. QED
    BY <1>1, <2>1, <2>2, <2>3, <2>4 DEF OthersKeep
<1>10. CASE Join
  <2>1. /\ head = <<socket_client>> /\ pc[Head(head)] = "done"
        /\ pc' = [pc EXCEPT ![Head(head)] = "none"]
        /\ UNCHANGED <<device, text, line, answer, sent, todo, conn, buf>>
    BY <1>10 DEF Join, MainStep, SockInv, ServerInv, OneNode
  <2>2. Head(head) = socket_client
    BY <2>1
  <2>3. \A t \in Threads : pc'[t] = pc[t] \/ (pc[t] = "done" /\ pc'[t] = "none")
    BY <1>1, <2>1, <2>2
  <2>4. QED
    BY <1>1, <2>1, <2>3 DEF OthersKeep
<1>11. CASE timestamp \/ Signal \/ HandlerSet \/ UNCHANGED vars
  BY <1>1, <1>3, <1>11 DEF timestamp, Signal, HandlerSet, vars, thread, network
<1>12. CASE HandlerShutdown
  BY <1>3, <1>7, <1>12 DEF HandlerShutdown, thread
<1>13. QED
  BY <1>4, <1>5, <1>6, <1>8, <1>9, <1>10, <1>11, <1>12 DEF OthersStep, MainThread, signal_handler

(* A step of a client thread finds no other one.                           *)
LEMMA OneThread ==
  ASSUME SockInv, NEW t \in Threads, pc[t] # "none"
  PROVE  \A u \in Threads : u # t => pc[u] = "none"
<1>1. head = <<t>> /\ \A u \in Threads : pc[u] # "none" => head = <<u>>
  BY DEF SockInv, ServerInv, ThreadsListed
<1>2. QED
  BY <1>1

(* The invariants of one thread and its client.                            *)
RequestKept(c) ==
  /\ Unread(c) => answer[c] = <<>> /\ sent[c] \o todo[c] = Request[c]
  /\ pc[c] \in {"fopen", "request"} =>
       /\ answer[c] = <<>>
       /\ conn[c] = "open" => IF Head(Request[c]) = NUL THEN text[c] = <<>>
                              ELSE text[c] # <<>> /\ Head(text[c]) = Head(Request[c])

FileKept(t) ==
  /\ pc[t] # "fgets" => line[t] = <<>>
  /\ pc[t] = "request" => f_pos[t] = 0 /\ got[t] = <<>>

Begins(c) == From(Head(Request[c]))

SoFar(c) ==
  pc[c] = "fgets" /\ conn[c] = "open" =>
    /\ Begins(c) <= f_pos[c] /\ f_pos[c] <= Len(Contents)
    /\ (answer[c] \o line[c]) \o got[c] = SubSeq(Contents, Begins(c) + 1, f_pos[c])

LEMMA OthersAnswer ==
  ASSUME SockInv, AnswerInv, OthersStep, AcceptedOnce', NobodyTwice
  PROVE  AnswerInv'
<1>1. OthersKeep /\ Clients \subseteq Threads
  BY OthersNext DEF AnswerInv, Threads
<1>2. UNCHANGED <<log, f_pos, got, text, line, answer>>
  BY <1>1 DEF OthersKeep, device
<1>3. FilesKept'
  BY <1>1, <1>2 DEF OthersKeep, AnswerInv, FilesKept
<1>4. RequestsKept'
  BY <1>1, <1>2 DEF OthersKeep, AnswerInv, RequestsKept, NobodyTwice
<1>5. AnswerSoFar'
  <2>1. \A s : From(s)' = From(s)
    BY <1>2 DEF From, Contents, Device!Start
  <2>2. Contents' = Contents
    BY <1>2 DEF Contents
  <2>3. QED
    BY <1>1, <1>2, <2>1, <2>2 DEF OthersKeep, AnswerInv, AnswerSoFar
<1>6. QED
  BY <1>3, <1>4, <1>5 DEF AnswerInv


LEMMA AnswerParts ==
  /\ RequestsKept <=> \A c \in Clients : RequestKept(c)
  /\ FilesKept <=> \A t \in Threads : FileKept(t)
  /\ AnswerSoFar <=> \A c \in Clients : SoFar(c)
BY DEF RequestsKept, RequestKept, FilesKept, FileKept, AnswerSoFar, SoFar, Begins

(* A string begins as the buffer it is in.                                 *)
LEMMA TextsBegin ==
  ASSUME NEW holder \in Seq(Stored \cup {NUL}), Len(holder) > 0, NEW x \in Texts(holder)
  PROVE  IF holder[1] = NUL THEN x = <<>> ELSE x # <<>> /\ Head(x) = holder[1]
<1> DEFINE nuls == {i \in 1 .. Len(holder) : holder[i] = NUL}
<1>1. Len(holder) \in Nat \ {0} /\ 1 \in 1 .. Len(holder)
  BY LenProperties
<1>2. ASSUME nuls # {}
      PROVE  /\ x = SubSeq(holder, 1, Min(nuls) - 1)
             /\ Min(nuls) \in nuls /\ \A i \in nuls : Min(nuls) <= i
  <2>1. nuls \subseteq Nat
    BY <1>1
  <2>2. x = SubSeq(holder, 1, Min(nuls) - 1)
    BY <1>2 DEF Texts
  <2> HIDE DEF nuls
  <2>3. QED
    BY <1>2, <2>1, <2>2, MinOfNaturals
<1>3. CASE holder[1] = NUL
  <2>1. 1 \in nuls /\ Min(nuls) = 1
    BY <1>1, <1>2, <1>3
  <2>2. QED
    BY <1>2, <1>3, <2>1
<1>4. CASE holder[1] # NUL /\ nuls # {}
  <2> DEFINE m == Min(nuls) - 1
  <2>1. m \in 1 .. Len(holder)
    BY <1>1, <1>2, <1>4
  <2>2. x = SubSeq(holder, 1, m)
    BY <1>2, <1>4
  <2> HIDE DEF m
  <2>3. x \in Seq(Stored \cup {NUL}) /\ Len(x) = m /\ x[1] = holder[1]
    <3>1. m \in Int /\ m <= Len(holder) /\ 1 \in Nat \ {0}
      BY <1>1, <2>1
    <3>2. /\ SubSeq(holder, 1, m) \in Seq(Stored \cup {NUL})
          /\ Len(SubSeq(holder, 1, m)) = IF 1 <= m THEN m - 1 + 1 ELSE 0
          /\ \A i \in 1 .. m - 1 + 1 : SubSeq(holder, 1, m)[i] = holder[1 + i - 1]
      BY <3>1, PieceType
    <3>3. QED
      BY <1>1, <2>1, <2>2, <3>2
  <2>4. x # <<>>
    BY <2>1, <2>3
  <2>5. QED
    BY <1>4, <2>3, <2>4
<1>5. CASE nuls = {}
  <2>1. holder[1] # NUL
    BY <1>1, <1>5
  <2>2. x \in {holder, Append(holder, Junk)}
    BY <1>5 DEF Texts
  <2>3. Junk \in Stored \cup {NUL}
    BY RequestTypes
  <2>4. /\ Append(holder, Junk) \in Seq(Stored \cup {NUL})
        /\ Len(Append(holder, Junk)) = Len(holder) + 1 /\ Append(holder, Junk)[1] = holder[1]
    BY <1>1, <2>3, AppendProperties
  <2>5. x # <<>> /\ x[1] = holder[1]
    BY <1>1, <2>2, <2>4
  <2>6. QED
    BY <2>1, <2>5
<1>6. QED
  BY <1>3, <1>4, <1>5

(* An answer begins somewhere in what the device holds.                    *)
LEMMA BeginsInContents ==
  ASSUME log \in Seq(Strings), NEW s
  PROVE  From(s) \in Nat /\ From(s) <= Len(Contents)
<1>1. CASE s \notin SeekTos
  BY <1>1, DeviceStart DEF From
<1>2. CASE s \in SeekTos /\ s.write_cmd >= Len(log)
  BY <1>2, DeviceStart DEF From
<1>3. CASE s \in SeekTos /\ ~(s.write_cmd >= Len(log))
  <2> DEFINE w == s.write_cmd
             o == IF s.write_cmd_offset <= Len(log[w + 1]) THEN s.write_cmd_offset ELSE 0
  <2>1. w \in Nat /\ s.write_cmd_offset \in Nat /\ Len(log) \in Nat
    BY <1>3, DeviceAssumption, LenProperties
  <2>2. w + 1 \in 1 .. Len(log) /\ w + 1 \in 0 .. Len(log) /\ w \in 0 .. Len(log)
    BY <1>3, <2>1
  <2>3. log[w + 1] \in Seq(Stored) /\ Len(log[w + 1]) \in Nat
    BY <2>2, ElementOfSeq, LenProperties DEF Strings
  <2>4. o \in Nat /\ o <= Len(log[w + 1])
    BY <2>1, <2>3
  <2>5. /\ Device!Start(w) \in Nat /\ Device!Start(w + 1) <= Len(Contents)
        /\ Device!Start(w + 1) = Device!Start(w + 1 - 1) + Len(log[w + 1])
    BY <2>2, DeviceStart
  <2>6. w + 1 - 1 = w
    BY <2>1
  <2>7. From(s) = Device!Start(w) + o
    BY <1>3 DEF From
  <2>8. Len(Contents) \in Nat /\ Device!Start(w + 1) \in Nat
    BY <2>2, DeviceStart
  <2> HIDE DEF w, o
  <2>9. QED
    BY <2>3, <2>4, <2>5, <2>6, <2>7, <2>8
<1>4. QED
  BY <1>1, <1>2, <1>3

(* What a step of a client thread leaves to the others.                    *)
LEMMA ThreadOthers ==
  ASSUME SockInv, AnswerInv, NobodyTwice, NEW t \in Threads, threadFunc(t)
  PROVE  /\ pc[t] # "none" /\ todo' = todo
         /\ \A c \in Clients : c # t => RequestKept(c)' /\ SoFar(c)'
         /\ \A u \in Threads : u # t => FileKept(u)'
         /\ t \in Clients => ~Unaccepted(t)'
<1>1. /\ pc \in [Threads -> Points] /\ line \in [Threads -> Strings]
      /\ answer \in [Clients -> Strings] /\ sent \in [Clients -> Strings] /\ Clients \subseteq Threads
  BY TypeParts DEF SockInv, ThreadTypes, NetworkTypes, Threads
<1>2. pc[t] # "none" /\ todo' = todo /\ \E to : pc' = [pc EXCEPT ![t] = to]
  BY DEF threadFunc, Recv, Fopen, MakeRequest, Underflow, Take, SendLine, Close, ThreadStep
<1>3. \A u \in Threads : u # t => pc[u] = "none" /\ pc'[u] = "none"
  BY <1>1, <1>2, OneThread
<1>4. \A c \in Clients : c # t => answer'[c] = answer[c] /\ sent'[c] = sent[c]
  BY <1>1 DEF threadFunc, Recv, Fopen, MakeRequest, Underflow, Take, SendLine, Close
<1>5. \A u \in Threads : u # t => line'[u] = line[u]
  BY <1>1 DEF threadFunc, Recv, Fopen, MakeRequest, Underflow, Take, SendLine, Close
<1>6. \A c \in Clients : c # t => RequestKept(c)' /\ SoFar(c)'
  BY <1>1, <1>2, <1>3, <1>4, AnswerParts DEF AnswerInv, RequestKept, SoFar, NobodyTwice
<1>7. \A u \in Threads : u # t => FileKept(u)'
  BY <1>3, <1>5, AnswerParts DEF AnswerInv, FileKept
<1>8. t \in Clients => ~Unaccepted(t)'
  BY <1>1, <1>2 DEF AnswerInv, AcceptedOnce, NobodyTwice
<1>9. QED
  BY <1>2, <1>6, <1>7, <1>8

(* The bytes received begin as the request does.                           *)
LEMMA RecvKeeps ==
  ASSUME SockInv, AnswerInv, NEW t \in Clients, Recv(t), conn[t] = "open"
  PROVE  IF Head(Request[t]) = NUL THEN text'[t] = <<>>
         ELSE text'[t] # <<>> /\ Head(text'[t]) = Head(Request[t])
<1> DEFINE n == Min({Len(sent[t]), BufferSize - 1})
           b == [i \in 1 .. BufferSize |-> IF i <= n THEN sent[t][i] ELSE buf[t][i]]
           h == SubSeq(b, 1, n + 1)
<1>1. /\ sent[t] \in Seq(Stored) /\ todo[t] \in Seq(Stored) /\ Len(sent[t]) \in Nat
      /\ text \in [Threads -> Strings] /\ t \in Threads
      /\ buf[t] \in [1 .. BufferSize -> Stored \cup {NUL}]
      /\ BufferSize \in Nat /\ BufferSize > 1
  BY TypeParts, LenProperties, BufferAssumption
     DEF SockInv, ThreadTypes, NetworkTypes, Threads, Strings, Bytes
<1>2. t # NoClient /\ sent[t] # <<>> /\ pc[t] = "recv"
      /\ \E x \in Texts(h) : text' = [text EXCEPT ![t] = x]
  BY ClientsAssumption DEF Recv, ThreadStep
<1>3. Len(sent[t]) # 0
  BY <1>1, <1>2, EmptySeq
<1>4. n \in 1 .. Len(sent[t]) /\ n \in 1 .. BufferSize - 1
  <2>1. {Len(sent[t]), BufferSize - 1} \subseteq Nat
    BY <1>1
  <2>2. n \in {Len(sent[t]), BufferSize - 1} /\ \A y \in {Len(sent[t]), BufferSize - 1} : n <= y
    BY <2>1, MinOfNaturals
  <2>3. QED
    BY <1>1, <1>3, <2>2
<1> HIDE DEF n
<1>5. b \in [1 .. BufferSize -> Stored \cup {NUL}]
  <2>1. \A i \in 1 .. BufferSize : i <= n => i \in 1 .. Len(sent[t])
    BY <1>1, <1>4
  <2>2. \A i \in 1 .. Len(sent[t]) : sent[t][i] \in Stored
    BY <1>1, ElementOfSeq
  <2>3. QED
    BY <1>1, <2>1, <2>2
<1>6. b \in Seq(Stored \cup {NUL}) /\ Len(b) = BufferSize /\ b[1] = sent[t][1]
  <2>1. b \in Seq(Stored \cup {NUL})
    BY <1>1, <1>5, SeqDef
  <2>2. Len(b) = BufferSize
    <3>1. DOMAIN b = 1 .. BufferSize /\ DOMAIN b = 1 .. Len(b) /\ Len(b) \in Nat
      BY <1>5, <2>1, LenProperties
    <3>2. BufferSize \in 1 .. Len(b) /\ (Len(b) > 0 => Len(b) \in 1 .. BufferSize)
      BY <1>1, <3>1
    <3>3. QED
      BY <1>1, <3>1, <3>2
  <2>3. QED
    BY <1>1, <1>4, <2>1, <2>2
<1> HIDE DEF b
<1>7. h \in Seq(Stored \cup {NUL}) /\ Len(h) > 0 /\ h[1] = sent[t][1]
  <2> DEFINE m == n + 1
  <2>1. m \in Int /\ m <= Len(b) /\ m >= 1 /\ 1 \in Nat \ {0}
    BY <1>1, <1>4, <1>6
  <2> HIDE DEF m
  <2>2. /\ SubSeq(b, 1, m) \in Seq(Stored \cup {NUL})
        /\ Len(SubSeq(b, 1, m)) = IF 1 <= m THEN m - 1 + 1 ELSE 0
        /\ \A i \in 1 .. m - 1 + 1 : SubSeq(b, 1, m)[i] = b[1 + i - 1]
    BY <1>6, <2>1, PieceType
  <2>3. Len(SubSeq(b, 1, m)) > 0 /\ SubSeq(b, 1, m)[1] = b[1]
    BY <2>1, <2>2
  <2>4. QED
    BY <1>6, <2>2, <2>3 DEF m
<1>8. Head(Request[t]) = sent[t][1]
  <2>1. sent[t] \o todo[t] = Request[t]
    BY <1>2, AnswerParts DEF AnswerInv, RequestKept, Unread
  <2>2. Request[t] \in Seq(Stored) /\ Request[t][1] = sent[t][1]
    <3>1. 1 \in 1 .. Len(sent[t]) + Len(todo[t]) /\ 1 <= Len(sent[t])
      <4>1. Len(todo[t]) \in Nat
        BY <1>1, LenProperties
      <4> DEFINE p == Len(sent[t])
                 q == Len(todo[t])
      <4>2. p \in Nat /\ p # 0 /\ q \in Nat
        BY <1>1, <1>3, <4>1
      <4> HIDE DEF p, q
      <4>3. 1 \in 1 .. p + q /\ 1 <= p
        BY <4>2
      <4>4. QED
        BY <4>3 DEF p, q
    <3>2. (sent[t] \o todo[t])[1] = sent[t][1]
      BY <1>1, <3>1, ConcatProperties
    <3>3. QED
      BY <2>1, <3>2, RequestTypes DEF Strings
  <2>3. QED
    BY <2>2, RequestTypes
<1> HIDE DEF h
<1>9. QED
  BY <1>1, <1>2, <1>7, <1>8, TextsBegin

(* Before the first read, the position is where the answer begins.         *)
LEMMA RequestPositions ==
  ASSUME SockInv, AnswerInv, TypeOK', NEW t \in Clients, MakeRequest(t), conn[t] = "open"
  PROVE  f_pos'[t] = Begins(t)' /\ got'[t] = <<>>
<1>1. /\ f_pos \in [Threads -> Nat] /\ log \in Seq(Strings) /\ t \in Threads /\ pc[t] = "request"
      /\ f_pos[t] = 0 /\ got[t] = <<>>
  BY TypeParts, AnswerParts
     DEF SockInv, DeviceTypes, Threads, AnswerInv, FileKept, MakeRequest, ThreadStep
<1>2. IF Head(Request[t]) = NUL THEN text[t] = <<>>
      ELSE text[t] # <<>> /\ Head(text[t]) = Head(Request[t])
  BY <1>1, AnswerParts DEF AnswerInv, RequestKept
<1>3. CASE Head(Request[t]) \in SeekTos
  <2> DEFINE s == Head(Request[t])
             at == IF s.write_cmd >= Len(log) THEN Device!Start(Len(log))
                   ELSE Device!Start(s.write_cmd)
                          + (IF s.write_cmd_offset <= Len(log[s.write_cmd + 1])
                             THEN s.write_cmd_offset ELSE 0)
  <2>1. Device!SeekTo(t, s)
    BY <1>2, <1>3, DeviceAssumption DEF MakeRequest
  <2>2. f_pos' = [f_pos EXCEPT ![t] = at] /\ UNCHANGED <<log, partial, got>>
    BY <2>1 DEF Device!SeekTo
  <2>3. at = From(s)
    BY <1>1, <1>3, DeviceStart DEF From
  <2> HIDE DEF s, at
  <2>4. f_pos'[t] = From(s)
    BY <1>1, <2>2, <2>3
  <2>5. From(s)' = From(s)
    BY <2>2 DEF From, Contents, Device!Start, s
  <2>6. QED
    BY <1>1, <2>2, <2>4, <2>5 DEF Begins, s
<1>4. CASE Head(Request[t]) \notin SeekTos
  <2>1. f_pos'[t] = f_pos[t] /\ got'[t] = got[t]
    <3>1. UNCHANGED device \/ Device!Write(text[t])
      BY <1>2, <1>4 DEF MakeRequest
    <3>2. QED
      BY <3>1 DEF device, Device!Write
  <2>2. Begins(t)' = 0
    BY <1>4 DEF Begins, From
  <2>3. QED
    BY <1>1, <2>1, <2>2
<1>5. QED
  BY <1>3, <1>4


(* What stdio reads continues what the client has.                         *)
LEMMA UnderflowKeeps ==
  ASSUME SockInv, NEW t \in Clients, Underflow(t), SoFar(t), pc[t] = "fgets", conn[t] = "open"
  PROVE  SoFar(t)'
<1> DEFINE count == Len(FlattenSeq(log))
           s == Device!Served(f_pos[t], count)
           a == answer[t] \o line[t]
           from == Begins(t)
<1>1. /\ log \in Seq(Strings) /\ f_pos \in [Threads -> Nat] /\ got \in [Threads -> Strings]
      /\ a \in Seq(Stored) /\ t \in Threads /\ f_pos[t] \in Nat
      /\ Contents \in Seq(Stored) /\ Len(Contents) \in Nat
  BY TypeParts, ConcatProperties, DeviceStart
     DEF SockInv, DeviceTypes, ThreadTypes, NetworkTypes, Threads, Strings
<1>2. /\ got' = [got EXCEPT ![t] = s] /\ f_pos' = [f_pos EXCEPT ![t] = @ + Len(s)]
      /\ UNCHANGED <<log, line, answer>> /\ got[t] = <<>> /\ ~AtEnd(t)
  BY DEF Underflow, Device!Read
<1>3. from \in Nat /\ from <= f_pos[t] /\ f_pos[t] <= Len(Contents)
      /\ a \o got[t] = SubSeq(Contents, from + 1, f_pos[t])
  BY <1>1, BeginsInContents DEF SoFar, Begins
<1>4. a = SubSeq(Contents, from + 1, f_pos[t])
  BY <1>1, <1>2, <1>3, ConcatEmptySeq
<1>5. PICK to \in Nat : /\ f_pos[t] < to /\ to <= Len(Contents)
                        /\ s = SubSeq(Contents, f_pos[t] + 1, to)
  <2>1. f_pos[t] < Len(Contents)
    BY <1>1, <1>2, <1>3, ServedIs DEF AtEnd
  <2>2. count \in Nat \ {0} /\ count = Len(Contents)
    BY <1>1, <2>1 DEF Contents
  <2> HIDE DEF count
  <2>3. QED
    BY <1>1, <2>1, <2>2, ServedIs
<1>6. f_pos'[t] = to /\ got'[t] = s
  <2>1. f_pos[t] + 1 \in Nat \ {0} /\ to \in Int
    BY <1>1
  <2> DEFINE m == f_pos[t] + 1
  <2> HIDE DEF m
  <2>2. Len(SubSeq(Contents, m, to)) = IF m <= to THEN to - m + 1 ELSE 0
    BY <1>1, <1>5, <2>1, PieceType DEF m
  <2>3. Len(s) = to - f_pos[t]
    BY <1>1, <1>5, <2>2 DEF m
  <2> HIDE DEF s
  <2>4. f_pos'[t] = f_pos[t] + Len(s) /\ got'[t] = s
    BY <1>1, <1>2
  <2>5. QED
    BY <1>1, <1>5, <2>3, <2>4
<1>7. a \o s = SubSeq(Contents, from + 1, to)
  <2> DEFINE m == from + 1
             k == f_pos[t]
  <2>1. m \in 1 .. Len(Contents) + 1 /\ k \in m - 1 .. Len(Contents) /\ to \in k .. Len(Contents)
    BY <1>1, <1>3, <1>5
  <2>2. a = SubSeq(Contents, m, k) /\ s = SubSeq(Contents, k + 1, to)
    BY <1>4, <1>5
  <2> HIDE DEF m, k, a, s
  <2>3. SubSeq(Contents, m, k) \o SubSeq(Contents, k + 1, to) = SubSeq(Contents, m, to)
    BY <1>1, <2>1, ConcatAdjacentSubSeq
  <2>4. QED
    BY <2>2, <2>3 DEF m
<1>8. Begins(t)' = from /\ Contents' = Contents
  BY <1>2 DEF Begins, From, Contents, Device!Start
<1> DEFINE after == (answer'[t] \o line'[t]) \o got'[t]
<1>9. after = a \o s
  BY <1>2, <1>6
<1> HIDE DEF a, s, from, after
<1>10. after = SubSeq(Contents', Begins(t)' + 1, f_pos'[t])
  BY <1>6, <1>7, <1>8, <1>9
<1>11. Begins(t)' <= f_pos'[t] /\ f_pos'[t] <= Len(Contents')
  BY <1>1, <1>3, <1>5, <1>6, <1>8
<1>12. QED
  BY <1>10, <1>11 DEF SoFar, after

(* fgets moves bytes from the buffer of stdio to the line.                 *)
LEMMA TakeKeeps ==
  ASSUME SockInv, NEW t \in Clients, Take(t), SoFar(t), pc[t] = "fgets", conn[t] = "open"
  PROVE  SoFar(t)'
<1> DEFINE a == answer[t]
           l == line[t]
           g == got[t]
<1>1. /\ got \in [Threads -> Strings] /\ line \in [Threads -> Strings] /\ t \in Threads
      /\ a \in Seq(Stored) /\ l \in Seq(Stored) /\ g \in Seq(Stored) /\ Len(g) \in Nat
  BY TypeParts, LenProperties
     DEF SockInv, DeviceTypes, ThreadTypes, NetworkTypes, Threads, Strings
<1>2. PICK n \in Nat \ {0} :
           /\ n <= Len(g) /\ Len(l) + n < BufferSize
           /\ line' = [line EXCEPT ![t] = l \o SubSeq(g, 1, n)]
           /\ got' = [got EXCEPT ![t] = SubSeq(g, n + 1, Len(g))]
  BY <1>1, TakeEffect DEF SockInv
<1> DEFINE x == SubSeq(g, 1, n)
           y == SubSeq(g, n + 1, Len(g))
<1>3. x \in Seq(Stored) /\ y \in Seq(Stored) /\ x \o y = g
  <2>1. x \in Seq(Stored) /\ y \in Seq(Stored)
    BY <1>1, <1>2, PieceType
  <2>2. /\ 1 \in 1 .. Len(g) + 1 /\ n \in 1 - 1 .. Len(g) /\ Len(g) \in n .. Len(g)
    BY <1>1, <1>2
  <2>3. x \o y = SubSeq(g, 1, Len(g))
    BY <1>1, <2>2, ConcatAdjacentSubSeq
  <2>4. QED
    BY <1>1, <2>1, <2>3, SubSeqFull
<1>4. /\ line'[t] = l \o x /\ got'[t] = y /\ answer'[t] = a
      /\ UNCHANGED <<log, f_pos, conn, answer>> /\ pc'[t] = "fgets"
  BY <1>1, <1>2, TypeParts DEF Take, ThreadStep, SockInv, ThreadTypes
<1> DEFINE after == (answer'[t] \o line'[t]) \o got'[t]
           before == (answer[t] \o line[t]) \o got[t]
<1>5. after = before
  <2>1. after = (a \o (l \o x)) \o y /\ before = (a \o l) \o g
    BY <1>4
  <2>2. /\ a \in Seq(Stored) /\ l \in Seq(Stored) /\ x \in Seq(Stored) /\ y \in Seq(Stored)
        /\ a \o l \in Seq(Stored) /\ g = x \o y
    BY <1>1, <1>3, ConcatProperties
  <2> HIDE DEF a, l, g, x, y, after, before
  <2>3. (a \o l) \o x = a \o (l \o x)
    BY <2>2, ConcatAssociative
  <2>4. ((a \o l) \o x) \o y = (a \o l) \o (x \o y)
    <3> DEFINE al == a \o l
    <3>1. al \in Seq(Stored)
      BY <2>2
    <3> HIDE DEF al
    <3>2. (al \o x) \o y = al \o (x \o y)
      BY <2>2, <3>1, ConcatAssociative
    <3>3. QED
      BY <3>2 DEF al
  <2>5. QED
    BY <2>1, <2>2, <2>3, <2>4
<1>6. Begins(t)' = Begins(t) /\ Contents' = Contents
  BY <1>4 DEF Begins, From, Contents, Device!Start
<1>7. /\ Begins(t) <= f_pos[t] /\ f_pos[t] <= Len(Contents)
      /\ before = SubSeq(Contents, Begins(t) + 1, f_pos[t])
  BY DEF SoFar
<1> HIDE DEF after, before
<1>8. after = SubSeq(Contents', Begins(t)' + 1, f_pos'[t])
  BY <1>4, <1>5, <1>6, <1>7
<1>9. QED
  BY <1>4, <1>6, <1>7, <1>8 DEF SoFar, after

(* send moves the line to the answer.                                      *)
LEMMA SendLineKeeps ==
  ASSUME SockInv, NEW t \in Clients, SendLine(t), SoFar(t), pc[t] = "fgets", conn[t] = "open"
  PROVE  SoFar(t)'
<1>1. /\ answer \in [Clients -> Strings] /\ line \in [Threads -> Strings] /\ t \in Threads
      /\ answer[t] \in Seq(Stored) /\ line[t] \in Seq(Stored) /\ t # NoClient
  BY TypeParts, ClientsAssumption
     DEF SockInv, DeviceTypes, ThreadTypes, NetworkTypes, Threads, Strings
<1>2. /\ answer'[t] = answer[t] \o line[t] /\ line'[t] = <<>>
      /\ UNCHANGED <<log, f_pos, got, conn>> /\ pc'[t] = "fgets"
  BY <1>1, TypeParts DEF SendLine, device, ThreadStep, SockInv, ThreadTypes
<1>3. answer'[t] \o line'[t] = answer[t] \o line[t]
  <2> DEFINE a == answer[t] \o line[t]
  <2>1. a \in Seq(Stored)
    BY <1>1, ConcatProperties
  <2>2. answer'[t] = a /\ line'[t] = <<>>
    BY <1>2
  <2> HIDE DEF a
  <2>3. a \o <<>> = a
    BY <2>1, ConcatEmptySeq
  <2>4. QED
    BY <2>2, <2>3 DEF a
<1>4. Begins(t)' = Begins(t) /\ Contents' = Contents
  BY <1>2 DEF Begins, From, Contents, Device!Start
<1>5. QED
  BY <1>2, <1>3, <1>4 DEF SoFar

AnswersBegin == \A c \in Clients : Begins(c) \in Nat /\ Begins(c) <= Len(Contents)

LEMMA AnswersBeginInContents == log \in Seq(Strings) => AnswersBegin
BY BeginsInContents DEF AnswersBegin, Begins

LEMMA ThreadAnswer ==
  ASSUME SockInv, AnswerInv, TypeOK', AcceptedOnce', NobodyTwice, NEW t \in Threads, threadFunc(t)
  PROVE  AnswerInv'
<1> DEFINE Kept == FileKept(t)' /\ (t \in Clients => RequestKept(t)' /\ SoFar(t)')
<1>1. /\ pc \in [Threads -> Points] /\ line \in [Threads -> Strings] /\ f_pos \in [Threads -> Nat]
      /\ got \in [Threads -> Strings] /\ Clients \subseteq Threads
      /\ answer \in [Clients -> Strings]
  BY TypeParts DEF SockInv, ThreadTypes, DeviceTypes, NetworkTypes, Threads
<1>2. t \in Clients => ~Unaccepted(t)' /\ RequestKept(t) /\ SoFar(t)
  BY ThreadOthers, AnswerParts DEF AnswerInv
<1>3. FileKept(t)
  BY AnswerParts DEF AnswerInv
<1>4. ASSUME pc'[t] \in {"fgets", "done"}, line'[t] = <<>> \/ pc'[t] = "fgets",
             t \in Clients => SoFar(t)'
      PROVE  Kept
  BY <1>2, <1>4 DEF FileKept, RequestKept, Unread
<1>5. ASSUME Recv(t)
      PROVE  Kept
  <2>1. pc'[t] = "fopen" /\ pc[t] = "recv" /\ UNCHANGED <<line, answer, conn>>
    BY <1>1, <1>5 DEF Recv, ThreadStep
  <2>2. FileKept(t)'
    BY <1>3, <2>1 DEF FileKept
  <2>3. ASSUME t \in Clients
        PROVE  RequestKept(t)' /\ SoFar(t)'
    <3>1. answer'[t] = <<>>
      BY <1>2, <2>1, <2>3 DEF RequestKept, Unread
    <3>2. conn[t] = "open" => IF Head(Request[t]) = NUL THEN text'[t] = <<>>
                              ELSE text'[t] # <<>> /\ Head(text'[t]) = Head(Request[t])
      BY <1>5, <2>3, RecvKeeps
    <3>3. QED
      BY <1>2, <2>1, <2>3, <3>1, <3>2 DEF RequestKept, SoFar, Unread
  <2>4. QED
    BY <2>2, <2>3
<1>6. ASSUME Fopen(t)
      PROVE  Kept
  <2>1. pc'[t] = "request" /\ pc[t] = "fopen" /\ UNCHANGED <<line, answer, conn, text>>
        /\ f_pos'[t] = 0 /\ got'[t] = <<>>
    BY <1>1, <1>6 DEF Fopen, ThreadStep, Device!Open
  <2>2. FileKept(t)'
    BY <1>3, <2>1 DEF FileKept
  <2>3. QED
    BY <1>2, <2>1, <2>2 DEF RequestKept, SoFar, Unread
<1>7. ASSUME MakeRequest(t)
      PROVE  Kept
  <2>1. pc'[t] = "fgets" /\ pc[t] = "request" /\ UNCHANGED <<line, answer, conn>>
    BY <1>1, <1>7 DEF MakeRequest, ThreadStep
  <2>2. ASSUME t \in Clients, conn'[t] = "open"
        PROVE  SoFar(t)'
    <3>1. f_pos'[t] = Begins(t)' /\ got'[t] = <<>>
      BY <1>7, <2>1, <2>2, RequestPositions
    <3>2. /\ log' \in Seq(Strings) /\ f_pos'[t] \in Nat
          /\ Contents' \in Seq(Stored) /\ Len(Contents') \in Nat
      <4>1. (DeviceTypes /\ (log \in Seq(Strings) => Contents \in Strings /\ Len(Contents) \in Nat))'
        BY TypeParts, DeviceStart, PTL
      <4>2. QED
        BY <1>1, <4>1 DEF DeviceTypes, Strings
    <3>3. Begins(t)' <= Len(Contents')
      <4>1. (log \in Seq(Strings) => AnswersBegin)'
        BY AnswersBeginInContents, PTL
      <4>2. QED
        BY <2>2, <3>2, <4>1 DEF AnswersBegin
    <3>4. answer'[t] = <<>> /\ line'[t] = <<>>
      BY <1>2, <1>3, <2>1, <2>2 DEF RequestKept, FileKept
    <3>5. (answer'[t] \o line'[t]) \o got'[t] = <<>>
      BY <3>1, <3>4, EmptySeq, ConcatEmptySeq
    <3>6. SubSeq(Contents', f_pos'[t] + 1, f_pos'[t]) = <<>>
      <4> DEFINE m == f_pos'[t] + 1
                 n == f_pos'[t]
      <4>1. m \in Nat \ {0} /\ n \in Int /\ n <= Len(Contents') /\ ~(m <= n)
        BY <3>1, <3>2, <3>3
      <4> HIDE DEF m, n
      <4>2. SubSeq(Contents', m, n) \in Seq(Stored) /\ Len(SubSeq(Contents', m, n)) = 0
        BY <3>2, <4>1, PieceType
      <4>3. QED
        BY <4>2, EmptySeq DEF m, n
    <3>7. SubSeq(Contents', Begins(t)' + 1, f_pos'[t]) = <<>>
      BY <3>1, <3>6
    <3>8. Begins(t)' <= f_pos'[t] /\ f_pos'[t] <= Len(Contents')
      BY <3>1, <3>2, <3>3
    <3>9. QED
      BY <3>5, <3>7, <3>8 DEF SoFar
  <2>3. t \in Clients => SoFar(t)'
    BY <2>2 DEF SoFar
  <2>4. QED
    BY <1>4, <2>1, <2>3
<1>8. ASSUME Underflow(t) \/ Take(t) \/ SendLine(t)
      PROVE  Kept
  <2>1. pc'[t] = "fgets" /\ pc[t] = "fgets" /\ conn' = conn
    BY <1>1, <1>8 DEF Underflow, Take, SendLine, ThreadStep
  <2>2. t \in Clients => SoFar(t)'
    BY <1>2, <1>8, <2>1, UnderflowKeeps, TakeKeeps, SendLineKeeps DEF SoFar
  <2>3. QED
    BY <1>4, <2>1, <2>2
<1>9. ASSUME Close(t)
      PROVE  Kept
  <2>1. pc'[t] = "done" /\ line'[t] = <<>>
    BY <1>1, <1>9 DEF Close, ThreadStep
  <2>2. QED
    BY <1>4, <2>1 DEF SoFar
<1>10. Kept
  BY <1>5, <1>6, <1>7, <1>8, <1>9 DEF threadFunc
<1>11. RequestsKept' /\ FilesKept' /\ AnswerSoFar'
  <2>1. /\ \A c \in Clients : RequestKept(c)' /\ SoFar(c)'
        /\ \A u \in Threads : FileKept(u)'
    BY <1>10, ThreadOthers
  <2>2. (/\ RequestsKept <=> \A c \in Clients : RequestKept(c)
         /\ FilesKept <=> \A u \in Threads : FileKept(u)
         /\ AnswerSoFar <=> \A c \in Clients : SoFar(c))'
    BY DEF RequestsKept, RequestKept, FilesKept, FileKept, AnswerSoFar, SoFar, Begins
  <2>3. QED
    BY <2>1, <2>2
<1>12. QED
  BY <1>11 DEF AnswerInv

LEMMA AnswerInvInit == Init => AnswerInv
<1> SUFFICES ASSUME Init
             PROVE  AnswerInv
  OBVIOUS
<1>1. Clients \subseteq Threads
  BY DEF Threads
<1>2. /\ backlog = <<>> /\ main = "check" /\ todo = Request
      /\ \A t \in Threads : pc[t] = "none" /\ line[t] = <<>>
      /\ \A c \in Clients : sent[c] = <<>> /\ answer[c] = <<>> /\ conn[c] = "off"
  BY DEF Init
<1>3. DOMAIN <<>> = {} /\ ToSet(<<>>) = {}
  BY DEF ToSet
<1>4. AcceptedOnce
  BY <1>1, <1>2, <1>3 DEF AcceptedOnce
<1>5. \A c \in Clients : sent[c] \o todo[c] = Request[c]
  <2>1. \A c \in Clients : <<>> \o Request[c] = Request[c]
    BY RequestTypes, ConcatEmptySeq DEF Strings
  <2>2. QED
    BY <1>2, <2>1
<1>6. QED
  BY <1>1, <1>2, <1>4, <1>5 DEF AnswerInv, RequestsKept, FilesKept, AnswerSoFar

LEMMA SockInvInit == Init => SockInv
<1>1. Init => LinesFit
  <2> SUFFICES ASSUME Init
               PROVE  LinesFit
    OBVIOUS
  <2>1. QED
    BY BufferAssumption DEF Init, LinesFit
<1>2. QED
  BY <1>1, TypeInit, ServerInvInit DEF SockInv

LEMMA SockInvNext == SockInv /\ [Next]_vars => SockInv'
BY TypeNext, ServerInvNext DEF SockInv

LEMMA AnswerInvNext == SockInv /\ AnswerInv /\ [Next]_vars => AnswerInv'
<1> SUFFICES ASSUME SockInv, AnswerInv, [Next]_vars
             PROVE  AnswerInv'
  OBVIOUS
<1>1. AcceptedOnce' /\ NobodyTwice
  BY AcceptedNext DEF AnswerInv
<1>2. TypeOK'
  BY SockInvNext DEF SockInv
<1>3. CASE OthersStep
  BY <1>1, <1>3, OthersAnswer
<1>4. ASSUME NEW t \in Threads, threadFunc(t)
      PROVE  AnswerInv'
  BY <1>1, <1>2, <1>4, ThreadAnswer
<1>5. QED
  BY <1>3, <1>4 DEF Next, OthersStep

(* Only at the end of the file the connection is closed.                   *)
LEMMA EndOfAnswer ==
  ASSUME SockInv, AnswerInv, [Next]_vars, NEW c \in Clients,
         conn[c] = "open", pc[c] = "fgets", pc'[c] = "done"
  PROVE  answer[c] = SubSeq(Contents, From(Head(Request[c])) + 1, Len(Contents))
<1>1. /\ pc \in [Threads -> Points] /\ c \in Threads /\ log \in Seq(Strings)
      /\ f_pos[c] \in Nat /\ answer[c] \in Seq(Stored) /\ Contents \in Seq(Stored)
      /\ Len(Contents) \in Nat
  BY TypeParts, DeviceStart
     DEF SockInv, ThreadTypes, DeviceTypes, NetworkTypes, Threads, Strings
<1>2. PICK t \in Threads : threadFunc(t)
  <2>1. ~OthersStep
    BY <1>1, OthersNext DEF AnswerInv, OthersKeep
  <2>2. QED
    BY <2>1 DEF Next, OthersStep
<1>3. Close(c)
  BY <1>1, <1>2 DEF threadFunc, Recv, Fopen, MakeRequest, Underflow, Take, SendLine, Close, ThreadStep
<1>4. line[c] = <<>> /\ got[c] = <<>> /\ Device!Served(f_pos[c], 1) = <<>>
  BY <1>3 DEF Close, AtEnd
<1>5. /\ f_pos[c] <= Len(Contents)
      /\ (answer[c] \o line[c]) \o got[c] = SubSeq(Contents, From(Head(Request[c])) + 1, f_pos[c])
  BY DEF AnswerInv, AnswerSoFar
<1>6. f_pos[c] = Len(Contents)
  <2> SUFFICES ASSUME f_pos[c] < Len(Contents)
               PROVE  FALSE
    BY <1>1, <1>5
  <2>1. PICK to \in Nat : /\ f_pos[c] < to /\ to <= Len(Contents)
                          /\ Device!Served(f_pos[c], 1) = SubSeq(Contents, f_pos[c] + 1, to)
    <3>1. 1 \in Nat \ {0}
      OBVIOUS
    <3>2. QED
      BY <1>1, <3>1, ServedIs
  <2> DEFINE m == f_pos[c] + 1
  <2>2. m \in Nat \ {0} /\ m <= to
    BY <1>1, <2>1
  <2>3. SubSeq(Contents, m, to) = <<>>
    BY <1>4, <2>1
  <2> HIDE DEF m
  <2>4. Len(SubSeq(Contents, m, to)) = to - m + 1
    BY <1>1, <2>1, <2>2, PieceType
  <2>5. Len(<<>>) = 0
    OBVIOUS
  <2>6. QED
    BY <2>2, <2>3, <2>4, <2>5
<1>7. (answer[c] \o line[c]) \o got[c] = answer[c]
  BY <1>1, <1>4, ConcatEmptySeq
<1>8. QED
  BY <1>5, <1>6, <1>7

(* Whoever is answered gets everything the device holds from where the     *)
(* answer begins, however the request arrived and was read, and however    *)
(* the commands and the lines divide the bytes.                            *)
THEOREM AnswerCorrect == Spec => AnswerIsTheContents
<1>1. SockInv /\ AnswerInv /\ [Next]_vars =>
        \A c \in Clients : conn[c] = "open" /\ pc[c] = "fgets" /\ pc'[c] = "done" =>
          answer[c] = SubSeq(Contents, From(Head(Request[c])) + 1, Len(Contents))
  BY EndOfAnswer
<1>2. QED
  BY <1>1, SockInvInit, SockInvNext, AnswerInvInit, AnswerInvNext, PTL
     DEF Spec, AnswerIsTheContents


-----------------------------------------------------------------------------
(* Clients that send one line.                                             *)
SendsLine(c) == Head(Request[c]) \notin SeekTos

IsLine(r) ==
  Last(r) = NL /\ Len(r) < BufferSize /\ \A i \in 1 .. Len(r) : r[i] # NUL

LinesOnly == \A c \in Clients : SendsLine(c) => IsLine(Request[c])

EndsWith(t, s) == \E u \in Seq(Stored) : t = u \o s

(* What is known of the line of client c.                                  *)
LineKept(c) ==
  /\ Unread(c) \/ pc[c] \in {"fopen", "request", "fgets"} => conn[c] # "closed"
  /\ Unread(c) => sent[c] \in {<<>>, Request[c]}
  /\ pc[c] \in {"fopen", "request"} /\ conn[c] = "open" => text[c] = Request[c]
  /\ pc[c] = "fgets" /\ conn[c] = "open" => log # <<>> /\ EndsWith(Last(log), Request[c])
  /\ pc[c] = "done" /\ conn[c] = "closed" => EndsWith(answer[c], Request[c])

BufferIsClear == \A t \in Threads : pc[t] = "recv" => buf[t] = Zeros

LinesKept == \A c \in Clients : SendsLine(c) => LineKept(c)

LineInv == BufferIsClear /\ LinesKept

LEMMA EndsWithIsSuffix ==
  ASSUME NEW s \in Strings, NEW t \in Strings, EndsWith(t, s)
  PROVE  IsSuffix(s, t)
<1>1. PICK u \in Seq(Stored) : t = u \o s
  BY DEF EndsWith
<1> DEFINE m == Len(u)
           n == Len(s)
<1>2. m \in Nat /\ n \in Nat /\ Len(t) = m + n /\ s \in Seq(Stored) /\ t \in Seq(Stored)
  BY <1>1, LenProperties, ConcatProperties DEF Strings
<1>3. \A i \in 1 .. n : t[m + i] = s[i]
  <2>1. \A j \in 1 .. Len(u) + Len(s) :
          (u \o s)[j] = IF j <= Len(u) THEN u[j] ELSE s[j - Len(u)]
    BY <1>2, ConcatProperties
  <2>2. \A j \in 1 .. m + n : t[j] = IF j <= m THEN u[j] ELSE s[j - m]
    BY <1>1, <2>1
  <2> HIDE DEF m, n
  <2>3. \A i \in 1 .. n : m + i \in 1 .. m + n /\ ~(m + i <= m) /\ (m + i) - m = i
    BY <1>2
  <2>4. QED
    BY <2>2, <2>3
<1> DEFINE rs == Reverse(s)
           rt == Reverse(t)
<1>4. /\ rs = [i \in 1 .. n |-> s[(n - i) + 1]]
      /\ rt = [i \in 1 .. m + n |-> t[((m + n) - i) + 1]]
  BY <1>2 DEF Reverse
<1> HIDE DEF m, n, rs, rt
<1>5. rs \in Seq(Stored) /\ rt \in Seq(Stored) /\ Len(rs) = n /\ Len(rt) = m + n
  <2>1. /\ \A i \in 1 .. n : (n - i) + 1 \in 1 .. n
        /\ \A i \in 1 .. m + n : ((m + n) - i) + 1 \in 1 .. m + n
    BY <1>2
  <2>2. /\ \A i \in 1 .. n : s[i] \in Stored
        /\ \A i \in 1 .. m + n : t[i] \in Stored
    BY <1>2, ElementOfSeq DEF n
  <2>3. rs \in [1 .. n -> Stored] /\ rt \in [1 .. m + n -> Stored] /\ m + n \in Nat
    BY <1>2, <1>4, <2>1, <2>2
  <2>4. QED
    BY <1>2, <2>3
<1>6. SubSeq(rs, 1, n) = SubSeq(rt, 1, n)
  <2>1. \A i \in 1 .. n : rs[i] = rt[i]
    <3>1. SUFFICES ASSUME NEW i \in 1 .. n
                   PROVE  rs[i] = rt[i]
      OBVIOUS
    <3>2. (n - i) + 1 \in 1 .. n /\ ((m + n) - i) + 1 = m + ((n - i) + 1) /\ i \in 1 .. m + n
      BY <1>2
    <3>3. t[m + ((n - i) + 1)] = s[(n - i) + 1]
      BY <1>3, <3>2
    <3>4. QED
      BY <1>4, <3>2, <3>3
  <2>2. 1 \in Nat \ {0} /\ n \in Int /\ n <= Len(rs) /\ n <= Len(rt)
    BY <1>2, <1>5
  <2>3. /\ SubSeq(rs, 1, n) \in Seq(Stored) /\ SubSeq(rt, 1, n) \in Seq(Stored)
        /\ Len(SubSeq(rs, 1, n)) = Len(SubSeq(rt, 1, n))
        /\ Len(SubSeq(rs, 1, n)) = IF 1 <= n THEN n - 1 + 1 ELSE 0
        /\ \A i \in 1 .. n - 1 + 1 : /\ SubSeq(rs, 1, n)[i] = rs[1 + i - 1]
                                     /\ SubSeq(rt, 1, n)[i] = rt[1 + i - 1]
    BY <1>5, <2>2, PieceType
  <2>4. /\ Len(SubSeq(rs, 1, n)) = n
        /\ \A i \in 1 .. n : i \in 1 .. n - 1 + 1 /\ 1 + i - 1 = i
    BY <1>2, <2>3
  <2>5. \A i \in 1 .. Len(SubSeq(rs, 1, n)) : SubSeq(rs, 1, n)[i] = SubSeq(rt, 1, n)[i]
    BY <2>1, <2>3, <2>4
  <2>6. QED
    BY <2>3, <2>5, SeqEqual
<1>7. QED
  BY <1>2, <1>5, <1>6 DEF IsSuffix, IsPrefix, rs, rt

(* The newest command ends the contents.                                   *)
LEMMA ContentsEnd ==
  ASSUME log \in Seq(Strings), log # <<>>, NEW r \in Strings, EndsWith(Last(log), r)
  PROVE  EndsWith(Contents, r)
<1> DEFINE k == Len(log)
           p == FlattenSeq(SubSeq(log, 1, k - 1))
<1>1. k \in Nat /\ k # 0 /\ log \in Seq(Seq(Stored))
  BY LenProperties, EmptySeq DEF Strings
<1>2. k \in 1 .. k /\ k - 1 \in 0 .. k
  BY <1>1
<1>3. p \in Seq(Stored) /\ Contents = p \o log[k]
  <2>1. /\ \A j \in 0 .. Len(log) : FlattenSeq(SubSeq(log, 1, j)) \in Seq(Stored)
        /\ \A j \in 1 .. Len(log) :
             FlattenSeq(SubSeq(log, 1, j)) = FlattenSeq(SubSeq(log, 1, j - 1)) \o log[j]
        /\ FlattenSeq(SubSeq(log, 1, Len(log))) = FlattenSeq(log)
    BY <1>1, FlattenPrefix
  <2>2. QED
    BY <1>2, <2>1 DEF Contents
<1>4. PICK u \in Seq(Stored) : log[k] = u \o r
  BY DEF EndsWith, Last
<1> HIDE DEF p, k
<1>5. r \in Seq(Stored)
  BY DEF Strings
<1>6. (p \o u) \o r = p \o (u \o r)
  BY <1>3, <1>5, ConcatAssociative
<1>7. p \o u \in Seq(Stored)
  BY <1>3, ConcatProperties
<1>8. Contents = (p \o u) \o r
  BY <1>3, <1>4, <1>6
<1>9. QED
  BY <1>7, <1>8 DEF EndsWith

(* A line that is written completes the newest command.                    *)
LEMMA WriteEnds ==
  ASSUME log \in Seq(Strings), partial \in Strings, NEW r \in Strings, r # <<>>, Last(r) = NL,
         Device!Write(r)
  PROVE  log' # <<>> /\ EndsWith(Last(log'), r)
<1> DEFINE nl == Device!LastNewline(r)
<1>1. r \in Seq(Stored) /\ Len(r) \in Nat /\ Len(r) # 0
  BY LenProperties, EmptySeq DEF Strings
<1>2. nl = Len(r)
  <2> DEFINE T == {0} \cup {i \in 1 .. Len(r) : r[i] = NL}
  <2>1. T \subseteq 0 .. Len(r) /\ T # {} /\ Len(r) \in T
    BY <1>1 DEF Last
  <2> HIDE DEF T
  <2>2. Max(T) \in T /\ \A y \in T : Max(T) >= y
    BY <1>1, <2>1, MaxOfBounded
  <2>3. Max(T) = Len(r)
    <3> DEFINE x == Max(T)
               n == Len(r)
    <3>1. x \in 0 .. n /\ x >= n /\ n \in Nat
      BY <1>1, <2>1, <2>2
    <3> HIDE DEF x, n
    <3>2. x = n
      BY <3>1
    <3>3. QED
      BY <3>2 DEF x, n
  <2>4. QED
    BY <2>3, SameLibrary DEF T, Device!LastNewline
<1> DEFINE e == partial \o r
           l == IF Len(log) < MaxOps THEN log ELSE Tail(log)
<1>3. log' = Append(l, e)
  <2>1. nl # 0 /\ SubSeq(r, 1, nl) = r
    BY <1>1, <1>2, SubSeqFull
  <2> HIDE DEF nl
  <2>2. log' = Device!Log!Pushed(log, e)
    BY <2>1 DEF Device!Write, nl
  <2>3. QED
    BY <2>2 DEF Device!Log!Pushed
<1>4. l \in Seq(Strings)
  <2>1. Len(log) \in Nat /\ MaxOps \in Nat \ {0}
    BY LenProperties, DeviceAssumption
  <2>2. CASE Len(log) < MaxOps
    BY <2>2
  <2>3. CASE ~(Len(log) < MaxOps)
    <3>1. log # <<>>
      BY <2>1, <2>3
    <3>2. QED
      BY <2>3, <3>1, HeadTailProperties
  <2>4. QED
    BY <2>2, <2>3
<1>5. e \in Strings
  BY <1>1, ConcatProperties DEF Strings
<1> HIDE DEF l
<1>6. Last(log') = e /\ log' # <<>>
  <2> HIDE DEF e
  <2>1. Append(l, e) \in Seq(Strings) /\ Len(Append(l, e)) = Len(l) + 1
        /\ Append(l, e)[Len(l) + 1] = e /\ Len(l) \in Nat
    BY <1>4, <1>5, AppendProperties, LenProperties
  <2>2. QED
    BY <1>3, <2>1 DEF Last
<1>7. QED
  BY <1>6 DEF EndsWith, Strings

(* Without pieces, what a client sends is all it has to send.              *)
LEMMA SendsAll ==
  ASSUME SockInv, AnswerInv, ~Segments, OthersStep, NEW c \in Clients, Unread(c)
  PROVE  sent'[c] \in {sent[c], Request[c]}
<1>1. /\ sent \in [Clients -> Strings] /\ todo \in [Clients -> Strings]
      /\ sent[c] \o todo[c] = Request[c]
  BY TypeParts, AnswerParts DEF SockInv, NetworkTypes, AnswerInv, RequestKept
<1>2. ASSUME NEW e \in Clients, Send(e)
      PROVE  sent'[c] \in {sent[c], Request[c]}
  <2>1. sent' = [sent EXCEPT ![e] = @ \o SubSeq(todo[e], 1, Len(todo[e]))]
    BY <1>2 DEF Send
  <2>2. CASE e = c
    <3>1. SubSeq(todo[c], 1, Len(todo[c])) = todo[c]
      BY <1>1, SubSeqFull DEF Strings
    <3>2. sent'[c] = sent[c] \o todo[c]
      BY <1>1, <2>1, <2>2, <3>1
    <3>3. QED
      BY <1>1, <3>2
  <2>3. CASE e # c
    BY <1>1, <2>1, <2>3
  <2>4. QED
    BY <2>2, <2>3
<1>3. ASSUME ~(\E e \in Clients : Send(e))
      PROVE  sent' = sent
  BY <1>3 DEF OthersStep, Connect, Leave, MainThread, Check, Listen, Accept, Create, Join, CloseServer,
       JoinTimerAndExit, MainStep, timestamp, Signal, signal_handler, HandlerShutdown, HandlerSet,
       vars, network
<1>4. QED
  BY <1>2, <1>3

(* Only connections that wait to be accepted are reset.                    *)
LEMMA NobodyReset ==
  ASSUME SockInv, AcceptedOnce, OthersStep, NEW c \in Clients, Unread(c)'
  PROVE  conn'[c] = "closed" => conn[c] = "closed"
<1>1. conn \in [Clients -> {"off", "open", "gone", "closed"}]
  BY TypeParts DEF SockInv, NetworkTypes
<1>2. ASSUME BacklogReset, pc' = pc, main' = "create" => main = "create" /\ socket_client' = socket_client
      PROVE  conn'[c] = "closed" => conn[c] = "closed"
  <2>1. ToSet(backlog') = {}
    BY <1>2 DEF BacklogReset, ToSet
  <2>2. CASE c \in ToSet(backlog)
    <3>1. conn'[c] = "closed" /\ pc[c] # "recv" /\ ~(main = "create" /\ socket_client = c)
      BY <1>2, <2>2 DEF BacklogReset, AcceptedOnce, Unaccepted
    <3>2. QED
      BY <1>2, <2>1, <3>1 DEF Unread, Unaccepted
  <2>3. CASE c \notin ToSet(backlog)
    BY <1>2, <2>3 DEF BacklogReset
  <2>4. QED
    BY <2>2, <2>3
<1>3. CASE HandlerShutdown
  BY <1>2, <1>3 DEF HandlerShutdown, thread
<1>4. CASE CloseServer
  BY <1>2, <1>4 DEF CloseServer, MainStep
<1>5. ASSUME ~HandlerShutdown, ~CloseServer
      PROVE  \/ conn' = conn
             \/ \E e \in Clients : \E v \in {"open", "gone"} : conn' = [conn EXCEPT ![e] = v]
  BY <1>5 DEF OthersStep, Connect, Send, Leave, MainThread, Check, Listen, Accept, Create, Join,
       JoinTimerAndExit, MainStep, timestamp, Signal, signal_handler, HandlerSet, vars, network
<1>6. CASE ~HandlerShutdown /\ ~CloseServer
  BY <1>1, <1>5, <1>6
<1>7. QED
  BY <1>3, <1>4, <1>6

LEMMA OthersLine ==
  ASSUME SockInv, AnswerInv, LineInv, ~Segments, ~StackReused, OthersStep, NobodyTwice
  PROVE  LineInv'
<1>1. OthersKeep /\ Clients \subseteq Threads
  BY OthersNext DEF AnswerInv, Threads
<1>2. BufferIsClear'
  BY <1>1 DEF OthersKeep, LineInv, BufferIsClear, Zeros
<1>3. ASSUME NEW c \in Clients, LineKept(c)
      PROVE  LineKept(c)'
  <2>1. Unread(c)' => sent'[c] \in {<<>>, Request[c]}
    <3>1. Unread(c)' => Unread(c)
      BY DEF NobodyTwice
    <3>2. Unread(c) => sent'[c] \in {sent[c], Request[c]}
      BY SendsAll
    <3>3. QED
      BY <1>3, <3>1, <3>2 DEF LineKept
  <2>2. /\ UNCHANGED <<log, text, answer>>
        /\ pc'[c] \in {"fopen", "request", "fgets", "done"} =>
             /\ pc'[c] = pc[c]
             /\ conn'[c] \in {"open", "closed"} => conn'[c] = conn[c]
    BY <1>1 DEF OthersKeep, device
  <2>3. Unread(c)' \/ pc'[c] \in {"fopen", "request", "fgets"} => conn'[c] # "closed"
    <3>1. Unread(c)' => Unread(c)
      BY DEF NobodyTwice
    <3>2. Unread(c)' => (conn'[c] = "closed" => conn[c] = "closed")
      BY NobodyReset DEF AnswerInv
    <3>3. QED
      BY <1>3, <2>2, <3>1, <3>2 DEF LineKept
  <2>4. QED
    BY <1>3, <2>1, <2>2, <2>3 DEF LineKept
<1>4. QED
  BY <1>2, <1>3 DEF LineInv, LinesKept

(* One recv takes the whole line, and nothing is behind it.                *)
LEMMA RecvLine ==
  ASSUME SockInv, NEW t \in Clients, IsLine(Request[t]), Recv(t), conn[t] = "open",
         sent[t] \in {<<>>, Request[t]}, buf[t] = Zeros
  PROVE  text'[t] = Request[t]
<1> DEFINE r == Request[t]
           n == Min({Len(sent[t]), BufferSize - 1})
           b == [i \in 1 .. BufferSize |-> IF i <= n THEN sent[t][i] ELSE buf[t][i]]
           h == SubSeq(b, 1, n + 1)
<1>1. /\ r \in Seq(Stored) /\ Len(r) \in Nat /\ Len(r) # 0 /\ Len(r) < BufferSize
      /\ text \in [Threads -> Strings] /\ t \in Threads /\ BufferSize \in Nat /\ BufferSize > 1
  BY TypeParts, RequestTypes, LenProperties, EmptySeq, BufferAssumption
     DEF SockInv, ThreadTypes, Threads, Strings, IsLine
<1>2. sent[t] = r /\ \E x \in Texts(h) : text' = [text EXCEPT ![t] = x]
  BY ClientsAssumption DEF Recv
<1>3. n = Len(r)
  <2> DEFINE T == {Len(sent[t]), BufferSize - 1}
  <2>1. T \subseteq Nat /\ Len(r) \in T /\ \A y \in T : Len(r) <= y
    BY <1>1, <1>2
  <2> HIDE DEF T
  <2>2. Min(T) \in T /\ \A y \in T : Min(T) <= y
    BY <2>1, MinOfNaturals
  <2> DEFINE x == Min(T)
             k == Len(r)
  <2>3. x \in Nat /\ k \in Nat /\ x <= k /\ k <= x
    BY <1>1, <2>1, <2>2
  <2> HIDE DEF x, k
  <2>4. x = k
    BY <2>3
  <2>5. QED
    BY <2>4 DEF x, k, T
<1> HIDE DEF n
<1>4. /\ b \in [1 .. BufferSize -> Stored \cup {NUL}] /\ b[n + 1] = NUL
      /\ \A i \in 1 .. n : b[i] = r[i]
  <2>1. \A i \in 1 .. n : r[i] \in Stored
    BY <1>1, <1>3, ElementOfSeq
  <2>2. b = [i \in 1 .. BufferSize |-> IF i <= n THEN r[i] ELSE NUL]
    BY <1>1, <1>2 DEF Zeros
  <2>3. n + 1 \in 1 .. BufferSize /\ ~(n + 1 <= n) /\ \A i \in 1 .. n : i \in 1 .. BufferSize
    BY <1>1, <1>3
  <2> HIDE DEF b
  <2>4. \A i \in 1 .. BufferSize : i <= n => i \in 1 .. n
    BY <1>1, <1>3
  <2>5. QED
    BY <2>1, <2>2, <2>3, <2>4
<1> HIDE DEF b
<1>5. /\ h \in Seq(Stored \cup {NUL}) /\ Len(h) = n + 1 /\ h[n + 1] = NUL
      /\ \A i \in 1 .. n : h[i] = r[i]
  <2>1. b \in Seq(Stored \cup {NUL}) /\ Len(b) = BufferSize
    <3>1. b \in Seq(Stored \cup {NUL})
      BY <1>1, <1>4, SeqDef
    <3>2. DOMAIN b = 1 .. BufferSize /\ DOMAIN b = 1 .. Len(b) /\ Len(b) \in Nat
      BY <1>4, <3>1, LenProperties
    <3>3. BufferSize \in 1 .. Len(b) /\ (Len(b) > 0 => Len(b) \in 1 .. BufferSize)
      BY <1>1, <3>2
    <3>4. QED
      BY <1>1, <3>1, <3>2, <3>3
  <2> DEFINE m == n + 1
  <2>2. m \in Int /\ m <= Len(b) /\ m >= 1 /\ 1 \in Nat \ {0} /\ n \in 1 .. m
    BY <1>1, <1>3, <2>1
  <2>3. \A i \in 1 .. n : i \in 1 .. m
    BY <1>1, <1>3
  <2>4. b[m] = NUL
    BY <1>4
  <2> HIDE DEF m
  <2>5. /\ SubSeq(b, 1, m) \in Seq(Stored \cup {NUL})
        /\ Len(SubSeq(b, 1, m)) = IF 1 <= m THEN m - 1 + 1 ELSE 0
        /\ \A i \in 1 .. m - 1 + 1 : SubSeq(b, 1, m)[i] = b[1 + i - 1]
    BY <2>1, <2>2, PieceType
  <2>6. /\ Len(SubSeq(b, 1, m)) = m
        /\ \A i \in 1 .. m : SubSeq(b, 1, m)[i] = b[i]
    <3>1. m - 1 + 1 = m /\ \A i \in 1 .. m : i \in 1 .. m - 1 + 1 /\ 1 + i - 1 = i
      BY <2>2
    <3>2. QED
      BY <2>2, <2>5, <3>1
  <2>7. m \in 1 .. m
    BY <2>2
  <2>8. h = SubSeq(b, 1, m)
    BY DEF m
  <2>9. h[m] = NUL /\ \A i \in 1 .. n : h[i] = r[i]
    BY <1>4, <2>3, <2>4, <2>6, <2>7, <2>8
  <2>10. QED
    BY <2>5, <2>6, <2>8, <2>9 DEF m
<1> HIDE DEF h
<1>6. {i \in 1 .. Len(h) : h[i] = NUL} = {n + 1}
  <2>1. \A i \in 1 .. n + 1 : i \in 1 .. n \/ i = n + 1
    BY <1>1, <1>3
  <2>2. \A i \in 1 .. n : h[i] # NUL
    BY <1>3, <1>5 DEF IsLine
  <2>3. n + 1 \in 1 .. n + 1
    BY <1>1, <1>3
  <2>4. QED
    BY <1>5, <2>1, <2>2, <2>3
<1>7. Texts(h) = {SubSeq(h, 1, n)}
  <2>1. Min({n + 1}) = n + 1
    <3> DEFINE T == {n + 1}
    <3>1. T \subseteq Nat /\ T # {}
      BY <1>1, <1>3
    <3>2. Min(T) \in T
      BY <3>1, MinOfNaturals
    <3>3. QED
      BY <3>2
  <2>2. n + 1 - 1 = n
    BY <1>1, <1>3
  <2>3. Texts(h) = {SubSeq(h, 1, Min({n + 1}) - 1)}
    BY <1>6 DEF Texts
  <2> DEFINE x == Min({n + 1})
  <2>4. x = n + 1 /\ Texts(h) = {SubSeq(h, 1, x - 1)}
    BY <2>1, <2>3
  <2> HIDE DEF x
  <2>5. n \in Nat
    BY <1>1, <1>3
  <2>6. x - 1 = n
    BY <2>4, <2>5
  <2>7. QED
    BY <2>4, <2>6
<1>8. SubSeq(h, 1, n) = r
  <2>1. n \in Int /\ n <= Len(h) /\ 1 \in Nat \ {0} /\ n >= 1
    BY <1>1, <1>3, <1>5
  <2>2. /\ SubSeq(h, 1, n) \in Seq(Stored \cup {NUL})
        /\ Len(SubSeq(h, 1, n)) = IF 1 <= n THEN n - 1 + 1 ELSE 0
        /\ \A i \in 1 .. n - 1 + 1 : SubSeq(h, 1, n)[i] = h[1 + i - 1]
    BY <1>5, <2>1, PieceType
  <2>3. n - 1 + 1 = n /\ \A i \in 1 .. n : i \in 1 .. n - 1 + 1 /\ 1 + i - 1 = i
    BY <2>1
  <2>4. /\ Len(SubSeq(h, 1, n)) = n
        /\ \A i \in 1 .. n : SubSeq(h, 1, n)[i] = r[i]
    BY <1>5, <2>1, <2>2, <2>3
  <2>5. r \in Seq(Stored \cup {NUL})
    BY <1>1, SeqMonotonic
  <2>6. Len(SubSeq(h, 1, n)) = Len(r)
    BY <1>3, <2>4
  <2>7. \A i \in 1 .. Len(SubSeq(h, 1, n)) : SubSeq(h, 1, n)[i] = r[i]
    BY <2>4
  <2>8. QED
    BY <2>2, <2>5, <2>6, <2>7, SeqEqual
<1>9. QED
  BY <1>1, <1>2, <1>7, <1>8

LEMMA ThreadLine ==
  ASSUME SockInv, AnswerInv, LineInv, LinesOnly, SockInv', [Next]_vars, NobodyTwice,
         NEW t \in Threads, threadFunc(t)
  PROVE  LineInv'
<1>1. /\ pc \in [Threads -> Points] /\ Clients \subseteq Threads
      /\ sent \in [Clients -> Strings] /\ conn \in [Clients -> {"off", "open", "gone", "closed"}]
      /\ log \in Seq(Strings) /\ partial \in Strings
  BY TypeParts DEF SockInv, ThreadTypes, NetworkTypes, DeviceTypes, Threads
<1>2. pc[t] # "none" /\ \E to \in {"fopen", "request", "fgets", "done"} : pc' = [pc EXCEPT ![t] = to]
  BY DEF threadFunc, Recv, Fopen, MakeRequest, Underflow, Take, SendLine, Close, ThreadStep
<1>3. \A u \in Threads : u # t => pc[u] = "none" /\ pc'[u] = "none"
  BY <1>1, <1>2, OneThread
<1>4. BufferIsClear'
  BY <1>1, <1>2, <1>3 DEF BufferIsClear
<1>5. ASSUME NEW c \in Clients, c # t, LineKept(c)
      PROVE  LineKept(c)'
  <2>1. sent'[c] = sent[c]
    BY <1>1, <1>5 DEF threadFunc, Recv, Fopen, MakeRequest, Underflow, Take, SendLine, Close
  <2>2. pc'[c] = "none" /\ (Unread(c)' => Unread(c))
        /\ (conn'[c] = "closed" => conn[c] = "closed")
    <3>1. conn'[c] = "closed" => conn[c] = "closed"
      BY <1>1, <1>5 DEF threadFunc, Recv, Fopen, MakeRequest, Underflow, Take, SendLine, Close
    <3>2. QED
      BY <1>1, <1>3, <1>5, <3>1 DEF NobodyTwice
  <2>3. QED
    BY <1>5, <2>1, <2>2 DEF LineKept
<1>6. ASSUME t \in Clients, SendsLine(t), LineKept(t)
      PROVE  LineKept(t)'
  <2>1. ~Unread(t)'
    <3>1. ~Unaccepted(t)'
      BY <1>6, ThreadOthers
    <3>2. QED
      BY <1>1, <1>2, <3>1 DEF Unread
  <2>2. /\ IsLine(Request[t]) /\ Request[t] # <<>> /\ Request[t] \in Strings
        /\ Head(Request[t]) \notin SeekTos
    BY <1>6, RequestTypes DEF LinesOnly, SendsLine
  <2>3. CASE Recv(t)
    <3>1. pc'[t] = "fopen" /\ pc[t] = "recv" /\ conn' = conn
      BY <1>1, <2>3 DEF Recv, ThreadStep
    <3>2. buf[t] = Zeros /\ sent[t] \in {<<>>, Request[t]}
      BY <1>6, <3>1 DEF LineInv, BufferIsClear, LineKept, Unread
    <3>3. conn[t] = "open" => text'[t] = Request[t]
      BY <1>6, <2>2, <2>3, <3>2, RecvLine
    <3>4. conn'[t] # "closed"
      BY <1>6, <3>1 DEF LineKept, Unread
    <3>5. QED
      BY <2>1, <3>1, <3>3, <3>4 DEF LineKept
  <2>4. CASE Fopen(t)
    <3>1. pc'[t] = "request" /\ pc[t] = "fopen" /\ UNCHANGED <<conn, text>>
      BY <1>1, <2>4 DEF Fopen, ThreadStep
    <3>2. QED
      BY <1>6, <2>1, <3>1 DEF LineKept
  <2>5. CASE MakeRequest(t)
    <3>1. pc'[t] = "fgets" /\ pc[t] = "request" /\ conn' = conn
      BY <1>1, <2>5 DEF MakeRequest, ThreadStep
    <3>2. ASSUME conn[t] = "open"
          PROVE  log' # <<>> /\ EndsWith(Last(log'), Request[t])
      <4>1. text[t] = Request[t]
        BY <1>6, <3>1, <3>2 DEF LineKept
      <4>2. Device!Write(Request[t])
        BY <2>2, <2>5, <4>1 DEF MakeRequest
      <4>3. QED
        BY <1>1, <2>2, <4>2, WriteEnds DEF IsLine
    <3>3. EndsWith(Last(log), Request[t])' <=> EndsWith(Last(log'), Request[t])
      BY DEF EndsWith, Last
    <3>4. conn'[t] # "closed"
      BY <1>6, <3>1 DEF LineKept
    <3>5. QED
      BY <2>1, <3>1, <3>2, <3>3, <3>4 DEF LineKept
  <2>6. CASE Underflow(t) \/ Take(t) \/ SendLine(t)
    <3>1. pc'[t] = "fgets" /\ pc[t] = "fgets" /\ UNCHANGED <<conn, log>>
      BY <1>1, <2>6 DEF Underflow, Take, SendLine, ThreadStep, Device!Read, device
    <3>2. QED
      BY <1>6, <2>1, <3>1 DEF LineKept
  <2>7. CASE Close(t)
    <3>1. /\ pc'[t] = "done" /\ pc[t] = "fgets" /\ UNCHANGED <<log, answer>>
          /\ conn'[t] = "closed" => conn[t] \in {"open", "closed"}
      BY <1>1, <1>6, <2>7 DEF Close, ThreadStep, device
    <3>2. ASSUME conn[t] = "open"
          PROVE  EndsWith(answer[t], Request[t])
      <4>1. answer[t] = SubSeq(Contents, From(Head(Request[t])) + 1, Len(Contents))
        BY <1>6, <3>1, <3>2, EndOfAnswer
      <4>2. From(Head(Request[t])) + 1 = 1
        BY <2>2 DEF From
      <4>3. answer[t] = Contents
        BY <1>1, <4>1, <4>2, DeviceStart, SubSeqFull DEF Strings
      <4>4. EndsWith(Contents, Request[t])
        BY <1>1, <1>6, <2>2, <3>1, <3>2, ContentsEnd DEF LineKept
      <4>5. QED
        BY <4>3, <4>4
    <3>3. conn[t] # "closed"
      BY <1>6, <3>1 DEF LineKept
    <3>4. QED
      BY <2>1, <3>1, <3>2, <3>3 DEF LineKept
  <2>8. QED
    BY <2>3, <2>4, <2>5, <2>6, <2>7 DEF threadFunc
<1>7. LinesKept'
  BY <1>5, <1>6 DEF LineInv, LinesKept, SendsLine
<1>8. QED
  BY <1>4, <1>7 DEF LineInv

LEMMA LineInvInit == Init => LineInv
<1> SUFFICES ASSUME Init
             PROVE  LineInv
  OBVIOUS
<1>1. /\ \A t \in Threads : pc[t] = "none"
      /\ \A c \in Clients : sent[c] = <<>> /\ conn[c] = "off" /\ c \in Threads
  BY DEF Init, Threads
<1>2. QED
  BY <1>1 DEF LineInv, BufferIsClear, LinesKept, LineKept

(* A client that sends one line which arrives in one piece, at a thread    *)
(* whose stack nothing was in yet, gets an answer that ends with the line, *)
(* whatever the other clients send and the device held before.             *)
THEOREM LineCorrect ==
  ASSUME ~Segments, ~StackReused, LinesOnly
  PROVE  Spec => []AnswerEndsWithRequest
<1>1. SockInv /\ AnswerInv /\ LineInv /\ [Next]_vars => LineInv'
  <2> SUFFICES ASSUME SockInv, AnswerInv, LineInv, [Next]_vars
               PROVE  LineInv'
    OBVIOUS
  <2>1. NobodyTwice /\ SockInv'
    BY AcceptedNext, SockInvNext DEF AnswerInv
  <2>2. CASE OthersStep
    BY <2>1, <2>2, OthersLine
  <2>3. ASSUME NEW t \in Threads, threadFunc(t)
        PROVE  LineInv'
    BY <2>1, <2>3, ThreadLine
  <2>4. QED
    BY <2>2, <2>3 DEF Next, OthersStep
<1>2. SockInv /\ LineInv => AnswerEndsWithRequest
  <2> SUFFICES ASSUME SockInv, LineInv, NEW c \in Clients, conn[c] = "closed", pc[c] = "done",
                      Head(Request[c]) \notin SeekTos
               PROVE  IsSuffix(Request[c], answer[c])
    BY DEF AnswerEndsWithRequest
  <2>1. EndsWith(answer[c], Request[c])
    BY DEF LineInv, LinesKept, LineKept, SendsLine
  <2>2. answer[c] \in Strings /\ Request[c] \in Strings
    BY TypeParts, RequestTypes DEF SockInv, NetworkTypes
  <2>3. QED
    BY <2>1, <2>2, EndsWithIsSuffix
<1>3. QED
  BY <1>1, <1>2, SockInvInit, SockInvNext, AnswerInvInit, AnswerInvNext, LineInvInit, PTL DEF Spec
=============================================================================
