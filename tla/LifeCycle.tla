----------------------------- MODULE LifeCycle -----------------------------
(***************************************************************************)
(* The scripts that load and unload the driver and start and stop the      *)
(* server, beside a running server: aesdchar_load, aesdchar_unload,        *)
(* aesdsocket-start-stop.sh, and what main and the threads of the server   *)
(* do to its socket and to the file at OUTPUT_FILE.                        *)
(*                                                                         *)
(* The administrator runs one script at a time.  The server answers one    *)
(* client after the other, as main joins each thread that it starts.       *)
(***************************************************************************)
EXTENDS Naturals

CONSTANT Majors (* the major numbers alloc_chrdev_region may give          *)

ASSUME MajorsAssumption == Majors # {} /\ Majors \subseteq Nat \ {0}

VARIABLES
  loaded,  (* the major number of the loaded driver, 0 when there is none  *)
  node,    (* what is at /dev/aesdchar: a device with a major number, a    *)
           (* regular file, or nothing                                     *)
  script,  (* the step of a script that is next, none when none runs       *)
  ready,   (* loading while aesdchar_load runs, yes once it has succeeded, *)
           (* no when it failed, and after aesdchar_unload or the end of a *)
           (* server has removed the node                                  *)
  server,  (* where the server is                                          *)
  bound,   (* whether its socket has PORT                                  *)
  lingers, (* whether connections that a server closed still hold PORT     *)
  stream,  (* the file that the thread of a connection has open            *)
  told     (* cleanShutdown                                                *)

vars == <<loaded, node, script, ready, server, bound, lingers, stream, told>>

driver   == <<loaded, node, script, ready>>
instance == <<server, bound, lingers, stream, told>>

File(is, major) == [is |-> is, major |-> major]
Nothing == File("nothing", 0)
Regular == File("regular", 0)
Device  == [is : {"device"}, major : Majors]

Init ==
  /\ loaded = 0 /\ node = Nothing /\ script = "none" /\ ready = "no"
  /\ server = "none" /\ bound = FALSE /\ lingers = FALSE /\ stream = Nothing
  /\ told = FALSE

-----------------------------------------------------------------------------
(* aesdchar_load, which ends at the first command that fails.              *)

(* Mutation: the script goes on when insmod fails.                         *)
LoadAnyhow ==
  /\ script = "none" /\ loaded = 0 /\ loaded' \in Majors \cup {0}
  /\ script' = "rm before mknod" /\ ready' = "loading" /\ UNCHANGED <<node, instance>>

(* insmod fails when the driver is loaded, and when aesd_init_module does: *)
(* no number is left, or cdev_add fails and the number is given back.      *)
aesd_init_module ==
  /\ script = "none" /\ loaded = 0 /\ loaded' \in Majors /\ script' = "rm before mknod"
  /\ ready' = "loading" /\ UNCHANGED <<node, instance>>

(* Without a local aesdchar.ko the script calls modprobe, which succeeds   *)
(* when the driver is loaded: only the node is made again.                 *)
modprobe ==
  /\ script = "none" /\ loaded # 0 /\ script' = "rm before mknod"
  /\ ready' = "loading" /\ UNCHANGED <<loaded, node, instance>>

RemoveOldNode ==
  /\ script = "rm before mknod" /\ node' = Nothing /\ script' = "mknod"
  /\ UNCHANGED <<loaded, ready, instance>>

(* Mutation: the script goes on when mknod fails.                          *)
MakeNodeAnyhow ==
  /\ script = "mknod" /\ script' = "chgrp"
  /\ node' = IF node = Nothing THEN File("device", loaded) ELSE node
  /\ UNCHANGED <<loaded, ready, instance>>

(* mknod fails when a server has made a file there in the meantime.        *)
MakeNode ==
  /\ script = "mknod"
  /\ IF node = Nothing
     THEN node' = File("device", loaded) /\ script' = "chgrp" /\ UNCHANGED ready
     ELSE script' = "none" /\ ready' = "no" /\ UNCHANGED node
  /\ UNCHANGED <<loaded, instance>>

(* chgrp and chmod fail when there is no file, and when there is no group. *)
SetGroupAndMode ==
  /\ script = "chgrp" /\ script' = "none"
  /\ \/ ready' = IF ready = "loading" /\ node # Nothing THEN "yes" ELSE "no"
     \/ ready' = "no"
  /\ UNCHANGED <<loaded, node, instance>>

-----------------------------------------------------------------------------
(* aesdchar_unload                                                         *)

(* Mutation: the files of the driver do not keep it loaded.                *)
UnloadInUse ==
  /\ script = "none" /\ loaded # 0 /\ loaded' = 0 /\ script' = "rm"
  /\ ready' = "no" /\ UNCHANGED <<node, instance>>

(* rmmod, and in it aesd_cleanup_module, fails while a file of the driver  *)
(* is open: the owner of the operations is the module.                     *)
aesd_cleanup_module ==
  /\ script = "none" /\ loaded # 0 /\ stream.is # "device"
  /\ loaded' = 0 /\ script' = "rm" /\ ready' = "no"
  /\ UNCHANGED <<node, instance>>

RemoveStaleNode ==
  /\ script = "rm" /\ script' = "none" /\ node' = Nothing
  /\ UNCHANGED <<loaded, ready, instance>>

-----------------------------------------------------------------------------
(* aesdsocket-start-stop.sh, which exits with 0 whatever happened.         *)

(* start-stop-daemon -S starts nothing while a server runs.  It returns    *)
(* when the server has become a daemon.                                    *)
Start ==
  /\ script = "none" /\ server = "none" /\ server' = "started"
  /\ UNCHANGED <<driver, bound, lingers, stream, told>>

(* start-stop-daemon -K sends SIGTERM and does not wait.  Before signal()  *)
(* the server dies of it.                                                  *)
Stop ==
  /\ script = "none" /\ server # "none"
  /\ IF server \in {"started", "bound"}
     THEN server' = "none" /\ bound' = FALSE /\ UNCHANGED told
     ELSE told' = TRUE /\ UNCHANGED <<server, bound>>
  /\ UNCHANGED <<driver, lingers, stream>>

-----------------------------------------------------------------------------
(* The server.                                                             *)

(* Mutation: the socket does not have SO_REUSEADDR.                        *)
BindOnce ==
  /\ server = "started" /\ server' = "bound" /\ bound' = ~lingers
  /\ UNCHANGED <<driver, lingers, stream, told>>

(* socket, setsockopt and bind.  Only another server that listens at PORT  *)
(* could keep the server from having it: with SO_REUSEADDR connections     *)
(* that linger do not.                                                     *)
Bind ==
  /\ server = "started" /\ server' = "bound" /\ bound' = TRUE
  /\ UNCHANGED <<driver, lingers, stream, told>>

(* signal, and the start of the loop                                       *)
Listen ==
  /\ server = "bound" /\ server' = "accept"
  /\ UNCHANGED <<driver, bound, lingers, stream, told>>

(* fopen of OUTPUT_FILE with "a+": it opens the device, or a regular file, *)
(* which it makes when nothing is there.  A node without its driver cannot *)
(* be opened: the thread uses the NULL pointer and the server crashes.     *)
OpenOutput ==
  CASE node.is = "device" /\ node.major # loaded ->
         /\ server' = "none" /\ bound' = FALSE /\ lingers' = TRUE /\ told' = FALSE
         /\ UNCHANGED <<node, stream>>
    [] node = Nothing ->
         /\ node' = Regular /\ stream' = Regular /\ server' = "answer"
         /\ UNCHANGED <<bound, lingers, told>>
    [] OTHER ->
         /\ stream' = node /\ server' = "answer"
         /\ UNCHANGED <<node, bound, lingers, told>>

(* A client connects to PORT; or accept fails after the signal and a       *)
(* thread is started all the same.                                         *)
Accept ==
  /\ server = "accept" /\ (bound \/ told) /\ OpenOutput
  /\ UNCHANGED <<loaded, script, ready>>

(* fclose, close of the connection by the server first, and pthread_join   *)
Answered ==
  /\ server = "answer" /\ stream' = Nothing /\ lingers' = TRUE
  /\ server' = IF told THEN "remove" ELSE "accept"
  /\ UNCHANGED <<driver, bound, told>>

(* close, remove(OUTPUT_FILE), exit                                        *)
RemoveOutput ==
  /\ server = "remove" /\ server' = "none" /\ bound' = FALSE /\ told' = FALSE
  /\ node' = Nothing /\ ready' = "no"
  /\ UNCHANGED <<loaded, script, lingers, stream>>

PortIsFree ==
  /\ lingers /\ lingers' = FALSE
  /\ UNCHANGED <<driver, server, bound, stream, told>>

Server == Bind \/ Listen \/ Answered \/ RemoveOutput

Next ==
  \/ aesd_init_module \/ modprobe \/ RemoveOldNode \/ MakeNode \/ SetGroupAndMode
  \/ aesd_cleanup_module \/ RemoveStaleNode \/ Start \/ Stop
  \/ Server \/ Accept \/ PortIsFree

(* The scheduler runs the server.  Clients and the administrator may never *)
(* come, and accept waits for them, after a signal that came between the   *)
(* test of cleanShutdown and listen too.                                   *)
Fairness == WF_vars(Server)

Spec == Init /\ [][Next]_vars /\ Fairness

-----------------------------------------------------------------------------

TypeOK ==
  /\ loaded \in Majors \cup {0}
  /\ node \in Device \cup {Nothing, Regular}
  /\ stream \in Device \cup {Nothing, Regular}
  /\ script \in {"none", "rm before mknod", "mknod", "chgrp", "rm"}
  /\ ready \in {"no", "loading", "yes"}
  /\ server \in {"none", "started", "bound", "accept", "answer", "remove"}
  /\ bound \in BOOLEAN /\ lingers \in BOOLEAN /\ told \in BOOLEAN

(* After aesdchar_load has succeeded, the node is that of the driver which *)
(* is loaded, as long as no server has ended: not a node with the number   *)
(* of an earlier driver, and not a file that a server made while there was *)
(* no node.                                                                *)
LoadedNodeIsDevice == ready = "yes" => loaded # 0 /\ node = File("device", loaded)

(* A connection that has the device open has that of the driver which is   *)
(* loaded: the driver is not unloaded or loaded again under it.            *)
DeviceOutlivesStreams == stream.is = "device" => stream.major = loaded

(* A server that was started listens at PORT, also right after another one *)
(* that has answered clients, unless it ends before.                       *)
StartServes == server = "started" ~> server = "none" \/ (server = "accept" /\ bound)
=============================================================================
