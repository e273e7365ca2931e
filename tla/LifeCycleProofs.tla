-------------------------- MODULE LifeCycleProofs --------------------------
(***************************************************************************)
(* Proofs about LifeCycle, for any set of major numbers and any number of  *)
(* loads, unloads, starts, stops and clients.                              *)
(***************************************************************************)
EXTENDS LifeCycle, TLAPS

(* Why aesdchar_load leaves what it promises: while it runs the driver     *)
(* stays loaded, it has not promised anything yet, and before chgrp the    *)
(* node is the one it made unless a server has ended since.                *)
Loading ==
  /\ script # "none" => ready # "yes"
  /\ script \in {"rm before mknod", "mknod", "chgrp"} => loaded # 0
  /\ script = "chgrp" /\ ready = "loading" => node = File("device", loaded)

IInv == TypeOK /\ Loading /\ LoadedNodeIsDevice /\ DeviceOutlivesStreams

(* A driver that is loaded has a number: 0 is none.                        *)
LEMMA MajorNotZero == ASSUME NEW m \in Majors PROVE m # 0
  BY MajorsAssumption

(* The three kinds of files are told apart by what they are.               *)
LEMMA Kinds ==
  ASSUME NEW f \in Device \cup {Nothing, Regular}
  PROVE  /\ f.is = "device" => f.major \in Majors /\ f = File("device", f.major)
         /\ f \in {Nothing, Regular} => f.is # "device"
         /\ f.is # "device" => f \in {Nothing, Regular}
  BY DEF Device, Nothing, Regular, File

(* A device node of the loaded driver.                                     *)
LEMMA DeviceNode ==
  ASSUME NEW m \in Majors
  PROVE  File("device", m) \in Device /\ File("device", m) \notin {Nothing, Regular}
  BY DEF Device, Nothing, Regular, File

-----------------------------------------------------------------------------

LEMMA InitIInv == Init => IInv
<1>1. Nothing.is # "device"
  BY DEF Nothing, File
<1> QED
  BY <1>1 DEF Init, IInv, TypeOK, Loading, LoadedNodeIsDevice, DeviceOutlivesStreams

(* The scripts change the driver and its node.                             *)
LEMMA ScriptsKeepIInv ==
  ASSUME IInv,
         \/ aesd_init_module \/ modprobe \/ RemoveOldNode \/ MakeNode
         \/ SetGroupAndMode \/ aesd_cleanup_module \/ RemoveStaleNode
  PROVE  IInv'
<1> USE DEF IInv, TypeOK, Loading, LoadedNodeIsDevice, DeviceOutlivesStreams, instance
<1>1. CASE aesd_init_module
  <2>1. stream.is # "device"
    BY <1>1, Kinds, MajorNotZero DEF aesd_init_module, Device
  <2> QED
    BY <1>1, <2>1, MajorNotZero DEF aesd_init_module
<1>2. CASE modprobe
  BY <1>2 DEF modprobe
<1>3. CASE RemoveOldNode
  BY <1>3 DEF RemoveOldNode
<1>4. CASE MakeNode
  <2>1. loaded \in Majors
    BY <1>4 DEF MakeNode
  <2>2. File("device", loaded) \in Device
    BY <2>1, DeviceNode
  <2> QED
    BY <1>4, <2>1, <2>2 DEF MakeNode, Device
<1>5. CASE SetGroupAndMode
  BY <1>5 DEF SetGroupAndMode
<1>6. CASE aesd_cleanup_module
  BY <1>6 DEF aesd_cleanup_module
<1>7. CASE RemoveStaleNode
  BY <1>7 DEF RemoveStaleNode
<1> QED
  BY <1>1, <1>2, <1>3, <1>4, <1>5, <1>6, <1>7

(* Start, stop and the steps of the server that touch no file.             *)
LEMMA ProcessKeepsIInv ==
  ASSUME IInv, Start \/ Stop \/ Bind \/ Listen \/ PortIsFree
  PROVE  IInv'
  BY DEF IInv, TypeOK, Loading, LoadedNodeIsDevice, DeviceOutlivesStreams, driver,
         Start, Stop, Bind, Listen, PortIsFree

(* The server opens, closes and removes the file at OUTPUT_FILE.  It makes *)
(* a regular one only where there is no node, which a load that succeeded  *)
(* left, and it opens only a device whose driver is loaded.                *)
LEMMA FilesKeepIInv ==
  ASSUME IInv, Accept \/ Answered \/ RemoveOutput
  PROVE  IInv'
<1> USE DEF IInv, TypeOK, Loading, LoadedNodeIsDevice, DeviceOutlivesStreams
<1>1. CASE Accept
  <2> USE <1>1 DEF Accept
  <2>1. CASE node.is = "device" /\ node.major # loaded
    BY <2>1, Kinds DEF OpenOutput, File
  <2>2. CASE node = Nothing
    <3>1. Nothing.is # "device" /\ Regular.is # "device" /\ Nothing # Regular
      BY DEF Nothing, Regular, File
    <3>2. ready # "yes" /\ ~(script = "chgrp" /\ ready = "loading")
      BY <2>2, DeviceNode
    <3> QED
      BY <2>2, <3>1, <3>2 DEF OpenOutput
  <2>3. CASE node # Nothing /\ ~(node.is = "device" /\ node.major # loaded)
    BY <2>3 DEF OpenOutput
  <2> QED
    BY <2>1, <2>2, <2>3
<1>2. CASE Answered
  BY <1>2 DEF Answered, driver, Nothing, File
<1>3. CASE RemoveOutput
  BY <1>3 DEF RemoveOutput, Nothing, File
<1> QED
  BY <1>1, <1>2, <1>3

LEMMA NextKeepsIInv == IInv /\ [Next]_vars => IInv'
<1> SUFFICES ASSUME IInv, [Next]_vars PROVE IInv'
  OBVIOUS
<1>1. CASE UNCHANGED vars
  <2>1. TypeOK'
    BY <1>1 DEF vars, IInv, TypeOK
  <2>2. Loading' /\ LoadedNodeIsDevice'
    BY <1>1 DEF vars, IInv, Loading, LoadedNodeIsDevice
  <2>3. DeviceOutlivesStreams'
    BY <1>1 DEF vars, IInv, DeviceOutlivesStreams
  <2> QED
    BY <2>1, <2>2, <2>3 DEF IInv
<1>2. CASE Next
  BY <1>2, ScriptsKeepIInv, ProcessKeepsIInv, FilesKeepIInv DEF Next, Server
<1> QED
  BY <1>1, <1>2

LEMMA IInvHolds == Spec => []IInv
  BY InitIInv, NextKeepsIInv, PTL DEF Spec

-----------------------------------------------------------------------------

(* Type correctness of the life cycle: the node is a device with a number  *)
(* that some driver got, a regular file or nothing, after every script and *)
(* every step of a server.                                                 *)
THEOREM LifeCycleTypeCorrect == Spec => []TypeOK
<1>1. IInv => TypeOK
  BY DEF IInv
<1> QED
  BY <1>1, IInvHolds, PTL

(* A load that has succeeded has left the node of the driver that is       *)
(* loaded, whatever scripts and servers ran before and run beside it.      *)
THEOREM LoadedNodeCorrect == Spec => []LoadedNodeIsDevice
<1>1. IInv => LoadedNodeIsDevice
  BY DEF IInv
<1> QED
  BY <1>1, IInvHolds, PTL

(* The driver is not replaced under a connection that has it open.         *)
THEOREM DeviceOutlivesStreamsCorrect == Spec => []DeviceOutlivesStreams
<1>1. IInv => DeviceOutlivesStreams
  BY DEF IInv
<1> QED
  BY <1>1, IInvHolds, PTL
=============================================================================
