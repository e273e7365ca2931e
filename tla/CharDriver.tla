----------------------------- MODULE CharDriver -----------------------------
(***************************************************************************)
(* aesd-char-driver/main.c: the aesdchar device shared by processes that   *)
(* each hold at most one open file.  A step is what the code does between  *)
(* two points where another process can see the difference: the lock, the  *)
(* allocations, and, because the seek ioctl reads the circular buffer      *)
(* without the lock, every statement of aesd_circular_buffer_add_entry and *)
(* every iteration of aesd_circular_buffer_find_position.                  *)
(***************************************************************************)
EXTENDS CircularBufferOps, SequencesExt

CONSTANTS
  Procs,         (* the processes that use the device                      *)
  Does,          (* Does[p]: the calls p makes, a subset of Calls          *)
  Pointers,      (* addresses kmalloc can return                           *)
  NL, Junk,      (* the newline byte; a byte nobody wrote                  *)
  Chunks,        (* what a write may carry: sequences of bytes             *)
  Counts,        (* how many bytes a read may ask for                      *)
  SeekOffs,      (* offsets given to llseek                                *)
  Whences,       (* whence given to llseek: 0 SET, 1 CUR, 2 END            *)
  SeekTos,       (* struct aesd_seekto given to the ioctl                  *)
  Interruptible, (* do signals reach processes waiting for the lock?       *)
  Faults,        (* what may fail: "kmalloc", "krealloc", "user" copies    *)
  MaxWrites,     (* bound: write calls altogether                          *)
  MaxPos         (* bound: llseek to positions up to this                  *)

Calls == {"read", "write", "llseek", "ioctl"}
Bytes == UNION {ToSet(c) : c \in Chunks}

ASSUME NullAssumption  == NULL \notin Pointers /\ NULL \notin Procs
ASSUME CallsAssumption == Does \in [Procs -> SUBSET Calls]
ASSUME BytesAssumption == /\ \A c \in Chunks : c \in Seq(Bytes) /\ c # <<>>
                          /\ Junk \notin Bytes
ASSUME InputAssumption == /\ Counts \subseteq Nat \ {0} /\ SeekOffs \subseteq Int
                          /\ SeekTos \subseteq [write_cmd : Nat, write_cmd_offset : Nat]
                          /\ Interruptible \in BOOLEAN /\ MaxWrites \in Nat

VARIABLES
  loaded,         (* is the module loaded?                                 *)
  lock,           (* aesd_device.lock: its owner, or NULL                  *)
  circular_buffer, store_buffer, buffer_length,  (* the rest of aesd_device *)
  heap,           (* the live kernel blocks: address -> bytes              *)
  pc,             (* pc[p]: where p is                                     *)
  local,          (* local[p]: arguments and locals of the call p makes    *)
  f_pos,          (* f_pos[p]: the file position of the file of p          *)
  got,            (* got[p]: what the last read of p returned              *)
  writes          (* write calls made so far (for the bound)               *)

device == <<circular_buffer, store_buffer, buffer_length, heap>>
vars   == <<loaded, lock, device, pc, local, f_pos, got, writes>>

NoCall == [op |-> "none"]

Waiting  == {"w_lock", "r_lock", "s_lock"}
Adding   == {"w_entry", "w_in", "w_out", "w_full", "w_reset"}
Critical == {"w_copy", "w_store", "r_body", "s_body", "unlock"} \cup Adding
Walking  == {"i_full", "i_walk"}

Init ==
  /\ loaded = FALSE /\ lock = NULL
  /\ circular_buffer = aesd_circular_buffer_init
  /\ store_buffer = NULL /\ buffer_length = 0
  /\ heap = [a \in {} |-> <<>>]
  /\ pc = [p \in Procs |-> "closed"]
  /\ local = [p \in Procs |-> NoCall]
  /\ f_pos = [p \in Procs |-> 0]
  /\ got = [p \in Procs |-> <<>>]
  /\ writes = 0

Goto(p, l) == pc' = [pc EXCEPT ![p] = l]

-----------------------------------------------------------------------------
(* The module.  .owner = THIS_MODULE: it cannot be removed while a file is *)
(* open.                                                                   *)

aesd_init_module ==
  /\ ~loaded
  /\ loaded' = TRUE
  /\ lock' = NULL
  /\ circular_buffer' = aesd_circular_buffer_init
  /\ store_buffer' = NULL /\ buffer_length' = 0
  /\ UNCHANGED <<heap, pc, local, f_pos, got, writes>>

(* AESD_CIRCULAR_BUFFER_FOREACH visits all the slots and frees what they   *)
(* point to; store_buffer is not freed.                                    *)
aesd_cleanup_module ==
  /\ loaded /\ \A p \in Procs : pc[p] = "closed"
  /\ loaded' = FALSE
  /\ LET freed == {circular_buffer.entry[i].buffptr : i \in Offsets} \ {NULL}
     IN  /\ heap' = [a \in DOMAIN heap \ freed |-> heap[a]]
         /\ circular_buffer' = [circular_buffer EXCEPT !.entry =
              [i \in Offsets |-> IF @[i].buffptr = NULL THEN @[i]
                                 ELSE [@[i] EXCEPT !.size = 0]]]
  /\ UNCHANGED <<lock, store_buffer, buffer_length, pc, local, f_pos, got, writes>>

aesd_open(p) ==
  /\ loaded /\ pc[p] = "closed"
  /\ Goto(p, "idle")
  /\ f_pos' = [f_pos EXCEPT ![p] = 0]
  /\ UNCHANGED <<loaded, lock, device, local, got, writes>>

aesd_release(p) ==
  /\ pc[p] = "idle"
  /\ Goto(p, "closed")
  /\ f_pos' = [f_pos EXCEPT ![p] = 0]
  /\ got' = [got EXCEPT ![p] = <<>>]
  /\ UNCHANGED <<loaded, lock, device, local, writes>>

(* A call begins: p enters the driver with its arguments.                  *)
Begin(p, call, l, args) ==
  /\ pc[p] = "idle" /\ call \in Does[p]
  /\ Goto(p, l)
  /\ local' = [local EXCEPT ![p] = args]
  /\ got' = [got EXCEPT ![p] = <<>>]
  /\ UNCHANGED <<loaded, lock, device, f_pos>>

(* A call ends: its locals are gone.                                       *)
Return(p) == Goto(p, "idle") /\ local' = [local EXCEPT ![p] = NoCall]

-----------------------------------------------------------------------------
(* The lock.                                                               *)

Enters(p) == CASE pc[p] = "w_lock" -> "w_copy"
               [] pc[p] = "r_lock" -> "r_body"
               [] pc[p] = "s_lock" -> "s_body"

(* mutex_lock_interruptible gets the mutex.                                *)
Lock(p) ==
  /\ pc[p] \in Waiting /\ lock = NULL
  /\ lock' = p
  /\ Goto(p, Enters(p))
  /\ UNCHANGED <<loaded, device, local, f_pos, got, writes>>

(* A signal ends the wait.  aesd_llseek returns -ERESTARTSYS; aesd_read    *)
(* and aesd_write print a message and go on without the mutex.             *)
Interrupted(p) ==
  /\ Interruptible /\ pc[p] \in Waiting /\ lock # NULL
  /\ IF pc[p] = "s_lock" THEN Return(p)
                         ELSE Goto(p, Enters(p)) /\ UNCHANGED local
  /\ UNCHANGED <<loaded, lock, device, f_pos, got, writes>>

(* Mutation: the call returns with the mutex.                              *)
UnlockForgets(p) ==
  /\ pc[p] = "unlock" /\ Return(p)
  /\ UNCHANGED <<loaded, lock, device, f_pos, got, writes>>

(* mutex_unlock clears the owner, whoever that is, and the call returns.   *)
Unlock(p) ==
  /\ pc[p] = "unlock"
  /\ lock' = NULL
  /\ Return(p)
  /\ UNCHANGED <<loaded, device, f_pos, got, writes>>

-----------------------------------------------------------------------------
(* aesd_write.                                                             *)

LastNewline(c) == Max({0} \cup {i \in 1 .. Len(c) : c[i] = NL})

CallWrite(p) ==
  /\ writes < MaxWrites
  /\ \E c \in Chunks : Begin(p, "write", "w_lock", [op |-> "write", chunk |-> c])
  /\ writes' = writes + 1

(* Mutation: the error path returns without mutex_unlock.                  *)
WriteCopyReturns(p) ==
  /\ pc[p] = "w_copy"
  /\ \/ Goto(p, "w_store") /\ UNCHANGED local
     \/ Faults \cap {"kmalloc", "user"} # {} /\ Return(p)
  /\ UNCHANGED <<loaded, lock, device, f_pos, got, writes>>

(* The temporary copy of the user's bytes: kmalloc and copy_from_user may  *)
(* fail, and then the call ends with -ENOMEM or -EFAULT.                   *)
WriteCopy(p) ==
  /\ pc[p] = "w_copy"
  /\ \/ Goto(p, "w_store")
     \/ Faults \cap {"kmalloc", "user"} # {} /\ Goto(p, "unlock")
  /\ UNCHANGED <<loaded, lock, device, local, f_pos, got, writes>>

(* After the bytes are stored: a newline makes them a command.             *)
AfterStore(p) == Goto(p, IF LastNewline(local[p].chunk) > 0 THEN "w_entry" ELSE "unlock")

Fresh == CHOOSE a \in Pointers : a \notin DOMAIN heap

(* Nothing is stored: a new block for all the bytes written, those after   *)
(* the last newline too.                                                   *)
WriteStore(p) ==
  /\ pc[p] = "w_store" /\ buffer_length = 0
  /\ \/ /\ Pointers \ DOMAIN heap # {}
        /\ store_buffer' = Fresh
        /\ heap' = [a \in DOMAIN heap \cup {Fresh} |->
                      IF a = Fresh THEN local[p].chunk ELSE heap[a]]
        /\ buffer_length' = Len(local[p].chunk)
        /\ AfterStore(p)
     \/ /\ "kmalloc" \in Faults
        /\ store_buffer' = NULL
        /\ UNCHANGED <<heap, buffer_length>>
        /\ Goto(p, "unlock")
  /\ UNCHANGED <<loaded, lock, circular_buffer, local, f_pos, got, writes>>

(* Mutation: bytes after the last newline are appended too.                *)
KeptAll(c) == c

(* The bytes appended to a partial command: up to the last newline.        *)
Kept(c) == IF LastNewline(c) > 0 THEN SubSeq(c, 1, LastNewline(c)) ELSE c

(* Mutation: the bytes appended replace those stored before.               *)
ExtendedFromStart(a, n, c) ==
  c \o [i \in 1 .. n |-> IF a \in DOMAIN heap /\ i <= Len(heap[a]) THEN heap[a][i] ELSE Junk]

(* What krealloc keeps of block a when it makes it n + Len(c) bytes long   *)
(* and memcpy puts c behind byte n; krealloc(NULL) is kmalloc.             *)
Extended(a, n, c) ==
  [i \in 1 .. n |-> IF a \in DOMAIN heap /\ i <= Len(heap[a]) THEN heap[a][i] ELSE Junk]
    \o c

(* Bytes are stored already: the block grows by the bytes up to the last   *)
(* newline, in place or at another address, or krealloc fails, leaves the  *)
(* old block and returns NULL.                                             *)
WriteAppend(p) ==
  /\ pc[p] = "w_store" /\ buffer_length > 0
  /\ LET kept == Kept(local[p].chunk)
         new  == Extended(store_buffer, buffer_length, kept)
     IN  \/ \E b \in Pointers :
              /\ b = IF b \in DOMAIN heap THEN store_buffer ELSE Fresh
              /\ store_buffer' = b
              /\ heap' = [a \in (DOMAIN heap \ {store_buffer}) \cup {b} |->
                            IF a = b THEN new ELSE heap[a]]
              /\ buffer_length' = buffer_length + Len(kept)
              /\ AfterStore(p)
         \/ /\ "krealloc" \in Faults
            /\ store_buffer' = NULL
            /\ UNCHANGED <<heap, buffer_length>>
            /\ Goto(p, "unlock")
  /\ UNCHANGED <<loaded, lock, circular_buffer, local, f_pos, got, writes>>

(* write_buffer, the entry that is added.                                  *)
NewEntry == [buffptr |-> store_buffer, size |-> buffer_length]

(* One statement of aesd_circular_buffer_add_entry.                        *)
AddStatement(p, from, to, b) ==
  /\ pc[p] = from /\ Goto(p, to)
  /\ circular_buffer' = b
  /\ UNCHANGED <<loaded, lock, store_buffer, buffer_length, heap, local, f_pos,
                 got, writes>>

WriteEntry(p)   == AddStatement(p, "w_entry", "w_in", StoreEntry(circular_buffer, NewEntry))
WriteInOffs(p)  == AddStatement(p, "w_in", "w_out", AdvanceIn(circular_buffer))
WriteOutOffs(p) == AddStatement(p, "w_out", "w_full", AdvanceOut(circular_buffer))
WriteFull(p)    == AddStatement(p, "w_full", "w_reset", SetFull(circular_buffer))

(* Mutation: the block is handed over and kept.                            *)
WriteResetForgets(p) ==
  /\ pc[p] = "w_reset" /\ Goto(p, "unlock")
  /\ UNCHANGED <<loaded, lock, device, local, f_pos, got, writes>>

(* The block now belongs to the circular buffer.  add_entry returned NULL, *)
(* so that nothing is freed.                                               *)
WriteReset(p) ==
  /\ pc[p] = "w_reset" /\ Goto(p, "unlock")
  /\ buffer_length' = 0
  /\ UNCHANGED <<loaded, lock, circular_buffer, store_buffer, heap, local, f_pos,
                 got, writes>>

-----------------------------------------------------------------------------
(* aesd_read.                                                              *)

CallRead(p) ==
  /\ \E n \in Counts : Begin(p, "read", "r_lock", [op |-> "read", count |-> n])
  /\ UNCHANGED writes

(* Mutation: the copy starts at the beginning of the command.              *)
BytesFromStart(a, i, n) ==
  [k \in 1 .. n |-> IF a \in DOMAIN heap /\ k <= Len(heap[a]) THEN heap[a][k] ELSE Junk]

(* n bytes of block a from byte index i; memory that is not a live block   *)
(* holds junk.                                                             *)
BytesAt(a, i, n) ==
  [k \in 1 .. n |-> IF a \in DOMAIN heap /\ i + k <= Len(heap[a]) THEN heap[a][i + k]
                                                              ELSE Junk]

(* The lookup and the copy: at most the rest of one command.  copy_to_user *)
(* may fail (-EFAULT), and the position stays.                             *)
ReadBody(p) ==
  /\ pc[p] = "r_body" /\ Goto(p, "unlock")
  /\ LET hit   == aesd_circular_buffer_find_entry_offset_for_fpos(circular_buffer, f_pos[p])
         entry == circular_buffer.entry[hit.slot]
         n     == Min({local[p].count, entry.size - hit.byte})
     IN  \/ /\ hit # NULL
            /\ got' = [got EXCEPT ![p] = BytesAt(entry.buffptr, hit.byte, n)]
            /\ f_pos' = [f_pos EXCEPT ![p] = @ + n]
         \/ /\ hit = NULL \/ "user" \in Faults
            /\ UNCHANGED <<got, f_pos>>
  /\ UNCHANGED <<loaded, lock, device, local, writes>>

-----------------------------------------------------------------------------
(* aesd_llseek.                                                            *)

CallLlseek(p) ==
  /\ \E off \in SeekOffs, whence \in Whences :
       /\ off + f_pos[p] <= MaxPos
       /\ Begin(p, "llseek", "s_lock", [op |-> "llseek", off |-> off, whence |-> whence])
  /\ UNCHANGED writes

(* SEEK_END and an unknown whence return -EINVAL without a mutex_unlock; a *)
(* negative position is refused.                                           *)
LlseekBody(p) ==
  /\ pc[p] = "s_body"
  /\ LET newpos == local[p].off + (IF local[p].whence = 1 THEN f_pos[p] ELSE 0)
     IN  IF local[p].whence \notin {0, 1}
         THEN Return(p) /\ UNCHANGED f_pos
         ELSE /\ f_pos' = [f_pos EXCEPT ![p] = IF newpos < 0 THEN @ ELSE newpos]
              /\ Goto(p, "unlock") /\ UNCHANGED local
  /\ UNCHANGED <<loaded, lock, device, got, writes>>

-----------------------------------------------------------------------------
(* aesd_unlocked_ioctl with AESDCHAR_IOCSEEKTO; it takes no lock.  Other   *)
(* commands and a failed copy_from_user change nothing.                    *)

(* The call up to the first line of aesd_circular_buffer_find_position.    *)
CallIoctl(p) ==
  /\ \E s \in SeekTos :
       Begin(p, "ioctl", "i_full",
             [op |-> "ioctl", write_cmd |-> s.write_cmd, internal |-> s.write_cmd_offset,
              offset |-> circular_buffer.out_offs, entry |-> 0, end_posit |-> 0])
  /\ UNCHANGED writes

(* Mutation: the walk does not step to the next slot.                      *)
VisitStays(p) ==
  LET w    == local[p]
      size == circular_buffer.entry[w.offset].size
  IN  IF w.entry # w.write_cmd
      THEN Goto(p, "i_walk") /\ UNCHANGED <<local, f_pos>>
      ELSE /\ f_pos' = [f_pos EXCEPT ![p] =
                          w.end_posit + (IF w.internal <= size THEN w.internal ELSE 0)]
           /\ Return(p)

(* The walk visits the slot at local[p].offset: it goes on behind it, or   *)
(* the command is the one asked for and the position is stored.            *)
Visit(p) ==
  LET w    == local[p]
      size == circular_buffer.entry[w.offset].size
  IN  IF w.entry # w.write_cmd
      THEN /\ local' = [local EXCEPT ![p] = [w EXCEPT !.offset = NextOffset(@),
                                           !.entry = @ + 1, !.end_posit = @ + size]]
           /\ Goto(p, "i_walk") /\ UNCHANGED f_pos
      ELSE /\ f_pos' = [f_pos EXCEPT ![p] =
                          w.end_posit + (IF w.internal <= size THEN w.internal ELSE 0)]
           /\ Return(p)

IoctlFull(p) ==
  /\ pc[p] = "i_full"
  /\ IF circular_buffer.full THEN Visit(p)
                             ELSE Goto(p, "i_walk") /\ UNCHANGED <<local, f_pos>>
  /\ UNCHANGED <<loaded, lock, device, got, writes>>

IoctlWalk(p) ==
  /\ pc[p] = "i_walk"
  /\ IF local[p].offset # circular_buffer.in_offs
     THEN Visit(p)
     ELSE f_pos' = [f_pos EXCEPT ![p] = local[p].end_posit] /\ Return(p)
  /\ UNCHANGED <<loaded, lock, device, got, writes>>

-----------------------------------------------------------------------------
(* What p does on its own once it made a call, and the whole system.       *)
Work(p) ==
  \/ WriteCopy(p) \/ WriteStore(p) \/ WriteAppend(p) \/ WriteEntry(p)
  \/ WriteInOffs(p) \/ WriteOutOffs(p) \/ WriteFull(p) \/ WriteReset(p)
  \/ ReadBody(p) \/ LlseekBody(p) \/ IoctlFull(p) \/ IoctlWalk(p) \/ Unlock(p)

Call(p) == CallWrite(p) \/ CallRead(p) \/ CallLlseek(p) \/ CallIoctl(p)

Next ==
  \/ aesd_init_module \/ aesd_cleanup_module
  \/ \E p \in Procs : \/ aesd_open(p) \/ aesd_release(p) \/ Call(p)
                      \/ Lock(p) \/ Interrupted(p) \/ Work(p)

Spec == Init /\ [][Next]_vars

(* A process inside the driver runs on; a waiter eventually gets a mutex   *)
(* that is released again and again (the kernel hands it over).  Nobody is *)
(* obliged to make a call.                                                 *)
Fairness == \A p \in Procs : WF_vars(Work(p)) /\ SF_vars(Lock(p))

FairSpec == Spec /\ Fairness

-----------------------------------------------------------------------------
(* Correctness.                                                            *)

Entries     == [buffptr : Pointers \cup {NULL}, size : Nat]
WriteCalls  == [op : {"write"}, chunk : Chunks]
ReadCalls   == [op : {"read"}, count : Counts]
LlseekCalls == [op : {"llseek"}, off : SeekOffs, whence : Whences]
IoctlCalls  == [op : {"ioctl"}, write_cmd : Nat, internal : Nat,
                offset : Offsets, entry : Nat, end_posit : Nat]

TypeOK ==
  /\ loaded \in BOOLEAN /\ lock \in Procs \cup {NULL}
  /\ circular_buffer \in Buffers(Entries)
  /\ store_buffer \in Pointers \cup {NULL} /\ buffer_length \in Nat
  /\ DOMAIN heap \subseteq Pointers
  /\ \A a \in DOMAIN heap : heap[a] \in Seq(Bytes \cup {Junk})
  /\ pc \in [Procs -> {"closed", "idle"} \cup Waiting \cup Critical \cup Walking]
  /\ local \in [Procs -> {NoCall} \cup WriteCalls \cup ReadCalls \cup LlseekCalls
                                  \cup IoctlCalls]
  /\ \A p \in Procs :
       /\ pc[p] \in {"w_lock", "w_copy", "w_store"} \cup Adding => local[p] \in WriteCalls
       /\ pc[p] \in {"r_lock", "r_body"} => local[p] \in ReadCalls
       /\ pc[p] \in {"s_lock", "s_body"} => local[p] \in LlseekCalls
       /\ pc[p] \in Walking => local[p] \in IoctlCalls
  /\ f_pos \in [Procs -> Nat]
  /\ got \in [Procs -> Seq(Bytes \cup {Junk})]
  /\ writes \in 0 .. MaxWrites

(* The mutex is held exactly by the process inside a critical section:     *)
(* nobody works on the device without it, and no call returns with it.     *)
LockDiscipline == \A p \in Procs : lock = p <=> pc[p] \in Critical

(* Who owns which block.  Every entry of the circular buffer has a live    *)
(* block of its own, as long as the entry says; so has the stored partial  *)
(* command, unless it is just being handed over.  Hence no read touches    *)
(* freed memory and the cleanup frees no block twice.                      *)
HeapOwnership ==
  loaded =>
  LET slots == {i \in Offsets : circular_buffer.entry[i] # EmptySlot}
      entry == circular_buffer.entry
  IN  /\ \A i \in slots : /\ entry[i].buffptr \in DOMAIN heap
                          /\ Len(heap[entry[i].buffptr]) = entry[i].size
      /\ buffer_length > 0 => /\ store_buffer \in DOMAIN heap
                              /\ Len(heap[store_buffer]) = buffer_length
      /\ \/ buffer_length = 0
         \/ \A i \in slots : entry[i].buffptr # store_buffer
         \/ \E p \in Procs : pc[p] \in {"w_in", "w_out", "w_full", "w_reset"}
      /\ \A i, j \in slots : entry[i].buffptr = entry[j].buffptr => i = j

(* The seek ioctl reads the buffer while a writer changes it, but it never *)
(* looks at a slot that was not written yet: add_entry fills the slot      *)
(* before it publishes it through in_offs or full.                         *)
WalkSeesWritten ==
  \A p \in Procs :
    \/ pc[p] = "i_full" /\ circular_buffer.full
    \/ pc[p] = "i_walk" /\ local[p].offset # circular_buffer.in_offs
    => circular_buffer.entry[local[p].offset] # EmptySlot

(* Every system call returns.                                              *)
CallsReturn == \A p \in Procs : pc[p] \notin {"closed", "idle"} ~> pc[p] = "idle"

(* The circular buffer as it will be when the writer inside add_entry has  *)
(* finished.                                                               *)
Settled ==
  LET at(l) == \E p \in Procs : pc[p] = l
  IN  CASE at("w_entry") -> aesd_circular_buffer_add_entry(circular_buffer, NewEntry)
        [] at("w_in")    -> SetFull(AdvanceOut(AdvanceIn(circular_buffer)))
        [] at("w_out")   -> SetFull(AdvanceOut(circular_buffer))
        [] at("w_full")  -> SetFull(circular_buffer)
        [] OTHER         -> circular_buffer

LoggedCommands ==
  IF loaded THEN [k \in 1 .. WalkLength(Settled) |-> heap[Commands(Settled)[k].buffptr]]
            ELSE <<>>

PartialCommand ==
  IF loaded /\ buffer_length > 0 /\ \A p \in Procs : pc[p] \notin Adding
  THEN heap[store_buffer] ELSE <<>>

Device == INSTANCE SeekableLog
            WITH log <- LoggedCommands, partial <- PartialCommand, pos <- f_pos

(* As long as no ioctl runs beside a writer, no signal interrupts a wait   *)
(* and krealloc succeeds, every call is atomic: a process sees the device  *)
(* as a log of commands with positions (drivertest.sh reads it that way).  *)
ImplementsDevice == Device!SSpec

(* A read returns the bytes that follow the position in all the commands   *)
(* concatenated, and nothing only at their end, so that a process that     *)
(* reads on gets every byte once (while nothing is evicted).               *)
ReadsContinueTheStream ==
  [][\A p \in Procs : pc[p] = "r_body" /\ pc'[p] = "unlock" =>
       LET stream == FlattenSeq(LoggedCommands)
           n      == Len(got'[p])
       IN  /\ f_pos'[p] = f_pos[p] + n
           /\ n = 0 => f_pos[p] >= Len(stream)
           /\ n > 0 => got'[p] = SubSeq(stream, f_pos[p] + 1, f_pos[p] + n)]_vars

-----------------------------------------------------------------------------
(* What the repository says and the code does not keep.                    *)

(* aesd-circular-buffer.c:108 leaves "any necessary locking" to the caller *)
(* of add_entry: nobody else works on the device during the call.          *)
AddEntryExcludesOthers ==
  \A p, q \in Procs : p # q /\ pc[p] \in Adding => pc[q] \notin Critical

(* aesd-circular-buffer.c:109 makes the caller of add_entry manage the     *)
(* lifetime of what it added: between calls every live block is still      *)
(* reachable from the device.                                              *)
AddedMemoryIsManaged ==
  loaded /\ (\A p \in Procs : pc[p] \notin Critical) =>
    DOMAIN heap \subseteq {circular_buffer.entry[i].buffptr : i \in Offsets} \cup {store_buffer}
=============================================================================
