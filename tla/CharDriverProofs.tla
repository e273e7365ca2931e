-------------------------- MODULE CharDriverProofs --------------------------
(***************************************************************************)
(* Theorems about CharDriver, for any number of processes, any capacity    *)
(* and any inputs.                                                         *)
(***************************************************************************)
EXTENDS CharDriver, CircularBufferOpsProofs

-----------------------------------------------------------------------------
(* The operators on bytes and blocks.                                      *)

(* What a write appends is made of the user's bytes.                       *)
LEMMA KeptType ==
  ASSUME NEW c \in Chunks
  PROVE  /\ c \in Seq(Bytes) /\ Len(c) \in Nat \ {0}
         /\ LastNewline(c) \in 0 .. Len(c)
         /\ Kept(c) \in Seq(Bytes)
<1>1. c \in Seq(Bytes) /\ c # <<>>
  BY BytesAssumption
<1>2. Len(c) \in Nat \ {0}
  BY <1>1
<1>3. LastNewline(c) \in 0 .. Len(c)
  <2> DEFINE T == {0} \cup {i \in 1 .. Len(c) : c[i] = NL}
  <2>1. T \subseteq 0 .. Len(c) /\ T # {} /\ Len(c) \in Nat
    BY <1>2
  <2> HIDE DEF T
  <2>2. Max(T) \in T
    BY <2>1, MaxOfBounded
  <2>3. LastNewline(c) = Max(T)
    BY DEF LastNewline, T
  <2>4. QED
    BY <2>1, <2>2, <2>3
<1>4. SubSeq(c, 1, LastNewline(c)) \in Seq(Bytes)
  <2>1. \A i \in 1 .. LastNewline(c) : c[i] \in Bytes
    BY <1>1, <1>2, <1>3
  <2>2. LastNewline(c) \in Int
    BY <1>2, <1>3
  <2>3. QED
    BY <2>1, <2>2, SubSeqProperties
<1>5. QED
  BY <1>1, <1>2, <1>3, <1>4 DEF Kept

(* The block krealloc and memcpy leave behind: as long as the bytes stored *)
(* before and those appended together.                                     *)
LEMMA ExtendedType ==
  ASSUME TypeOK, NEW a, NEW n \in Nat, NEW c \in Seq(Bytes)
  PROVE  /\ Extended(a, n, c) \in Seq(Bytes \cup {Junk})
         /\ Len(Extended(a, n, c)) = n + Len(c)
<1> DEFINE old == [i \in 1 .. n |-> IF a \in DOMAIN heap /\ i <= Len(heap[a])
                                    THEN heap[a][i] ELSE Junk]
<1>1. ASSUME NEW i \in 1 .. n
      PROVE  old[i] \in Bytes \cup {Junk}
  <2>1. CASE a \in DOMAIN heap /\ i <= Len(heap[a])
    <3>1. heap[a] \in Seq(Bytes \cup {Junk})
      BY <2>1 DEF TypeOK
    <3>2. i \in 1 .. Len(heap[a])
      BY <2>1, <3>1
    <3>3. QED
      BY <2>1, <3>1, <3>2
  <2>2. QED
    BY <2>1
<1>2. old \in Seq(Bytes \cup {Junk}) /\ Len(old) = n
  <2>1. old \in [1 .. n -> Bytes \cup {Junk}]
    BY <1>1
  <2> HIDE DEF old
  <2>2. QED
    BY <2>1
<1>3. c \in Seq(Bytes \cup {Junk})
  OBVIOUS
<1>4. Extended(a, n, c) = old \o c
  BY DEF Extended
<1> HIDE DEF old
<1>5. QED
  BY <1>2, <1>3, <1>4, ConcatProperties

(* What a read copies is a sequence of n bytes.                            *)
LEMMA BytesAtType ==
  ASSUME TypeOK, NEW a, NEW i \in Nat, NEW n \in Nat
  PROVE  /\ BytesAt(a, i, n) \in Seq(Bytes \cup {Junk})
         /\ Len(BytesAt(a, i, n)) = n
<1>1. ASSUME NEW k \in 1 .. n
      PROVE  BytesAt(a, i, n)[k] \in Bytes \cup {Junk}
  <2>1. CASE a \in DOMAIN heap /\ i + k <= Len(heap[a])
    <3>1. heap[a] \in Seq(Bytes \cup {Junk})
      BY <2>1 DEF TypeOK
    <3>2. i + k \in 1 .. Len(heap[a])
      BY <2>1, <3>1
    <3>3. heap[a][i + k] \in Bytes \cup {Junk}
      BY <3>1, <3>2
    <3>4. QED
      BY <2>1, <3>3 DEF BytesAt
  <2>2. QED
    BY <2>1 DEF BytesAt
<1>2. BytesAt(a, i, n) \in [1 .. n -> Bytes \cup {Junk}]
  BY <1>1 DEF BytesAt
<1>3. QED
  BY <1>2

(* What a read finds: a byte inside the entry, and a count that stays      *)
(* inside.                                                                 *)
LEMMA HitType ==
  ASSUME TypeOK, NEW pos \in Nat, NEW count \in Nat,
         aesd_circular_buffer_find_entry_offset_for_fpos(circular_buffer, pos) # NULL
  PROVE  LET hit == aesd_circular_buffer_find_entry_offset_for_fpos(circular_buffer, pos)
             entry == circular_buffer.entry[hit.slot]
         IN  /\ hit.slot \in Offsets /\ hit.byte \in Nat
             /\ Min({count, entry.size - hit.byte}) \in Nat
<1> DEFINE b == circular_buffer
           hit == aesd_circular_buffer_find_entry_offset_for_fpos(b, pos)
<1>1. b \in Buffers(Entries) /\ \A e \in Entries : e.size \in Nat
  BY DEF TypeOK, Entries
<1>2. PICK k \in 1 .. WalkLength(b) :
             /\ hit = [slot |-> SlotOf(b, k), byte |-> pos - EndOf(b)[k - 1]]
             /\ EndOf(b)[k - 1] <= pos /\ pos < EndOf(b)[k]
  BY <1>1, FindEntryResult
<1>3. /\ WalkLength(b) \in Nat
      /\ SlotOf(b, k) \in Offsets
      /\ EndOf(b)[k - 1] \in Nat
      /\ b.entry[SlotOf(b, k)].size \in Nat
      /\ EndOf(b)[k] = EndOf(b)[k - 1] + b.entry[SlotOf(b, k)].size
  <2>1. WalkLength(b) \in Nat
    BY <1>1, WalkBounds, MaxOpsAssumption
  <2>2. k - 1 \in 0 .. WalkLength(b)
    BY <2>1
  <2>3. QED
    BY <1>1, <2>1, <2>2, WalkBounds, EndOfSums
<1>4. hit.slot = SlotOf(b, k) /\ hit.byte = pos - EndOf(b)[k - 1]
  BY <1>2
<1>5. /\ hit.byte \in Nat
      /\ b.entry[hit.slot].size - hit.byte \in Nat
  BY <1>2, <1>3, <1>4
<1> DEFINE T == {count, b.entry[hit.slot].size - hit.byte}
<1>6. T \subseteq Nat /\ T # {}
  BY <1>5
<1> HIDE DEF T
<1>7. Min(T) \in Nat
  BY <1>6, MinOfNaturals
<1>8. QED
  BY <1>3, <1>4, <1>5, <1>7 DEF T

-----------------------------------------------------------------------------
(* Type correctness, one lemma per group of actions.                       *)

USE DEF device, Waiting, Adding, Critical, Walking

(* A fresh structure is well-typed.                                        *)
LEMMA InitBuffers == aesd_circular_buffer_init \in Buffers(Entries)
<1>1. EmptySlot \in Entries
  BY DEF EmptySlot, Entries
<1>2. QED
  BY <1>1, InitType

LEMMA TypeInit == Init => TypeOK
<1> SUFFICES ASSUME Init
             PROVE  TypeOK
  OBVIOUS
<1>1. circular_buffer \in Buffers(Entries)
  BY InitBuffers DEF Init
<1>2. pc = [p \in Procs |-> "closed"] /\ local = [p \in Procs |-> NoCall]
  BY DEF Init
<1>3. DOMAIN heap = {} /\ writes \in 0 .. MaxWrites
  BY InputAssumption DEF Init
<1>4. \A p \in Procs : pc[p] = "closed"
  BY <1>2
<1>5. got \in [Procs -> Seq(Bytes \cup {Junk})]
  <2>1. <<>> \in Seq(Bytes \cup {Junk})
    OBVIOUS
  <2>2. QED
    BY <2>1 DEF Init
<1>6. /\ pc \in [Procs -> {"closed", "idle"} \cup Waiting \cup Critical \cup Walking]
      /\ local \in [Procs -> {NoCall} \cup WriteCalls \cup ReadCalls \cup LlseekCalls
                                     \cup IoctlCalls]
  BY <1>2
<1>7. f_pos \in [Procs -> Nat]
  BY DEF Init
<1>8. QED
  BY <1>1, <1>3, <1>4, <1>5, <1>6, <1>7 DEF Init, TypeOK

(* Loading and unloading the module.                                       *)
LEMMA TypeModule ==
  ASSUME TypeOK, aesd_init_module \/ aesd_cleanup_module
  PROVE  TypeOK'
<1>1. CASE aesd_init_module
  BY <1>1, InitBuffers DEF aesd_init_module, TypeOK
<1>2. CASE aesd_cleanup_module
  <2> DEFINE next == [i \in Offsets |->
                       IF circular_buffer.entry[i].buffptr = NULL
                       THEN circular_buffer.entry[i]
                       ELSE [circular_buffer.entry[i] EXCEPT !.size = 0]]
  <2>1. circular_buffer' = [circular_buffer EXCEPT !.entry = next]
    BY <1>2 DEF aesd_cleanup_module
  <2>2. next \in [Offsets -> Entries]
    <3>1. ASSUME NEW i \in Offsets
          PROVE  next[i] \in Entries
      BY DEF TypeOK, Buffers, Entries
    <3>2. QED
      BY <3>1
  <2> HIDE DEF next
  <2>3. circular_buffer' \in Buffers(Entries)
    BY <2>1, <2>2 DEF TypeOK, Buffers
  <2>4. QED
    BY <1>2, <2>3 DEF aesd_cleanup_module, TypeOK
<1>3. QED
  BY <1>1, <1>2

(* Opening, closing, and the beginning of a call.                          *)
LEMMA TypeFiles ==
  ASSUME TypeOK, NEW p \in Procs, aesd_open(p) \/ aesd_release(p)
  PROVE  TypeOK'
<1>1. <<>> \in Seq(Bytes \cup {Junk})
  OBVIOUS
<1>2. CASE aesd_open(p)
  <2>1. /\ UNCHANGED <<loaded, lock, device, local, got, writes>>
        /\ pc' = [pc EXCEPT ![p] = "idle"] /\ f_pos' = [f_pos EXCEPT ![p] = 0]
    BY <1>2 DEF aesd_open, Goto
  <2>2. QED
    BY <2>1 DEF TypeOK
<1>3. CASE aesd_release(p)
  <2>1. /\ UNCHANGED <<loaded, lock, device, local, writes>>
        /\ pc' = [pc EXCEPT ![p] = "closed"] /\ f_pos' = [f_pos EXCEPT ![p] = 0]
        /\ got' = [got EXCEPT ![p] = <<>>]
    BY <1>3 DEF aesd_release, Goto
  <2>2. QED
    BY <1>1, <2>1 DEF TypeOK
<1>4. QED
  BY <1>2, <1>3

LEMMA TypeCalls ==
  ASSUME TypeOK, NEW p \in Procs, Call(p)
  PROVE  TypeOK'
<1>1. <<>> \in Seq(Bytes \cup {Junk})
  OBVIOUS
<1>2. CASE CallWrite(p)
  BY <1>1, <1>2, InputAssumption DEF CallWrite, Begin, Goto, TypeOK, WriteCalls
<1>3. CASE CallRead(p)
  BY <1>1, <1>3 DEF CallRead, Begin, Goto, TypeOK, ReadCalls
<1>4. CASE CallLlseek(p)
  <2>1. PICK off \in SeekOffs, whence \in Whences :
          Begin(p, "llseek", "s_lock", [op |-> "llseek", off |-> off, whence |-> whence])
    BY <1>4 DEF CallLlseek
  <2>2. [op |-> "llseek", off |-> off, whence |-> whence] \in LlseekCalls
    BY DEF LlseekCalls
  <2>3. QED
    BY <1>1, <1>4, <2>1, <2>2 DEF CallLlseek, Begin, Goto, TypeOK
<1>5. CASE CallIoctl(p)
  <2>1. circular_buffer.out_offs \in Offsets
    BY DEF TypeOK, Buffers
  <2>2. PICK s \in SeekTos :
          Begin(p, "ioctl", "i_full",
             [op |-> "ioctl", write_cmd |-> s.write_cmd, internal |-> s.write_cmd_offset,
              offset |-> circular_buffer.out_offs, entry |-> 0, end_posit |-> 0])
    BY <1>5 DEF CallIoctl
  <2>3. [op |-> "ioctl", write_cmd |-> s.write_cmd, internal |-> s.write_cmd_offset,
              offset |-> circular_buffer.out_offs, entry |-> 0, end_posit |-> 0] \in IoctlCalls
    BY <2>1, InputAssumption DEF IoctlCalls
  <2>4. QED
    BY <1>1, <1>5, <2>2, <2>3 DEF CallIoctl, Begin, Goto, TypeOK
<1>6. QED
  BY <1>2, <1>3, <1>4, <1>5 DEF Call

(* The lock.                                                               *)
LEMMA TypeLock ==
  ASSUME TypeOK, NEW p \in Procs, Lock(p) \/ Interrupted(p) \/ Unlock(p)
  PROVE  TypeOK'
<1>1. CASE Lock(p)
  BY <1>1 DEF Lock, Enters, Goto, TypeOK
<1>2. CASE Interrupted(p)
  BY <1>2 DEF Interrupted, Enters, Goto, Return, TypeOK
<1>3. CASE Unlock(p)
  BY <1>3 DEF Unlock, Goto, Return, TypeOK
<1>4. QED
  BY <1>1, <1>2, <1>3

(* aesd_write.                                                             *)
LEMMA TypeStore ==
  ASSUME TypeOK, NEW p \in Procs, WriteStore(p) \/ WriteAppend(p)
  PROVE  TypeOK'
<1> DEFINE c == local[p].chunk
<1>1. pc[p] = "w_store" /\ c \in Chunks
  BY DEF WriteStore, WriteAppend, TypeOK, WriteCalls
<1>2. /\ c \in Seq(Bytes \cup {Junk}) /\ Len(c) \in Nat
      /\ Kept(c) \in Seq(Bytes) /\ Len(Kept(c)) \in Nat
  BY <1>1, KeptType
<1>3. pc' \in [Procs -> {"closed", "idle"} \cup Waiting \cup Critical \cup Walking]
  BY DEF WriteStore, WriteAppend, AfterStore, Goto, TypeOK
<1>4. /\ UNCHANGED <<loaded, lock, circular_buffer, local, f_pos, got, writes>>
      /\ \A q \in Procs : \/ pc'[q] = pc[q]
                          \/ q = p /\ pc'[q] \in {"w_entry", "unlock"}
  BY DEF WriteStore, WriteAppend, AfterStore, Goto, TypeOK
<1>5. /\ store_buffer' \in Pointers \cup {NULL} /\ buffer_length' \in Nat
      /\ DOMAIN heap' \subseteq Pointers
      /\ \A a \in DOMAIN heap' : heap'[a] \in Seq(Bytes \cup {Junk})
  <2>1. CASE WriteStore(p)
    <3>1. CASE UNCHANGED heap
      BY <1>2, <2>1, <3>1 DEF WriteStore, TypeOK
    <3>2. CASE heap' = [a \in DOMAIN heap \cup {Fresh} |->
                          IF a = Fresh THEN c ELSE heap[a]]
               /\ Pointers \ DOMAIN heap # {}
               /\ store_buffer' = Fresh /\ buffer_length' = Len(c)
      <4>1. Fresh \in Pointers
        BY <3>2 DEF Fresh
      <4>2. QED
        BY <1>2, <3>2, <4>1 DEF TypeOK
    <3>3. QED
      BY <2>1, <3>1, <3>2 DEF WriteStore
  <2>2. CASE WriteAppend(p)
    <3> DEFINE new == Extended(store_buffer, buffer_length, Kept(c))
    <3>1. new \in Seq(Bytes \cup {Junk})
      BY <1>2, ExtendedType DEF TypeOK
    <3>2. CASE UNCHANGED <<heap, buffer_length>> /\ store_buffer' = NULL
      BY <3>2 DEF TypeOK
    <3> HIDE DEF new
    <3>3. CASE \E b \in Pointers :
                 /\ store_buffer' = b
                 /\ heap' = [a \in (DOMAIN heap \ {store_buffer}) \cup {b} |->
                               IF a = b THEN new ELSE heap[a]]
                 /\ buffer_length' = buffer_length + Len(Kept(c))
      BY <1>2, <3>1, <3>3 DEF TypeOK
    <3>4. QED
      BY <2>2, <3>2, <3>3 DEF WriteAppend, new
  <2>3. QED
    BY <2>1, <2>2
<1>6. \A q \in Procs :
        /\ pc'[q] \in {"w_lock", "w_copy", "w_store"} \cup Adding => local'[q] \in WriteCalls
        /\ pc'[q] \in {"r_lock", "r_body"} => local'[q] \in ReadCalls
        /\ pc'[q] \in {"s_lock", "s_body"} => local'[q] \in LlseekCalls
        /\ pc'[q] \in Walking => local'[q] \in IoctlCalls
  BY <1>1, <1>4 DEF TypeOK
<1>7. QED
  BY <1>3, <1>4, <1>5, <1>6 DEF TypeOK

LEMMA TypeWrite ==
  ASSUME TypeOK, NEW p \in Procs,
         \/ WriteCopy(p) \/ WriteEntry(p) \/ WriteInOffs(p) \/ WriteOutOffs(p)
         \/ WriteFull(p) \/ WriteReset(p)
  PROVE  TypeOK'
<1>1. CASE WriteCopy(p)
  <2>1. /\ UNCHANGED <<loaded, lock, device, local, f_pos, got, writes>>
        /\ pc[p] = "w_copy" /\ \E l \in {"w_store", "unlock"} : pc' = [pc EXCEPT ![p] = l]
    BY <1>1 DEF WriteCopy, Goto
  <2>2. local[p] \in WriteCalls
    BY <2>1 DEF TypeOK
  <2>3. QED
    BY <2>1, <2>2 DEF TypeOK
<1>2. CASE WriteReset(p)
  BY <1>2 DEF WriteReset, Goto, TypeOK
<1>3. /\ NewEntry \in Entries
      /\ StoreEntry(circular_buffer, NewEntry) \in Buffers(Entries)
      /\ AdvanceIn(circular_buffer) \in Buffers(Entries)
      /\ AdvanceOut(circular_buffer) \in Buffers(Entries)
      /\ SetFull(circular_buffer) \in Buffers(Entries)
  <2>1. NewEntry \in Entries
    BY DEF NewEntry, Entries, TypeOK
  <2>2. circular_buffer \in Buffers(Entries)
    BY DEF TypeOK
  <2>3. QED
    BY <2>1, <2>2, StatementTypes
<1>4. CASE WriteEntry(p)
  BY <1>3, <1>4 DEF WriteEntry, AddStatement, Goto, TypeOK
<1>5. CASE WriteInOffs(p)
  BY <1>3, <1>5 DEF WriteInOffs, AddStatement, Goto, TypeOK
<1>6. CASE WriteOutOffs(p)
  BY <1>3, <1>6 DEF WriteOutOffs, AddStatement, Goto, TypeOK
<1>7. CASE WriteFull(p)
  BY <1>3, <1>7 DEF WriteFull, AddStatement, Goto, TypeOK
<1>8. QED
  BY <1>1, <1>2, <1>4, <1>5, <1>6, <1>7

(* aesd_read.                                                              *)
LEMMA TypeRead ==
  ASSUME TypeOK, NEW p \in Procs, ReadBody(p)
  PROVE  TypeOK'
<1> DEFINE hit   == aesd_circular_buffer_find_entry_offset_for_fpos(circular_buffer, f_pos[p])
           entry == circular_buffer.entry[hit.slot]
           n     == Min({local[p].count, entry.size - hit.byte})
<1>1. f_pos[p] \in Nat /\ local[p].count \in Nat
  BY InputAssumption DEF ReadBody, TypeOK, ReadCalls
<1>2. CASE UNCHANGED <<got, f_pos>>
  BY <1>2 DEF ReadBody, Goto, TypeOK
<1>3. CASE /\ hit # NULL
           /\ got' = [got EXCEPT ![p] = BytesAt(entry.buffptr, hit.byte, n)]
           /\ f_pos' = [f_pos EXCEPT ![p] = @ + n]
  <2>1. hit.byte \in Nat /\ n \in Nat
    BY <1>1, <1>3, HitType
  <2> HIDE DEF hit, n, entry
  <2>2. BytesAt(entry.buffptr, hit.byte, n) \in Seq(Bytes \cup {Junk})
    BY <2>1, BytesAtType
  <2>3. got' \in [Procs -> Seq(Bytes \cup {Junk})] /\ f_pos' \in [Procs -> Nat]
    BY <1>1, <1>3, <2>1, <2>2 DEF TypeOK
  <2>4. QED
    BY <2>3 DEF ReadBody, Goto, TypeOK
<1>4. QED
  BY <1>2, <1>3 DEF ReadBody

(* aesd_llseek.                                                            *)
LEMMA TypeLlseek ==
  ASSUME TypeOK, NEW p \in Procs, LlseekBody(p)
  PROVE  TypeOK'
<1>1. f_pos[p] \in Nat /\ local[p].off \in Int
  BY InputAssumption DEF LlseekBody, TypeOK, LlseekCalls
<1>2. CASE local[p].whence \notin {0, 1}
  BY <1>2 DEF LlseekBody, Goto, Return, TypeOK
<1>3. CASE local[p].whence \in {0, 1}
  <2> DEFINE newpos == local[p].off + (IF local[p].whence = 1 THEN f_pos[p] ELSE 0)
  <2>1. newpos \in Int
    BY <1>1
  <2>2. /\ f_pos' = [f_pos EXCEPT ![p] = IF newpos < 0 THEN @ ELSE newpos]
        /\ Goto(p, "unlock")
        /\ UNCHANGED <<loaded, lock, device, local, got, writes>>
    BY <1>3 DEF LlseekBody
  <2> HIDE DEF newpos
  <2>3. f_pos' \in [Procs -> Nat]
    BY <1>1, <2>1, <2>2 DEF TypeOK
  <2>4. QED
    BY <2>2, <2>3 DEF LlseekBody, Goto, TypeOK
<1>4. QED
  BY <1>2, <1>3

(* The seek ioctl.                                                         *)
LEMMA TypeIoctl ==
  ASSUME TypeOK, NEW p \in Procs, IoctlFull(p) \/ IoctlWalk(p)
  PROVE  TypeOK'
<1>1. /\ local[p] \in IoctlCalls /\ pc[p] \in Walking
      /\ UNCHANGED <<loaded, lock, device, got, writes>>
  BY DEF IoctlFull, IoctlWalk, TypeOK
<1>2. /\ local[p].offset \in Offsets /\ local[p].end_posit \in Nat
      /\ local[p].entry \in Nat /\ local[p].internal \in Nat
  BY <1>1 DEF IoctlCalls
<1>3. CASE Visit(p)
  <2> DEFINE size == circular_buffer.entry[local[p].offset].size
  <2>1. size \in Nat
    BY <1>2 DEF TypeOK, Buffers, Entries
  <2>2. NextOffset(local[p].offset) \in Offsets
    BY <1>2, NextOffsetWraps
  <2> HIDE DEF size
  <2>3. CASE /\ local' = [local EXCEPT ![p] =
                   [local[p] EXCEPT !.offset = NextOffset(@), !.entry = @ + 1,
                                    !.end_posit = @ + size]]
             /\ Goto(p, "i_walk") /\ UNCHANGED f_pos
    <3>1. [local[p] EXCEPT !.offset = NextOffset(@), !.entry = @ + 1,
                           !.end_posit = @ + size] \in IoctlCalls
      <4> DEFINE one == [local[p] EXCEPT !.offset = NextOffset(@)]
                 two == [one EXCEPT !.entry = @ + 1]
                 all == [two EXCEPT !.end_posit = @ + size]
      <4>1. one \in IoctlCalls
        BY <1>1, <2>2 DEF IoctlCalls
      <4> HIDE DEF one
      <4>2. two \in IoctlCalls
        BY <4>1 DEF IoctlCalls
      <4> HIDE DEF two
      <4>3. all \in IoctlCalls
        BY <4>2, <2>1 DEF IoctlCalls
      <4>4. /\ one.entry = local[p].entry
            /\ two.end_posit = local[p].end_posit
        BY <1>1 DEF one, two, IoctlCalls
      <4>5. QED
        BY <4>3, <4>4 DEF one, two
    <3> DEFINE next == [local[p] EXCEPT !.offset = NextOffset(@), !.entry = @ + 1,
                                        !.end_posit = @ + size]
    <3> HIDE DEF next
    <3>2. /\ next \in IoctlCalls /\ local' = [local EXCEPT ![p] = next]
          /\ pc' = [pc EXCEPT ![p] = "i_walk"] /\ UNCHANGED f_pos
      BY <2>3, <3>1 DEF next, Goto
    <3>3. QED
      BY <1>1, <3>2 DEF TypeOK
  <2>4. CASE /\ f_pos' = [f_pos EXCEPT ![p] = local[p].end_posit
                            + (IF local[p].internal <= size THEN local[p].internal ELSE 0)]
             /\ Return(p)
    <3>1. f_pos' \in [Procs -> Nat]
      BY <1>2, <2>1, <2>4 DEF TypeOK
    <3>2. QED
      BY <1>1, <2>4, <3>1 DEF Return, Goto, TypeOK
  <2>5. QED
    BY <1>3, <2>3, <2>4 DEF Visit, size
<1>4. CASE Goto(p, "i_walk") /\ UNCHANGED <<local, f_pos>>
  BY <1>1, <1>4 DEF Goto, TypeOK
<1>5. CASE f_pos' = [f_pos EXCEPT ![p] = local[p].end_posit] /\ Return(p)
  BY <1>1, <1>2, <1>5 DEF Goto, Return, TypeOK
<1>6. QED
  BY <1>3, <1>4, <1>5 DEF IoctlFull, IoctlWalk

LEMMA TypeNext == TypeOK /\ [Next]_vars => TypeOK'
<1> SUFFICES ASSUME TypeOK, [Next]_vars
             PROVE  TypeOK'
  OBVIOUS
<1>1. CASE aesd_init_module \/ aesd_cleanup_module
  BY <1>1, TypeModule
<1>2. ASSUME NEW p \in Procs, aesd_open(p) \/ aesd_release(p)
      PROVE  TypeOK'
  BY <1>2, TypeFiles
<1>3. ASSUME NEW p \in Procs, Call(p)
      PROVE  TypeOK'
  BY <1>3, TypeCalls
<1>4. ASSUME NEW p \in Procs, Lock(p) \/ Interrupted(p) \/ Unlock(p)
      PROVE  TypeOK'
  BY <1>4, TypeLock
<1>5. ASSUME NEW p \in Procs, Work(p)
      PROVE  TypeOK'
  BY <1>5, TypeStore, TypeWrite, TypeRead, TypeLlseek, TypeIoctl, TypeLock DEF Work
<1>6. CASE UNCHANGED vars
  BY <1>6 DEF vars, TypeOK
<1>7. QED
  BY <1>1, <1>2, <1>3, <1>4, <1>5, <1>6 DEF Next

(* The driver is type-correct for every number of processes, whatever      *)
(* fails and whatever is interrupted: offsets stay inside the array, file  *)
(* positions are never negative.                                           *)
THEOREM DriverTypeCorrect == Spec => []TypeOK
  BY TypeInit, TypeNext, PTL DEF Spec
-----------------------------------------------------------------------------
(* The lock.  Signals are what makes two processes work on the device at   *)
(* once, and SEEK_END and an unknown whence are what leaves the mutex held: *)
(* without them the mutex does its work for every number of processes and  *)
(* whatever allocation or copy fails.                                      *)

(* The module cannot be removed, and so not loaded again, under an open    *)
(* file.                                                                   *)
FilesNeedModule == ~loaded => \A p \in Procs : pc[p] = "closed"

LockInv == TypeOK /\ FilesNeedModule /\ LockDiscipline

(* A step of p that stays on its side of the critical section.             *)
LEMMA LockKept ==
  ASSUME TypeOK, LockDiscipline, NEW p \in Procs, NEW l,
         lock' = lock, pc' = [pc EXCEPT ![p] = l],
         pc[p] \in Critical <=> l \in Critical
  PROVE  LockDiscipline'
<1>1. \A q \in Procs : pc'[q] = IF q = p THEN l ELSE pc[q]
  BY DEF TypeOK
<1> HIDE DEF Critical
<1>2. QED
  BY <1>1 DEF LockDiscipline

(* The holder leaves with the mutex free.                                  *)
LEMMA LockReleased ==
  ASSUME TypeOK, LockDiscipline, NEW p \in Procs, NEW l,
         lock' = NULL, pc' = [pc EXCEPT ![p] = l],
         pc[p] \in Critical, l \notin Critical
  PROVE  LockDiscipline'
<1>1. \A q \in Procs : pc'[q] = IF q = p THEN l ELSE pc[q]
  BY DEF TypeOK
<1> HIDE DEF Critical
<1>2. QED
  BY <1>1, NullAssumption DEF LockDiscipline

(* A free mutex is taken.                                                  *)
LEMMA LockTaken ==
  ASSUME TypeOK, LockDiscipline, NEW p \in Procs, Lock(p)
  PROVE  LockDiscipline'
<1>1. Enters(p) \in Critical
  BY DEF Enters, Lock
<1>2. \A q \in Procs : pc'[q] = IF q = p THEN Enters(p) ELSE pc[q]
  BY DEF TypeOK, Lock, Goto
<1>3. \A q \in Procs : lock # q
  BY NullAssumption DEF Lock
<1> HIDE DEF Critical
<1>4. QED
  BY <1>1, <1>2, <1>3 DEF LockDiscipline, Lock

LEMMA LockNext ==
  ASSUME LockInv, [Next]_vars,
         Interruptible = FALSE, Whences \subseteq {0, 1}
  PROVE  LockDiscipline'
<1> USE DEF LockInv, Goto
<1>1. CASE aesd_init_module
  BY <1>1, NullAssumption DEF aesd_init_module, FilesNeedModule, LockDiscipline
<1>2. CASE aesd_cleanup_module \/ UNCHANGED vars
  BY <1>2 DEF aesd_cleanup_module, vars, LockDiscipline
<1>3. ASSUME NEW p \in Procs, aesd_open(p) \/ aesd_release(p) \/ Call(p)
      PROVE  LockDiscipline'
  <2>1. \E l \in {"idle", "closed", "w_lock", "r_lock", "s_lock", "i_full"} :
          pc' = [pc EXCEPT ![p] = l]
    BY <1>3 DEF aesd_open, aesd_release, Call, CallWrite, CallRead, CallLlseek,
                CallIoctl, Begin
  <2>2. pc[p] \in {"closed", "idle"} /\ lock' = lock
    BY <1>3 DEF aesd_open, aesd_release, Call, CallWrite, CallRead, CallLlseek,
                CallIoctl, Begin
  <2>3. QED
    BY <2>1, <2>2, LockKept
<1>4. ASSUME NEW p \in Procs, Lock(p)
      PROVE  LockDiscipline'
  BY <1>4, LockTaken
<1>5. ASSUME NEW p \in Procs, Interrupted(p)
      PROVE  LockDiscipline'
  BY <1>5 DEF Interrupted
<1>6. ASSUME NEW p \in Procs, Unlock(p)
      PROVE  LockDiscipline'
  BY <1>6, LockReleased DEF Unlock, Return
<1>7. ASSUME NEW p \in Procs, WriteCopy(p) \/ WriteStore(p) \/ WriteAppend(p) \/ WriteReset(p)
      PROVE  LockDiscipline'
  <2>1. /\ \E l \in {"w_store", "w_entry", "unlock"} : pc' = [pc EXCEPT ![p] = l]
        /\ pc[p] \in {"w_copy", "w_store", "w_reset"} /\ lock' = lock
    BY <1>7 DEF WriteCopy, WriteStore, WriteAppend, AfterStore, WriteReset
  <2>2. QED
    BY <2>1, LockKept
<1>8. ASSUME NEW p \in Procs,
             WriteEntry(p) \/ WriteInOffs(p) \/ WriteOutOffs(p) \/ WriteFull(p)
      PROVE  LockDiscipline'
  <2>1. /\ \E l \in Adding : pc' = [pc EXCEPT ![p] = l]
        /\ pc[p] \in Adding /\ lock' = lock
    BY <1>8 DEF WriteEntry, WriteInOffs, WriteOutOffs, WriteFull, AddStatement
  <2>2. QED
    BY <2>1, LockKept
<1>9. ASSUME NEW p \in Procs, ReadBody(p) \/ LlseekBody(p)
      PROVE  LockDiscipline'
  <2>1. pc[p] = "s_body" => local[p].whence \in {0, 1}
    BY DEF TypeOK, LlseekCalls
  <2>2. /\ pc' = [pc EXCEPT ![p] = "unlock"]
        /\ pc[p] \in {"r_body", "s_body"} /\ lock' = lock
    BY <1>9, <2>1 DEF ReadBody, LlseekBody
  <2>3. QED
    BY <2>2, LockKept
<1>10. ASSUME NEW p \in Procs, IoctlFull(p) \/ IoctlWalk(p)
       PROVE  LockDiscipline'
  <2>1. /\ \E l \in {"i_walk", "idle"} : pc' = [pc EXCEPT ![p] = l]
        /\ pc[p] \in Walking /\ lock' = lock
    BY <1>10 DEF IoctlFull, IoctlWalk, Visit, Return
  <2>2. QED
    BY <2>1, LockKept
<1>11. QED
  BY <1>1, <1>2, <1>3, <1>4, <1>5, <1>6, <1>7, <1>8, <1>9, <1>10 DEF Next, Work

(* FilesNeedModule is kept by every step.                                  *)
LEMMA FilesNext ==
  ASSUME TypeOK, FilesNeedModule, [Next]_vars
  PROVE  FilesNeedModule'
<1>1. CASE aesd_init_module \/ aesd_cleanup_module \/ UNCHANGED vars
  BY <1>1 DEF aesd_init_module, aesd_cleanup_module, vars, FilesNeedModule
<1>2. ASSUME NEW p \in Procs, aesd_open(p)
      PROVE  loaded'
  BY <1>2 DEF aesd_open
<1>3. ASSUME NEW p \in Procs, aesd_release(p) \/ Call(p) \/ Lock(p) \/ Interrupted(p)
      PROVE  loaded' = loaded /\ pc[p] # "closed"
  BY <1>3 DEF aesd_release, Call, CallWrite, CallRead, CallLlseek, CallIoctl, Begin,
              Lock, Interrupted
<1>4. ASSUME NEW p \in Procs, Work(p)
      PROVE  loaded' = loaded /\ pc[p] # "closed"
  BY <1>4 DEF Work, WriteCopy, WriteStore, WriteAppend, WriteEntry, WriteInOffs,
              WriteOutOffs, WriteFull, WriteReset, AddStatement, ReadBody, LlseekBody,
              IoctlFull, IoctlWalk, Unlock
<1>5. QED
  BY <1>1, <1>2, <1>3, <1>4 DEF Next, FilesNeedModule

(* The mutex is held exactly inside the critical sections, whatever the    *)
(* number of processes and whatever allocation or copy fails, provided     *)
(* that no signal interrupts a wait and nobody seeks from the end.         *)
THEOREM LockCorrect ==
  ASSUME Interruptible = FALSE, Whences \subseteq {0, 1}
  PROVE  Spec => []LockDiscipline
<1>1. Init => LockInv
  <2> SUFFICES ASSUME Init
               PROVE  LockInv
    OBVIOUS
  <2>1. TypeOK
    BY TypeInit
  <2>2. \A p \in Procs : pc[p] = "closed" /\ lock # p
    BY NullAssumption DEF Init
  <2>3. QED
    BY <2>1, <2>2 DEF LockInv, FilesNeedModule, LockDiscipline
<1>2. LockInv /\ [Next]_vars => LockInv'
  BY TypeNext, FilesNext, LockNext DEF LockInv
<1>3. LockInv => LockDiscipline
  BY DEF LockInv
<1>4. QED
  BY <1>1, <1>2, <1>3, PTL DEF Spec
-----------------------------------------------------------------------------
(* The heap.  HeapOwnership is inductive together with the lock discipline *)
(* (only one process hands a block over) and the fact that there are bytes *)
(* to hand over when add_entry is called.                                  *)

Handing == {"w_in", "w_out", "w_full", "w_reset"}

BytesToAdd == \A p \in Procs : pc[p] \in Adding => buffer_length > 0

HeapInv == LockInv /\ BytesToAdd /\ HeapOwnership

(* Two processes are never in their critical sections together.            *)
LEMMA OneHolder ==
  ASSUME LockDiscipline, NEW p \in Procs, NEW q \in Procs,
         pc[p] \in Critical, pc[q] \in Critical
  PROVE  p = q
  BY DEF LockDiscipline

(* A step that moves p, keeps the entries, the blocks and the partial      *)
(* command, and does not end a hand-over.                                  *)
LEMMA HeapKept ==
  ASSUME TypeOK, HeapOwnership, BytesToAdd, NEW p \in Procs, NEW l,
         pc' = [pc EXCEPT ![p] = l], pc[p] \in Handing => l \in Handing,
         pc[p] \in Adding \/ l \notin Adding,
         UNCHANGED <<loaded, circular_buffer.entry, store_buffer, buffer_length, heap>>
  PROVE  HeapOwnership' /\ BytesToAdd'
<1>1. \A q \in Procs : pc'[q] = IF q = p THEN l ELSE pc[q]
  BY DEF TypeOK
<1>2. BytesToAdd'
  BY <1>1 DEF BytesToAdd
<1>3. (\E q \in Procs : pc[q] \in Handing) => (\E q \in Procs : pc'[q] \in Handing)
  BY <1>1
<1>4. QED
  BY <1>2, <1>3 DEF HeapOwnership, Handing

(* The bytes of a first write get a block of their own.                    *)
LEMMA HeapStore ==
  ASSUME HeapInv, NEW p \in Procs, WriteStore(p)
  PROVE  HeapOwnership' /\ BytesToAdd'
<1> USE DEF HeapInv, LockInv
<1> DEFINE c == local[p].chunk
<1>1. pc[p] = "w_store" /\ c \in Chunks /\ buffer_length = 0
  BY DEF WriteStore, TypeOK, WriteCalls
<1>2. Len(c) \in Nat \ {0}
  BY <1>1, KeptType
<1>3. /\ \A q \in Procs : q # p => pc'[q] = pc[q] /\ pc[q] \notin Adding
      /\ UNCHANGED <<loaded, circular_buffer>>
  <2>1. /\ \E l \in {"w_entry", "unlock"} : pc' = [pc EXCEPT ![p] = l]
        /\ UNCHANGED <<loaded, circular_buffer>>
    BY DEF WriteStore, AfterStore, Goto
  <2>2. \A q \in Procs : q # p => pc[q] \notin Adding
    BY <1>1, OneHolder
  <2>3. QED
    BY <2>1, <2>2 DEF TypeOK
<1>4. CASE /\ Pointers \ DOMAIN heap # {} /\ store_buffer' = Fresh
           /\ heap' = [a \in DOMAIN heap \cup {Fresh} |-> IF a = Fresh THEN c ELSE heap[a]]
           /\ buffer_length' = Len(c)
  <2>1. Fresh \notin DOMAIN heap
    BY <1>4 DEF Fresh
  <2>2. BytesToAdd'
    BY <1>2, <1>4 DEF BytesToAdd
  <2> HIDE DEF c
  <2>3. /\ \A a \in DOMAIN heap : a \in DOMAIN heap' /\ heap'[a] = heap[a] /\ a # store_buffer'
        /\ store_buffer' \in DOMAIN heap' /\ Len(heap'[store_buffer']) = buffer_length'
    BY <1>4, <2>1
  <2>4. QED
    BY <1>3, <2>2, <2>3 DEF HeapOwnership
<1>5. CASE UNCHANGED <<heap, buffer_length>> /\ Goto(p, "unlock")
  <2>1. BytesToAdd'
    BY <1>3, <1>5 DEF BytesToAdd, Goto, TypeOK
  <2>2. QED
    BY <1>1, <1>3, <1>5, <2>1 DEF HeapOwnership
<1>6. QED
  BY <1>4, <1>5 DEF WriteStore

(* The block of the partial command grows, perhaps at another address.     *)
LEMMA HeapAppend ==
  ASSUME HeapInv, "krealloc" \notin Faults, NEW p \in Procs, WriteAppend(p)
  PROVE  HeapOwnership' /\ BytesToAdd'
<1> USE DEF HeapInv, LockInv
<1> DEFINE kept == Kept(local[p].chunk)
           new  == Extended(store_buffer, buffer_length, kept)
<1>1. pc[p] = "w_store" /\ local[p].chunk \in Chunks /\ buffer_length > 0
  BY DEF WriteAppend, TypeOK, WriteCalls
<1>2. kept \in Seq(Bytes) /\ Len(kept) \in Nat /\ buffer_length \in Nat
  BY <1>1, KeptType DEF TypeOK
<1>3. Len(new) = buffer_length + Len(kept)
  BY <1>2, ExtendedType
<1>4. PICK b \in Pointers :
        /\ b = IF b \in DOMAIN heap THEN store_buffer ELSE Fresh
        /\ store_buffer' = b
        /\ heap' = [a \in (DOMAIN heap \ {store_buffer}) \cup {b} |->
                      IF a = b THEN new ELSE heap[a]]
        /\ buffer_length' = buffer_length + Len(kept)
        /\ AfterStore(p)
  BY DEF WriteAppend
<1>5. /\ UNCHANGED <<loaded, circular_buffer>>
      /\ \A q \in Procs : pc[q] \notin Handing
  <2>1. UNCHANGED <<loaded, circular_buffer>>
    BY DEF WriteAppend
  <2>2. \A q \in Procs : pc[q] \in Handing => q = p
    BY <1>1, OneHolder DEF Handing
  <2>3. QED
    BY <1>1, <2>1, <2>2 DEF Handing
<1> HIDE DEF new, kept
<1>6. /\ store_buffer' \in DOMAIN heap' /\ Len(heap'[store_buffer']) = buffer_length'
      /\ \A a \in DOMAIN heap \ {store_buffer} :
           a \in DOMAIN heap' /\ heap'[a] = heap[a] /\ a # store_buffer'
  BY <1>3, <1>4
<1>7. BytesToAdd'
  BY <1>1, <1>2, <1>4 DEF BytesToAdd
<1>8. CASE loaded
  <2> DEFINE slots == {i \in Offsets : circular_buffer.entry[i] # EmptySlot}
  <2>1. \A i \in slots : circular_buffer.entry[i].buffptr \in DOMAIN heap \ {store_buffer}
    BY <1>1, <1>5, <1>8 DEF HeapOwnership, Handing
  <2>2. QED
    BY <1>5, <1>6, <1>7, <2>1 DEF HeapOwnership
<1>9. CASE ~loaded
  BY <1>5, <1>7, <1>9 DEF HeapOwnership
<1>10. QED
  BY <1>8, <1>9

(* The block of the command becomes that of a slot.                        *)
LEMMA HeapEntry ==
  ASSUME HeapInv, NEW p \in Procs, WriteEntry(p)
  PROVE  HeapOwnership' /\ BytesToAdd'
<1> USE DEF HeapInv, LockInv
<1>1. /\ pc[p] = "w_entry" /\ pc' = [pc EXCEPT ![p] = "w_in"]
      /\ circular_buffer' = StoreEntry(circular_buffer, NewEntry)
      /\ UNCHANGED <<loaded, store_buffer, buffer_length, heap>>
  BY DEF WriteEntry, AddStatement, Goto
<1>2. /\ \A q \in Procs : pc[q] \notin Handing
      /\ pc'[p] \in Handing
      /\ BytesToAdd'
  <2>1. \A q \in Procs : pc[q] \in Handing => q = p
    BY <1>1, OneHolder DEF Handing
  <2>2. \A q \in Procs : pc'[q] = IF q = p THEN "w_in" ELSE pc[q]
    BY <1>1 DEF TypeOK
  <2>3. QED
    BY <1>1, <2>1, <2>2 DEF Handing, BytesToAdd
<1>3. \A i \in Offsets : circular_buffer'.entry[i] = IF i = circular_buffer.in_offs
                                                     THEN NewEntry ELSE circular_buffer.entry[i]
  BY <1>1 DEF StoreEntry, TypeOK, Buffers
<1>4. buffer_length > 0 /\ NewEntry.buffptr = store_buffer /\ NewEntry.size = buffer_length
  BY <1>1 DEF BytesToAdd, NewEntry
<1>5. CASE loaded
  <2> DEFINE slots == {i \in Offsets : circular_buffer.entry[i] # EmptySlot}
  <2>1. /\ \A i \in slots : circular_buffer.entry[i].buffptr # store_buffer
        /\ store_buffer \in DOMAIN heap /\ Len(heap[store_buffer]) = buffer_length
    BY <1>2, <1>4, <1>5 DEF HeapOwnership, Handing
  <2>2. \A i \in Offsets : circular_buffer'.entry[i] # EmptySlot =>
                             i = circular_buffer.in_offs \/ i \in slots
    BY <1>3
  <2>3. QED
    BY <1>1, <1>2, <1>3, <1>4, <1>5, <2>1, <2>2 DEF HeapOwnership, Handing
<1>6. CASE ~loaded
  BY <1>1, <1>2, <1>6 DEF HeapOwnership
<1>7. QED
  BY <1>5, <1>6

(* The partial command is forgotten once its block belongs to the buffer.  *)
LEMMA HeapReset ==
  ASSUME HeapInv, NEW p \in Procs, WriteReset(p)
  PROVE  HeapOwnership' /\ BytesToAdd'
<1> USE DEF HeapInv, LockInv
<1>1. /\ pc[p] = "w_reset" /\ pc' = [pc EXCEPT ![p] = "unlock"] /\ buffer_length' = 0
      /\ UNCHANGED <<loaded, circular_buffer, heap>>
  BY DEF WriteReset, Goto
<1>2. \A q \in Procs : pc'[q] \notin Adding
  <2>1. \A q \in Procs : pc[q] \in Adding => q = p
    BY <1>1, OneHolder
  <2>2. \A q \in Procs : pc'[q] = IF q = p THEN "unlock" ELSE pc[q]
    BY <1>1 DEF TypeOK
  <2>3. QED
    BY <2>1, <2>2
<1>3. QED
  BY <1>1, <1>2 DEF HeapOwnership, BytesToAdd

LEMMA HeapNext ==
  ASSUME HeapInv, "krealloc" \notin Faults, [Next]_vars
  PROVE  HeapOwnership' /\ BytesToAdd'
<1> USE DEF HeapInv, LockInv, Goto, Handing
<1>1. CASE aesd_init_module
  <2>1. \A i \in Offsets : circular_buffer'.entry[i] = EmptySlot
    BY <1>1 DEF aesd_init_module, aesd_circular_buffer_init
  <2>2. \A p \in Procs : pc'[p] \notin Adding
    BY <1>1 DEF aesd_init_module, FilesNeedModule
  <2>3. buffer_length' = 0
    BY <1>1 DEF aesd_init_module
  <2>4. QED
    BY <2>1, <2>2, <2>3 DEF HeapOwnership, BytesToAdd
<1>2. CASE aesd_cleanup_module
  BY <1>2 DEF aesd_cleanup_module, HeapOwnership, BytesToAdd
<1>3. CASE UNCHANGED vars
  BY <1>3 DEF vars, HeapOwnership, BytesToAdd
<1>4. ASSUME NEW p \in Procs,
             \/ aesd_open(p) \/ aesd_release(p) \/ Call(p)
             \/ Lock(p) \/ Interrupted(p) \/ Unlock(p)
      PROVE  HeapOwnership' /\ BytesToAdd'
  <2>1. /\ \E l \in {"idle", "closed", "w_copy", "r_body", "s_body", "i_full"} \cup Waiting :
             pc' = [pc EXCEPT ![p] = l]
        /\ pc[p] \notin Adding
        /\ UNCHANGED <<loaded, device>>
    BY <1>4 DEF aesd_open, aesd_release, Call, CallWrite, CallRead, CallLlseek, CallIoctl,
                Begin, Lock, Enters, Interrupted, Unlock, Return
  <2>2. QED
    BY <2>1, HeapKept
<1>5. ASSUME NEW p \in Procs, WriteCopy(p) \/ ReadBody(p) \/ LlseekBody(p)
                                \/ IoctlFull(p) \/ IoctlWalk(p)
      PROVE  HeapOwnership' /\ BytesToAdd'
  <2>1. /\ \E l \in {"idle", "unlock", "w_store", "i_walk"} : pc' = [pc EXCEPT ![p] = l]
        /\ pc[p] \notin Adding
        /\ UNCHANGED <<loaded, device>>
    BY <1>5 DEF WriteCopy, ReadBody, LlseekBody, IoctlFull, IoctlWalk, Visit, Return
  <2>2. QED
    BY <2>1, HeapKept
<1>6. ASSUME NEW p \in Procs, WriteInOffs(p) \/ WriteOutOffs(p) \/ WriteFull(p)
      PROVE  HeapOwnership' /\ BytesToAdd'
  <2>1. /\ \E l \in Handing : pc' = [pc EXCEPT ![p] = l]
        /\ pc[p] \in Handing
        /\ UNCHANGED <<loaded, circular_buffer.entry, store_buffer, buffer_length, heap>>
    BY <1>6 DEF WriteInOffs, WriteOutOffs, WriteFull, AddStatement, AdvanceIn,
                AdvanceOut, SetFull, TypeOK, Buffers
  <2>2. QED
    BY <2>1, HeapKept
<1>7. ASSUME NEW p \in Procs,
             WriteStore(p) \/ WriteAppend(p) \/ WriteEntry(p) \/ WriteReset(p)
      PROVE  HeapOwnership' /\ BytesToAdd'
  BY <1>7, HeapStore, HeapAppend, HeapEntry, HeapReset
<1>8. QED
  BY <1>1, <1>2, <1>3, <1>4, <1>5, <1>6, <1>7 DEF Next, Work

(* Every entry and the stored partial command own their memory, for every  *)
(* number of processes and any capacity, whatever kmalloc and user copies  *)
(* do, as long as the lock works (see LockCorrect) and krealloc succeeds.  *)
THEOREM HeapCorrect ==
  ASSUME Interruptible = FALSE, Whences \subseteq {0, 1}, "krealloc" \notin Faults
  PROVE  Spec => []HeapOwnership
<1>1. Init => HeapInv
  <2> SUFFICES ASSUME Init
               PROVE  HeapInv
    OBVIOUS
  <2>1. TypeOK
    BY TypeInit
  <2>2. ~loaded /\ \A p \in Procs : pc[p] = "closed" /\ lock # p
    BY NullAssumption DEF Init
  <2>3. QED
    BY <2>1, <2>2 DEF HeapInv, LockInv, FilesNeedModule, LockDiscipline, BytesToAdd,
                      HeapOwnership
<1>2. HeapInv /\ [Next]_vars => HeapInv'
  BY TypeNext, FilesNext, LockNext, HeapNext DEF HeapInv, LockInv
<1>3. HeapInv => HeapOwnership
  BY DEF HeapInv
<1>4. QED
  BY <1>1, <1>2, <1>3, PTL DEF Spec
-----------------------------------------------------------------------------
(* The walk of the seek ioctl, which takes no lock.  It never looks at a   *)
(* slot that was not written, provided that add_entry runs for one writer  *)
(* at a time: because the lock works, or because only one process writes   *)
(* (then even signals and SEEK_END do no harm).                            *)

Writing == {"w_copy", "w_store"} \cup Adding

OneWriterAtATime ==
  \A p, q \in Procs : pc[p] \in Writing /\ pc[q] \in Writing => p = q

(* A process is on the way through a write only if it makes writes.        *)
WritersWrite ==
  \A p \in Procs : pc[p] \in {"w_lock"} \cup Writing => "write" \in Does[p]

AllWritten == \A i \in Offsets : circular_buffer.entry[i] # EmptySlot

(* Until all the slots are written they are filled from 0 upwards: what is *)
(* below in_offs is written, and while add_entry runs in_offs does not     *)
(* come back to 0.                                                         *)
FilledInOrder ==
  \/ AllWritten
  \/ /\ ~circular_buffer.full /\ circular_buffer.out_offs = 0
     /\ \A i \in Offsets : i < circular_buffer.in_offs => circular_buffer.entry[i] # EmptySlot
     /\ \A p \in Procs :
          /\ pc[p] = "w_in" => circular_buffer.entry[circular_buffer.in_offs] # EmptySlot
          /\ pc[p] \in {"w_out", "w_full"} => circular_buffer.in_offs # 0

(* Until then no walk has passed in_offs.                                  *)
WalksBehindIn ==
  \A p \in Procs : pc[p] \in Walking => AllWritten \/ local[p].offset <= circular_buffer.in_offs

WalkInv == BytesToAdd /\ FilledInOrder /\ WalksBehindIn

(* There are bytes to hand over as long as one process writes at a time.   *)
LEMMA BytesNext ==
  ASSUME TypeOK, FilesNeedModule, OneWriterAtATime, BytesToAdd, [Next]_vars
  PROVE  BytesToAdd'
<1> USE DEF Goto, Writing
<1>1. CASE aesd_init_module
  BY <1>1 DEF aesd_init_module, FilesNeedModule, BytesToAdd
<1>2. CASE aesd_cleanup_module \/ UNCHANGED vars
  BY <1>2 DEF aesd_cleanup_module, vars, BytesToAdd
<1>3. ASSUME NEW p \in Procs, NEW l, pc' = [pc EXCEPT ![p] = l], buffer_length' = buffer_length,
             pc[p] \in Adding \/ l \notin Adding
      PROVE  BytesToAdd'
  BY <1>3 DEF BytesToAdd, TypeOK
<1>4. ASSUME NEW p \in Procs,
             \/ aesd_open(p) \/ aesd_release(p) \/ Call(p)
             \/ Lock(p) \/ Interrupted(p) \/ Unlock(p)
      PROVE  BytesToAdd'
  <2>1. /\ \E l \in {"idle", "closed", "w_copy", "r_body", "s_body", "i_full"} \cup Waiting :
             pc' = [pc EXCEPT ![p] = l]
        /\ buffer_length' = buffer_length
    BY <1>4 DEF aesd_open, aesd_release, Call, CallWrite, CallRead, CallLlseek, CallIoctl,
                Begin, Lock, Enters, Interrupted, Unlock, Return
  <2>2. QED
    BY <1>3, <2>1
<1>5. ASSUME NEW p \in Procs, WriteCopy(p) \/ ReadBody(p) \/ LlseekBody(p)
                                \/ IoctlFull(p) \/ IoctlWalk(p)
      PROVE  BytesToAdd'
  <2>1. /\ \E l \in {"idle", "unlock", "w_store", "i_walk"} : pc' = [pc EXCEPT ![p] = l]
        /\ buffer_length' = buffer_length
    BY <1>5 DEF WriteCopy, ReadBody, LlseekBody, IoctlFull, IoctlWalk, Visit, Return
  <2>2. QED
    BY <1>3, <2>1
<1>6. ASSUME NEW p \in Procs,
             WriteEntry(p) \/ WriteInOffs(p) \/ WriteOutOffs(p) \/ WriteFull(p)
      PROVE  BytesToAdd'
  <2>1. /\ \E l \in Adding : pc' = [pc EXCEPT ![p] = l]
        /\ pc[p] \in Adding
        /\ buffer_length' = buffer_length
    BY <1>6 DEF WriteEntry, WriteInOffs, WriteOutOffs, WriteFull, AddStatement
  <2>2. QED
    BY <1>3, <2>1
<1>7. ASSUME NEW p \in Procs, WriteReset(p)
      PROVE  BytesToAdd'
  <2>1. pc[p] = "w_reset" /\ pc' = [pc EXCEPT ![p] = "unlock"]
    BY <1>7 DEF WriteReset
  <2>2. \A q \in Procs : pc'[q] \notin Adding
    BY <2>1 DEF OneWriterAtATime, TypeOK
  <2>3. QED
    BY <2>2 DEF BytesToAdd
<1>8. ASSUME NEW p \in Procs, WriteStore(p) \/ WriteAppend(p)
      PROVE  BytesToAdd'
  <2> DEFINE c == local[p].chunk
  <2>1. pc[p] = "w_store" /\ c \in Chunks
    BY <1>8 DEF WriteStore, WriteAppend, TypeOK, WriteCalls
  <2>2. /\ Len(c) \in Nat \ {0} /\ Len(Kept(c)) \in Nat /\ buffer_length \in Nat
    BY <2>1, KeptType DEF TypeOK
  <2>3. CASE Goto(p, "unlock") /\ buffer_length' = buffer_length
    BY <1>3, <2>3
  <2>4. CASE buffer_length' = Len(c)
    BY <2>2, <2>4 DEF BytesToAdd
  <2> HIDE DEF c
  <2>5. CASE buffer_length > 0 /\ buffer_length' = buffer_length + Len(Kept(c))
    BY <2>2, <2>5 DEF BytesToAdd
  <2>6. QED
    BY <1>8, <2>3, <2>4, <2>5 DEF WriteStore, WriteAppend, c
<1>9. QED
  BY <1>1, <1>2, <1>4, <1>5, <1>6, <1>7, <1>8 DEF Next, Work

(* A step that leaves the slots and offsets alone and enters no statement  *)
(* of add_entry keeps the order in which the slots are filled.             *)
LEMMA FilledKept ==
  ASSUME TypeOK, FilledInOrder, NEW p \in Procs, NEW l, pc' = [pc EXCEPT ![p] = l],
         l \notin {"w_in", "w_out", "w_full"}, UNCHANGED circular_buffer
  PROVE  FilledInOrder'
<1>1. \A q \in Procs : pc'[q] = IF q = p THEN l ELSE pc[q]
  BY DEF TypeOK
<1>2. QED
  BY <1>1 DEF FilledInOrder, AllWritten

(* The statements of add_entry.                                            *)
LEMMA FilledAdding ==
  ASSUME TypeOK, OneWriterAtATime, WalkInv, NEW p \in Procs,
         WriteEntry(p) \/ WriteInOffs(p) \/ WriteOutOffs(p) \/ WriteFull(p)
  PROVE  FilledInOrder' /\ WalksBehindIn'
<1> USE DEF Goto, WalkInv
<1> DEFINE b == circular_buffer
<1>1. /\ DOMAIN b.entry = Offsets /\ b.in_offs \in Offsets /\ b.out_offs \in Offsets
      /\ b.full \in BOOLEAN
      /\ b = [entry |-> b.entry, in_offs |-> b.in_offs, out_offs |-> b.out_offs, full |-> b.full]
  BY DEF TypeOK, Buffers
<1>2. /\ pc[p] \in Adding /\ local' = local
      /\ \E l \in Adding : pc' = [pc EXCEPT ![p] = l]
      /\ \A q \in Procs : q # p => pc'[q] = pc[q] /\ pc[q] \notin Adding
      /\ \A q \in Procs : pc'[q] \in Walking => pc[q] \in Walking
  <2>1. /\ pc[p] \in Adding /\ local' = local
        /\ \E l \in Adding : pc' = [pc EXCEPT ![p] = l]
    BY DEF WriteEntry, WriteInOffs, WriteOutOffs, WriteFull, AddStatement
  <2>2. \A q \in Procs : q # p => pc[q] \notin Adding
    BY <2>1 DEF OneWriterAtATime, Writing
  <2>3. QED
    BY <2>1, <2>2 DEF TypeOK
<1>3. CASE WriteEntry(p)
  <2>1. /\ pc[p] = "w_entry" /\ pc'[p] = "w_in"
        /\ b' = StoreEntry(b, NewEntry)
    BY <1>3 DEF WriteEntry, AddStatement, TypeOK
  <2>2. NewEntry # EmptySlot
    BY <2>1 DEF BytesToAdd, NewEntry, EmptySlot
  <2>3. /\ \A i \in Offsets : b'.entry[i] = IF i = b.in_offs THEN NewEntry ELSE b.entry[i]
        /\ b'.in_offs = b.in_offs /\ b'.out_offs = b.out_offs /\ b'.full = b.full
    BY <1>1, <2>1 DEF StoreEntry
  <2>4. AllWritten => AllWritten'
    BY <2>2, <2>3 DEF AllWritten
  <2>5. FilledInOrder'
    BY <1>1, <1>2, <2>1, <2>2, <2>3, <2>4 DEF FilledInOrder
  <2>6. QED
    BY <1>2, <2>3, <2>4, <2>5 DEF WalksBehindIn
<1>4. CASE WriteInOffs(p)
  <2>1. /\ pc[p] = "w_in" /\ pc'[p] = "w_out"
        /\ b' = AdvanceIn(b)
    BY <1>4 DEF WriteInOffs, AddStatement, TypeOK
  <2>2. /\ b'.in_offs = IF b.in_offs = MaxOps - 1 THEN 0 ELSE b.in_offs + 1
        /\ b'.entry = b.entry /\ b'.out_offs = b.out_offs /\ b'.full = b.full
    BY <1>1, <2>1, NextOffsetWraps DEF AdvanceIn
  <2>3. AllWritten => AllWritten'
    BY <2>2 DEF AllWritten
  <2>4. CASE AllWritten
    BY <2>3, <2>4 DEF FilledInOrder, WalksBehindIn
  <2>5. CASE ~AllWritten
    <3>1. /\ ~b.full /\ b.out_offs = 0
          /\ \A i \in Offsets : i <= b.in_offs => b.entry[i] # EmptySlot
      BY <1>1, <2>1, <2>5, MaxOpsAssumption DEF FilledInOrder, Offsets
    <3>2. b.in_offs # MaxOps - 1
      BY <2>5, <3>1, MaxOpsAssumption DEF AllWritten, Offsets
    <3>3. b'.in_offs = b.in_offs + 1
      BY <2>2, <3>2
    <3>4. FilledInOrder'
      <4>1. \A i \in Offsets : i < b.in_offs + 1 => i <= b.in_offs
        BY <1>1 DEF Offsets
      <4>2. b.in_offs + 1 # 0
        BY <1>1 DEF Offsets
      <4>3. \A q \in Procs : pc'[q] # "w_in"
        BY <1>2, <2>1
      <4>4. QED
        BY <2>2, <3>1, <3>3, <4>1, <4>2, <4>3 DEF FilledInOrder
    <3>5. ASSUME NEW q \in Procs, pc'[q] \in Walking
          PROVE  local'[q].offset <= b'.in_offs
      <4>1. local[q].offset <= b.in_offs /\ local[q].offset \in Offsets
        BY <1>2, <2>5, <3>5 DEF WalksBehindIn, TypeOK, IoctlCalls
      <4>2. QED
        BY <1>1, <1>2, <3>3, <4>1 DEF Offsets
    <3>6. QED
      BY <3>4, <3>5 DEF WalksBehindIn
  <2>6. QED
    BY <2>4, <2>5
<1>5. CASE WriteOutOffs(p) \/ WriteFull(p)
  <2>1. /\ pc[p] \in {"w_out", "w_full"} /\ pc'[p] \in {"w_full", "w_reset"}
        /\ b' = AdvanceOut(b) \/ b' = SetFull(b)
    BY <1>5 DEF WriteOutOffs, WriteFull, AddStatement, TypeOK
  <2>2. /\ b'.entry = b.entry /\ b'.in_offs = b.in_offs
        /\ ~b.full /\ b.in_offs # b.out_offs => ~b'.full /\ b'.out_offs = b.out_offs
    BY <1>1, <2>1 DEF AdvanceOut, SetFull
  <2>3. AllWritten <=> AllWritten'
    BY <2>2 DEF AllWritten
  <2>4. FilledInOrder'
    BY <1>2, <2>1, <2>2, <2>3 DEF FilledInOrder
  <2>5. QED
    BY <1>2, <2>2, <2>3, <2>4 DEF WalksBehindIn
<1>6. QED
  BY <1>3, <1>4, <1>5

(* The walker's own steps: it moves on only from a written slot, and stops *)
(* at in_offs.                                                             *)
LEMMA WalkBehind ==
  ASSUME TypeOK, WalkInv, NEW p \in Procs, IoctlFull(p) \/ IoctlWalk(p)
  PROVE  WalksBehindIn'
<1> USE DEF Goto, WalkInv
<1> DEFINE b == circular_buffer
<1>1. /\ pc[p] \in Walking /\ UNCHANGED circular_buffer
      /\ local[p] \in IoctlCalls /\ local[p].offset \in Offsets
      /\ b.in_offs \in Offsets
  BY DEF IoctlFull, IoctlWalk, TypeOK, IoctlCalls, Buffers
<1>2. CASE AllWritten
  <2>1. AllWritten'
    BY <1>1, <1>2 DEF AllWritten
  <2>2. QED
    BY <2>1 DEF WalksBehindIn
<1>3. CASE ~AllWritten
  <2>1. ~b.full /\ local[p].offset <= b.in_offs
    BY <1>1, <1>3 DEF FilledInOrder, WalksBehindIn
  <2>2. \A q \in Procs : q # p => pc'[q] = pc[q] /\ local'[q] = local[q]
    BY DEF IoctlFull, IoctlWalk, Visit, Return, TypeOK
  <2>3. pc'[p] \in Walking => local'[p].offset <= b.in_offs
    <3>1. CASE IoctlFull(p)
      BY <2>1, <3>1 DEF IoctlFull
    <3>2. CASE IoctlWalk(p) /\ local[p].offset = b.in_offs
      BY <3>2 DEF IoctlWalk, Return, TypeOK
    <3>3. CASE IoctlWalk(p) /\ local[p].offset # b.in_offs
      <4>1. CASE local[p].entry = local[p].write_cmd
        BY <3>3, <4>1 DEF IoctlWalk, Visit, Return, TypeOK
      <4>2. CASE local[p].entry # local[p].write_cmd
        <5>1. local'[p].offset = NextOffset(local[p].offset)
          <6> DEFINE size == b.entry[local[p].offset].size
                     next == [local[p] EXCEPT !.offset = NextOffset(@), !.entry = @ + 1,
                                              !.end_posit = @ + size]
          <6>1. next.offset = NextOffset(local[p].offset)
            BY <1>1 DEF IoctlCalls
          <6>2. local' = [local EXCEPT ![p] = next]
            BY <3>3, <4>2 DEF IoctlWalk, Visit
          <6> HIDE DEF next
          <6>3. QED
            BY <6>1, <6>2 DEF TypeOK
        <5>2. NextOffset(local[p].offset) <= b.in_offs
          BY <1>1, <2>1, <3>3, NextOffsetWraps, MaxOpsAssumption DEF Offsets
        <5>3. QED
          BY <5>1, <5>2
      <4>3. QED
        BY <4>1, <4>2
    <3>4. QED
      BY <3>1, <3>2, <3>3
  <2>4. QED
    BY <1>1, <2>2, <2>3 DEF WalksBehindIn, AllWritten
<1>4. QED
  BY <1>2, <1>3

(* Any other step of p that leaves the slots and offsets alone: it walks   *)
(* from the start or not at all.                                           *)
LEMMA WalkKept ==
  ASSUME TypeOK, WalkInv, NEW p \in Procs, UNCHANGED circular_buffer,
         \A q \in Procs : q # p => pc'[q] = pc[q] /\ local'[q] = local[q],
         pc'[p] \in Walking => local'[p].offset = circular_buffer.out_offs
  PROVE  WalksBehindIn'
<1>1. \/ circular_buffer.out_offs = 0 /\ circular_buffer.in_offs \in Nat
     \/ AllWritten
  BY DEF WalkInv, FilledInOrder, TypeOK, Buffers, Offsets
<1>2. QED
  BY <1>1 DEF WalkInv, WalksBehindIn, AllWritten

LEMMA WalkNext ==
  ASSUME TypeOK, FilesNeedModule, OneWriterAtATime, WalkInv, [Next]_vars
  PROVE  WalkInv'
<1> USE DEF Goto
<1>1. BytesToAdd'
  BY BytesNext DEF WalkInv
<1>2. CASE aesd_init_module
  <2>1. /\ circular_buffer' = aesd_circular_buffer_init
        /\ \A p \in Procs : pc'[p] = "closed"
    BY <1>2 DEF aesd_init_module, FilesNeedModule
  <2>2. FilledInOrder'
    BY <2>1, MaxOpsAssumption DEF FilledInOrder, aesd_circular_buffer_init, Offsets
  <2>3. QED
    BY <1>1, <2>1, <2>2 DEF WalkInv, WalksBehindIn
<1>3. CASE aesd_cleanup_module
  <2> DEFINE b == circular_buffer
  <2>1. /\ \A i \in Offsets : b.entry[i] # EmptySlot => b'.entry[i] # EmptySlot
        /\ b'.in_offs = b.in_offs /\ b'.out_offs = b.out_offs /\ b'.full = b.full
    <3>1. \A i \in Offsets : b.entry[i] \in Entries
      BY DEF TypeOK, Buffers
    <3>2. \A e \in Entries : e.buffptr # NULL => [e EXCEPT !.size = 0].buffptr # NULL
      BY DEF Entries
    <3>3. b'.entry = [i \in Offsets |-> IF b.entry[i].buffptr = NULL THEN b.entry[i]
                                       ELSE [b.entry[i] EXCEPT !.size = 0]]
      BY <1>3 DEF aesd_cleanup_module, TypeOK, Buffers
    <3>4. ASSUME NEW i \in Offsets, b.entry[i] # EmptySlot
          PROVE  b'.entry[i] # EmptySlot
      BY <3>1, <3>2, <3>3, <3>4 DEF EmptySlot
    <3>5. QED
      BY <1>3, <3>4 DEF aesd_cleanup_module, TypeOK, Buffers
  <2>2. pc' = pc /\ local' = local /\ \A p \in Procs : pc[p] = "closed"
    BY <1>3 DEF aesd_cleanup_module
  <2>3. FilledInOrder'
    BY <2>1, <2>2 DEF WalkInv, FilledInOrder, AllWritten
  <2>4. QED
    BY <1>1, <2>2, <2>3 DEF WalkInv, WalksBehindIn
<1>4. CASE UNCHANGED vars
  BY <1>4 DEF vars, WalkInv, BytesToAdd, FilledInOrder, WalksBehindIn, AllWritten
<1>5. ASSUME NEW p \in Procs,
             WriteEntry(p) \/ WriteInOffs(p) \/ WriteOutOffs(p) \/ WriteFull(p)
      PROVE  WalkInv'
  BY <1>1, <1>5, FilledAdding DEF WalkInv
<1>6. ASSUME NEW p \in Procs, NEW l, pc' = [pc EXCEPT ![p] = l],
             l \notin Adding \/ l = "w_entry", UNCHANGED circular_buffer
      PROVE  FilledInOrder'
  BY <1>6, FilledKept DEF WalkInv
<1>7. ASSUME NEW p \in Procs, IoctlFull(p) \/ IoctlWalk(p)
      PROVE  WalkInv'
  <2>1. /\ \E l \in {"i_walk", "idle"} : pc' = [pc EXCEPT ![p] = l]
        /\ UNCHANGED circular_buffer
    BY <1>7 DEF IoctlFull, IoctlWalk, Visit, Return
  <2>2. FilledInOrder'
    BY <1>6, <2>1
  <2>3. QED
    BY <1>1, <1>7, <2>2, WalkBehind DEF WalkInv
<1>8. ASSUME NEW p \in Procs, NEW l, l # "i_walk",
             pc' = [pc EXCEPT ![p] = l], l \notin Adding \/ l = "w_entry",
             l = "i_full" => local'[p].offset = circular_buffer.out_offs,
             \A q \in Procs : q # p => local'[q] = local[q],
             UNCHANGED circular_buffer
      PROVE  WalkInv'
  <2>1. FilledInOrder'
    BY <1>6, <1>8
  <2>2. WalksBehindIn'
    BY <1>8, WalkKept DEF TypeOK
  <2>3. QED
    BY <1>1, <2>1, <2>2 DEF WalkInv
<1>9. ASSUME NEW p \in Procs,
             \/ aesd_open(p) \/ aesd_release(p) \/ CallWrite(p) \/ CallRead(p)
             \/ CallLlseek(p) \/ Lock(p) \/ Interrupted(p) \/ Unlock(p)
      PROVE  WalkInv'
  <2>1. /\ \E l \in {"idle", "closed", "w_copy", "r_body", "s_body"} \cup Waiting :
             pc' = [pc EXCEPT ![p] = l]
        /\ \A q \in Procs : q # p => local'[q] = local[q]
        /\ UNCHANGED circular_buffer
    BY <1>9 DEF aesd_open, aesd_release, CallWrite, CallRead, CallLlseek,
                Begin, Lock, Enters, Interrupted, Unlock, Return, TypeOK
  <2>2. QED
    BY <1>8, <2>1
<1>10. ASSUME NEW p \in Procs, CallIoctl(p)
       PROVE  WalkInv'
  <2>1. /\ pc' = [pc EXCEPT ![p] = "i_full"]
        /\ local'[p].offset = circular_buffer.out_offs
        /\ \A q \in Procs : q # p => local'[q] = local[q]
        /\ UNCHANGED circular_buffer
    BY <1>10 DEF CallIoctl, Begin, TypeOK
  <2>2. QED
    BY <1>8, <2>1
<1>11. ASSUME NEW p \in Procs,
              \/ WriteCopy(p) \/ WriteStore(p) \/ WriteAppend(p) \/ WriteReset(p)
              \/ ReadBody(p) \/ LlseekBody(p)
       PROVE  WalkInv'
  <2>1. /\ \E l \in {"idle", "unlock", "w_store", "w_entry"} : pc' = [pc EXCEPT ![p] = l]
        /\ \A q \in Procs : q # p => local'[q] = local[q]
        /\ UNCHANGED circular_buffer
    BY <1>11 DEF WriteCopy, WriteStore, WriteAppend, AfterStore, WriteReset, ReadBody,
                 LlseekBody, Return, TypeOK
  <2>2. QED
    BY <1>8, <2>1
<1>12. QED
  BY <1>2, <1>3, <1>4, <1>5, <1>7, <1>9, <1>10, <1>11 DEF Next, Work, Call

(* Only a process that makes write calls gets into one.                    *)
LEMMA WritersNext ==
  ASSUME TypeOK, WritersWrite, [Next]_vars
  PROVE  WritersWrite'
<1> USE DEF Goto, Writing
<1>1. CASE aesd_init_module \/ aesd_cleanup_module \/ UNCHANGED vars
  BY <1>1 DEF aesd_init_module, aesd_cleanup_module, vars, WritersWrite
<1>2. ASSUME NEW p \in Procs, NEW l, pc' = [pc EXCEPT ![p] = l],
             l \in {"w_lock"} \cup Writing =>
               pc[p] \in {"w_lock"} \cup Writing \/ "write" \in Does[p]
      PROVE  WritersWrite'
  BY <1>2 DEF WritersWrite, TypeOK
<1>3. ASSUME NEW p \in Procs, aesd_open(p) \/ aesd_release(p) \/ Call(p)
      PROVE  WritersWrite'
  <2>1. \E l \in {"idle", "closed", "w_lock", "r_lock", "s_lock", "i_full"} :
          pc' = [pc EXCEPT ![p] = l] /\ (l = "w_lock" => "write" \in Does[p])
    BY <1>3 DEF aesd_open, aesd_release, Call, CallWrite, CallRead, CallLlseek,
                CallIoctl, Begin
  <2>2. QED
    BY <1>2, <2>1
<1>4. ASSUME NEW p \in Procs, Lock(p) \/ Interrupted(p)
      PROVE  WritersWrite'
  <2>1. /\ pc[p] \in Waiting
        /\ \E l \in {"idle", "w_copy", "r_body", "s_body"} :
             pc' = [pc EXCEPT ![p] = l] /\ (l = "w_copy" => pc[p] = "w_lock")
    BY <1>4 DEF Lock, Interrupted, Enters, Return
  <2>2. QED
    BY <1>2, <2>1
<1>5. ASSUME NEW p \in Procs, WriteCopy(p) \/ WriteStore(p) \/ WriteAppend(p) \/ WriteReset(p)
      PROVE  WritersWrite'
  <2>1. /\ pc[p] \in Writing
        /\ \E l \in {"w_store", "w_entry", "unlock"} : pc' = [pc EXCEPT ![p] = l]
    BY <1>5 DEF WriteCopy, WriteStore, WriteAppend, AfterStore, WriteReset
  <2>2. QED
    BY <1>2, <2>1
<1>6. ASSUME NEW p \in Procs,
             WriteEntry(p) \/ WriteInOffs(p) \/ WriteOutOffs(p) \/ WriteFull(p)
      PROVE  WritersWrite'
  <2>1. /\ \E l \in Adding : pc' = [pc EXCEPT ![p] = l]
        /\ pc[p] \in Adding
    BY <1>6 DEF WriteEntry, WriteInOffs, WriteOutOffs, WriteFull, AddStatement
  <2>2. QED
    BY <1>2, <2>1
<1>7. ASSUME NEW p \in Procs, ReadBody(p) \/ LlseekBody(p) \/ IoctlFull(p)
                              \/ IoctlWalk(p) \/ Unlock(p)
      PROVE  WritersWrite'
  <2>1. \E l \in {"i_walk", "idle", "unlock"} : pc' = [pc EXCEPT ![p] = l]
    BY <1>7 DEF ReadBody, LlseekBody, IoctlFull, IoctlWalk, Visit, Unlock, Return
  <2>2. QED
    BY <1>2, <2>1
<1>8. QED
  BY <1>1, <1>3, <1>4, <1>5, <1>6, <1>7 DEF Next, Work

(* What the walk looks at.                                                 *)
LEMMA WalkInvSees == TypeOK /\ WalkInv => WalkSeesWritten
<1> SUFFICES ASSUME TypeOK, WalkInv, NEW p \in Procs,
                    \/ pc[p] = "i_full" /\ circular_buffer.full
                    \/ pc[p] = "i_walk" /\ local[p].offset # circular_buffer.in_offs
             PROVE  circular_buffer.entry[local[p].offset] # EmptySlot
  BY DEF WalkSeesWritten
<1>1. local[p].offset \in Offsets /\ circular_buffer.in_offs \in Offsets
  BY DEF TypeOK, IoctlCalls, Buffers
<1>2. CASE AllWritten
  BY <1>1, <1>2 DEF AllWritten
<1>3. CASE ~AllWritten
  <2>1. /\ ~circular_buffer.full /\ local[p].offset <= circular_buffer.in_offs
        /\ \A i \in Offsets : i < circular_buffer.in_offs => circular_buffer.entry[i] # EmptySlot
    BY <1>3 DEF WalkInv, FilledInOrder, WalksBehindIn
  <2>2. local[p].offset < circular_buffer.in_offs
    BY <1>1, <2>1, MaxOpsAssumption DEF Offsets
  <2>3. QED
    BY <1>1, <2>1, <2>2
<1>4. QED
  BY <1>2, <1>3

LEMMA WalkInit == Init => TypeOK /\ FilesNeedModule /\ LockDiscipline /\ WritersWrite /\ WalkInv
<1> SUFFICES ASSUME Init
             PROVE  TypeOK /\ FilesNeedModule /\ LockDiscipline /\ WritersWrite /\ WalkInv
  OBVIOUS
<1>1. TypeOK
  BY TypeInit
<1>2. \A p \in Procs : pc[p] = "closed" /\ lock # p
  BY NullAssumption DEF Init
<1>3. FilledInOrder
  BY <1>2, MaxOpsAssumption DEF Init, FilledInOrder, aesd_circular_buffer_init, Offsets
<1>4. FilesNeedModule /\ LockDiscipline /\ WritersWrite
  BY <1>2 DEF FilesNeedModule, LockDiscipline, WritersWrite, Writing
<1>5. BytesToAdd /\ WalksBehindIn
  BY <1>2 DEF BytesToAdd, WalksBehindIn
<1>6. QED
  BY <1>1, <1>3, <1>4, <1>5 DEF WalkInv

(* The seek ioctl reads the buffer without the lock and beside a writer,   *)
(* and yet looks only at slots that were written, whatever fails: for any  *)
(* number of processes when the lock works (see LockCorrect), and even     *)
(* with signals and SEEK_END when only one of them writes.                 *)
THEOREM WalkCorrectUnlocked ==
  ASSUME \/ Interruptible = FALSE /\ Whences \subseteq {0, 1}
         \/ \A p, q \in Procs : "write" \in Does[p] /\ "write" \in Does[q] => p = q
  PROVE  Spec => []WalkSeesWritten
<1>1. CASE Interruptible = FALSE /\ Whences \subseteq {0, 1}
  <2>1. LockInv /\ WalkInv /\ [Next]_vars => (LockInv /\ WalkInv)'
    <3>1. LockDiscipline => OneWriterAtATime
      BY OneHolder DEF OneWriterAtATime, Writing
    <3>2. QED
      BY <1>1, <3>1, TypeNext, FilesNext, LockNext, WalkNext DEF LockInv
  <2>2. Init => LockInv /\ WalkInv
    BY WalkInit DEF LockInv
  <2>3. LockInv /\ WalkInv => WalkSeesWritten
    BY WalkInvSees DEF LockInv
  <2>4. QED
    BY <2>1, <2>2, <2>3, PTL DEF Spec
<1>2. CASE \A p, q \in Procs : "write" \in Does[p] /\ "write" \in Does[q] => p = q
  <2> DEFINE Inv == TypeOK /\ FilesNeedModule /\ WritersWrite /\ WalkInv
  <2>1. Inv /\ [Next]_vars => Inv'
    <3>1. WritersWrite => OneWriterAtATime
      BY <1>2 DEF WritersWrite, OneWriterAtATime
    <3>2. QED
      BY <3>1, TypeNext, FilesNext, WritersNext, WalkNext
  <2>2. Init => Inv
    BY WalkInit
  <2>3. Inv => WalkSeesWritten
    BY WalkInvSees
  <2>4. QED
    BY <2>1, <2>2, <2>3, PTL DEF Spec
<1>3. QED
  BY <1>1, <1>2

(***************************************************************************)
(* The driver implements SeekableLog: what its users see is a log of       *)
(* commands in which each call is one step.  And a read continues the      *)
(* stream of the commands where its file position is.                      *)
(***************************************************************************)

-----------------------------------------------------------------------------
(* The buffer as it will be when the writer inside add_entry has finished. *)

(* The slots that hold an entry.                                           *)
Written == Entries \ {EmptySlot}

(* Where Settled differs from the circular buffer.                         *)
Unsettled == {"w_entry", "w_in", "w_out", "w_full"}

SettledAsStored ==
  /\ (\A q \in Procs : pc[q] \notin Unsettled) => Settled = circular_buffer
  /\ \A p \in Procs :
       /\ pc[p] = "w_entry" =>
            Settled = aesd_circular_buffer_add_entry(circular_buffer, NewEntry)
       /\ pc[p] = "w_in"   => Settled = SetFull(AdvanceOut(AdvanceIn(circular_buffer)))
       /\ pc[p] = "w_out"  => Settled = SetFull(AdvanceOut(circular_buffer))
       /\ pc[p] = "w_full" => Settled = SetFull(circular_buffer)

(* There is one writer at most, so that its place in add_entry says what   *)
(* is left to be done.                                                     *)
LEMMA SettledKnown == LockDiscipline => SettledAsStored
<1> SUFFICES ASSUME LockDiscipline
             PROVE  SettledAsStored
  OBVIOUS
<1>1. \A p, q \in Procs : pc[p] \in Unsettled /\ pc[q] \in Unsettled => p = q
  BY OneHolder DEF Unsettled, Critical, Adding
<1>2. ASSUME \A q \in Procs : pc[q] \notin Unsettled
      PROVE  Settled = circular_buffer
  BY <1>2 DEF Settled, Unsettled
<1>3. ASSUME NEW p \in Procs, pc[p] = "w_entry"
      PROVE  Settled = aesd_circular_buffer_add_entry(circular_buffer, NewEntry)
  BY <1>1, <1>3 DEF Settled, Unsettled
<1>4. ASSUME NEW p \in Procs, pc[p] = "w_in"
      PROVE  Settled = SetFull(AdvanceOut(AdvanceIn(circular_buffer)))
  BY <1>1, <1>4 DEF Settled, Unsettled
<1>5. ASSUME NEW p \in Procs, pc[p] = "w_out"
      PROVE  Settled = SetFull(AdvanceOut(circular_buffer))
  BY <1>1, <1>5 DEF Settled, Unsettled
<1>6. ASSUME NEW p \in Procs, pc[p] = "w_full"
      PROVE  Settled = SetFull(circular_buffer)
  BY <1>1, <1>6 DEF Settled, Unsettled
<1>7. QED
  BY <1>2, <1>3, <1>4, <1>5, <1>6 DEF SettledAsStored

(* An entry with bytes in it is not a slot that was never written.         *)
LEMMA NewEntryWritten ==
  ASSUME TypeOK
  PROVE  /\ NewEntry \in Entries
         /\ buffer_length > 0 => NewEntry \in Written
  BY DEF TypeOK, NewEntry, Entries, Written, EmptySlot

LEMMA EntriesAreWritten == Entries = Written \cup {EmptySlot}
<1>1. EmptySlot \in Entries
  BY DEF Entries, EmptySlot
<1>2. QED
  BY <1>1 DEF Written

(* Settled is a structure of the same type, and has a block for each entry.*)
SettledOwned ==
  /\ Settled \in Buffers(Entries)
  /\ loaded => \A i \in Offsets : Settled.entry[i] # EmptySlot =>
       /\ Settled.entry[i].buffptr \in DOMAIN heap
       /\ Len(heap[Settled.entry[i].buffptr]) = Settled.entry[i].size

LEMMA SettledHasBlocks == HeapInv => SettledOwned
<1> SUFFICES ASSUME HeapInv
             PROVE  SettledOwned
  OBVIOUS
<1> DEFINE b == circular_buffer
           s == Settled
           Owned(x) == loaded => \A i \in Offsets : x.entry[i] # EmptySlot =>
                         /\ x.entry[i].buffptr \in DOMAIN heap
                         /\ Len(heap[x.entry[i].buffptr]) = x.entry[i].size
<1>1. TypeOK /\ SettledAsStored /\ b \in Buffers(Entries) /\ NewEntry \in Entries
  BY SettledKnown, NewEntryWritten DEF HeapInv, LockInv, TypeOK
<1>2. Owned(b)
  BY DEF HeapInv, HeapOwnership
<1>3. \A x \in Buffers(Entries) : /\ AdvanceIn(x) \in Buffers(Entries)
                                  /\ AdvanceOut(x) \in Buffers(Entries)
                                  /\ SetFull(x) \in Buffers(Entries)
                                  /\ AdvanceIn(x).entry = x.entry
                                  /\ AdvanceOut(x).entry = x.entry
                                  /\ SetFull(x).entry = x.entry
  <2> TAKE x \in Buffers(Entries)
  <2>1. /\ AdvanceIn(x).entry = x.entry /\ AdvanceOut(x).entry = x.entry
        /\ SetFull(x).entry = x.entry
    BY DEF AdvanceIn, AdvanceOut, SetFull, Buffers
  <2>2. QED
    BY <1>1, <2>1, StatementTypes
<1>4. CASE \E p \in Procs : pc[p] = "w_entry"
  <2>1. /\ s = aesd_circular_buffer_add_entry(b, NewEntry)
        /\ buffer_length > 0
    BY <1>1, <1>4 DEF SettledAsStored, HeapInv, BytesToAdd, Adding
  <2>2. s \in Buffers(Entries) /\ s.entry = [b.entry EXCEPT ![b.in_offs] = NewEntry]
    BY <1>1, <2>1, AddEntryResult
  <2>3. \A i \in Offsets : s.entry[i] = IF i = b.in_offs THEN NewEntry ELSE b.entry[i]
    BY <1>1, <2>2 DEF Buffers
  <2>4. loaded => /\ NewEntry.buffptr \in DOMAIN heap
                  /\ Len(heap[NewEntry.buffptr]) = NewEntry.size
    BY <2>1 DEF HeapInv, HeapOwnership, NewEntry
  <2> HIDE DEF s
  <2>5. Owned(s)
    BY <1>2, <2>3, <2>4
  <2>6. QED
    BY <2>2, <2>5 DEF SettledOwned, s
<1>5. CASE \A p \in Procs : pc[p] # "w_entry"
  <2>1. s \in Buffers(Entries) /\ s.entry = b.entry
    BY <1>1, <1>3, <1>5 DEF SettledAsStored, Unsettled
  <2> HIDE DEF s
  <2>2. Owned(s)
    BY <1>2, <2>1
  <2>3. QED
    BY <2>1, <2>2 DEF SettledOwned, s
<1>6. QED
  BY <1>4, <1>5


(* Between calls and once the writer has finished, the slots are filled    *)
(* from 0 upwards or all.                                                  *)
Shaped == loaded => ShapeOf(Settled, Written)

(* The log the users see: one block for each command, as long as its       *)
(* entry says, so that positions in the buffer are positions in the log.   *)
LogLayout ==
  loaded =>
    /\ LoggedCommands \in Seq(Seq(Bytes \cup {Junk}))
    /\ Len(LoggedCommands) = WalkLength(Settled)
    /\ Len(Commands(Settled)) = WalkLength(Settled)
    /\ WalkLength(Settled) \in 0 .. MaxOps
    /\ \A k \in 1 .. WalkLength(Settled) :
         /\ SlotOf(Settled, k) \in Offsets
         /\ Commands(Settled)[k] = Settled.entry[SlotOf(Settled, k)]
         /\ Commands(Settled)[k] # EmptySlot
         /\ Commands(Settled)[k].buffptr \in DOMAIN heap
         /\ LoggedCommands[k] = heap[Commands(Settled)[k].buffptr]
         /\ Len(LoggedCommands[k]) = Commands(Settled)[k].size
    /\ \A k \in 0 .. WalkLength(Settled) : EndOf(Settled)[k] = Before(LoggedCommands, k)
    /\ EndOf(Settled)[WalkLength(Settled)] = Len(FlattenSeq(LoggedCommands))

LEMMA LogLaidOut == HeapInv /\ Shaped => LogLayout
<1> SUFFICES ASSUME HeapInv, Shaped, loaded
             PROVE  LogLayout
  BY DEF LogLayout
<1> DEFINE s == Settled
           w == WalkLength(s)
           log == LoggedCommands
<1>1. /\ s \in Buffers(Written \cup {EmptySlot}) /\ ShapeOf(s, Written)
      /\ s \in Buffers(Entries) /\ \A e \in Entries : e.size \in Nat
      /\ \A i \in Offsets : s.entry[i] # EmptySlot =>
           /\ s.entry[i].buffptr \in DOMAIN heap
           /\ Len(heap[s.entry[i].buffptr]) = s.entry[i].size
  <2>1. SettledOwned
    BY SettledHasBlocks
  <2>2. \A e \in Entries : e.size \in Nat
    BY DEF Entries
  <2>3. QED
    BY <2>1, <2>2, EntriesAreWritten DEF SettledOwned, Shaped
<1>2. /\ Commands(s) \in Seq(Written) /\ Len(Commands(s)) = w
      /\ w \in 0 .. MaxOps
      /\ \A k \in 1 .. w : Commands(s)[k] = s.entry[SlotOf(s, k)] /\ SlotOf(s, k) \in Offsets
  BY <1>1, CommandsShaped, WalkShaped
<1>3. /\ EndOf(s)[0] = 0
      /\ \A k \in 1 .. w : EndOf(s)[k] = EndOf(s)[k - 1] + Commands(s)[k].size
  BY <1>1, EndOfSums
<1>4. log = [k \in 1 .. w |-> heap[Commands(s)[k].buffptr]]
  BY DEF LoggedCommands
<1> HIDE DEF s, w, log
<1>5. w \in Nat
  BY <1>2, MaxOpsAssumption
<1>6. ASSUME NEW k \in 1 .. w
      PROVE  /\ Commands(s)[k] # EmptySlot
             /\ Commands(s)[k].buffptr \in DOMAIN heap
             /\ log[k] = heap[Commands(s)[k].buffptr]
             /\ Len(log[k]) = Commands(s)[k].size
             /\ log[k] \in Seq(Bytes \cup {Junk})
  <2>1. Commands(s)[k] \in Written
    BY <1>2, ElementOfSeq
  <2>2. Commands(s)[k] # EmptySlot
    BY <2>1 DEF Written
  <2>3. /\ Commands(s)[k].buffptr \in DOMAIN heap
        /\ Len(heap[Commands(s)[k].buffptr]) = Commands(s)[k].size
    BY <1>1, <1>2, <2>2
  <2>4. heap[Commands(s)[k].buffptr] \in Seq(Bytes \cup {Junk})
    BY <2>3 DEF HeapInv, LockInv, TypeOK
  <2>5. QED
    BY <1>4, <2>2, <2>3, <2>4
<1>7. log \in Seq(Seq(Bytes \cup {Junk})) /\ Len(log) = w
  <2>1. log \in [1 .. w -> Seq(Bytes \cup {Junk})]
    BY <1>4, <1>6
  <2>2. QED
    BY <1>5, <2>1
<1>8. /\ \A k \in 0 .. w : Before(log, k) = EndOf(s)[k]
      /\ Len(FlattenSeq(log)) = EndOf(s)[w]
  <2> DEFINE end == EndOf(s)
  <2>1. end[0] = 0 /\ \A k \in 1 .. Len(log) : end[k] = end[k - 1] + Len(log[k])
    BY <1>3, <1>6, <1>7
  <2> HIDE DEF end
  <2>2. /\ \A k \in 0 .. Len(log) : Len(FlattenSeq(SubSeq(log, 1, k))) = end[k]
        /\ Len(FlattenSeq(log)) = end[Len(log)]
    BY <1>7, <2>1, FlattenLengths
  <2>3. QED
    BY <1>7, <2>2 DEF Before, end
<1>9. QED
  BY <1>2, <1>6, <1>7, <1>8 DEF LogLayout, s, w, log


-----------------------------------------------------------------------------
(* Steps that users cannot see.                                            *)

(* What the users see of the device.                                       *)
SeenKept == Settled' = Settled /\ LoggedCommands' = LoggedCommands
              /\ PartialCommand' = PartialCommand

(* A step outside add_entry that leaves the device alone.                  *)
LEMMA SeenOutside ==
  ASSUME TypeOK, NEW p \in Procs, NEW l, pc' = [pc EXCEPT ![p] = l],
         pc[p] \notin Adding, l \notin Adding, UNCHANGED <<loaded, device>>
  PROVE  SeenKept
<1>1. \A q \in Procs : pc'[q] = IF q = p THEN l ELSE pc[q]
  BY DEF TypeOK
<1>2. /\ \A a \in Adding : (\E q \in Procs : pc'[q] = a) <=> (\E q \in Procs : pc[q] = a)
      /\ (\A q \in Procs : pc'[q] \notin Adding) <=> (\A q \in Procs : pc[q] \notin Adding)
  BY <1>1
<1>3. /\ loaded' = loaded /\ circular_buffer' = circular_buffer /\ heap' = heap
      /\ store_buffer' = store_buffer /\ buffer_length' = buffer_length
      /\ NewEntry' = NewEntry
  BY DEF device, NewEntry
<1>4. /\ (\E q \in Procs : pc'[q] = "w_entry") <=> (\E q \in Procs : pc[q] = "w_entry")
      /\ (\E q \in Procs : pc'[q] = "w_in") <=> (\E q \in Procs : pc[q] = "w_in")
      /\ (\E q \in Procs : pc'[q] = "w_out") <=> (\E q \in Procs : pc[q] = "w_out")
      /\ (\E q \in Procs : pc'[q] = "w_full") <=> (\E q \in Procs : pc[q] = "w_full")
  BY <1>2 DEF Adding
<1>5. Settled' = Settled
  BY <1>3, <1>4 DEF Settled
<1>6. LoggedCommands' = LoggedCommands
  BY <1>3, <1>5 DEF LoggedCommands
<1>7. PartialCommand' = PartialCommand
  BY <1>2, <1>3 DEF PartialCommand
<1>8. QED
  BY <1>5, <1>6, <1>7 DEF SeenKept

(* The statements of add_entry and the hand-over behind them: the command  *)
(* was seen from the moment its last byte was stored.                      *)
LEMMA SeenAdding ==
  ASSUME HeapInv, LockDiscipline', NEW p \in Procs,
         WriteEntry(p) \/ WriteInOffs(p) \/ WriteOutOffs(p) \/ WriteFull(p) \/ WriteReset(p)
  PROVE  SeenKept
<1> DEFINE b == circular_buffer
<1>1. SettledAsStored /\ SettledAsStored'
  BY SettledKnown, PTL DEF HeapInv, LockInv
<1>2. /\ pc[p] \in Adding /\ UNCHANGED <<loaded, heap>>
      /\ \A q \in Procs : q # p => pc[q] \notin Adding /\ pc'[q] = pc[q]
  <2>1. pc[p] \in Adding /\ UNCHANGED <<loaded, heap>> /\ \E l : pc' = [pc EXCEPT ![p] = l]
    BY DEF WriteEntry, WriteInOffs, WriteOutOffs, WriteFull, WriteReset, AddStatement, Goto,
           Adding
  <2>2. \A q \in Procs : q # p => pc[q] \notin Adding
    BY <2>1, OneHolder DEF HeapInv, LockInv, Critical
  <2>3. QED
    BY <2>1, <2>2 DEF HeapInv, LockInv, TypeOK
<1>3. Settled' = Settled
  <2>1. CASE WriteEntry(p)
    <3>1. /\ pc[p] = "w_entry" /\ pc'[p] = "w_in" /\ b' = StoreEntry(b, NewEntry)
      BY <2>1 DEF WriteEntry, AddStatement, Goto, HeapInv, LockInv, TypeOK
    <3>2. /\ Settled = aesd_circular_buffer_add_entry(b, NewEntry)
          /\ Settled' = SetFull(AdvanceOut(AdvanceIn(b')))
      BY <1>1, <3>1 DEF SettledAsStored
    <3>3. QED
      BY <3>1, <3>2 DEF aesd_circular_buffer_add_entry
  <2>2. CASE WriteInOffs(p)
    <3>1. /\ pc[p] = "w_in" /\ pc'[p] = "w_out" /\ b' = AdvanceIn(b)
      BY <2>2 DEF WriteInOffs, AddStatement, Goto, HeapInv, LockInv, TypeOK
    <3>2. QED
      BY <1>1, <3>1 DEF SettledAsStored
  <2>3. CASE WriteOutOffs(p)
    <3>1. /\ pc[p] = "w_out" /\ pc'[p] = "w_full" /\ b' = AdvanceOut(b)
      BY <2>3 DEF WriteOutOffs, AddStatement, Goto, HeapInv, LockInv, TypeOK
    <3>2. QED
      BY <1>1, <3>1 DEF SettledAsStored
  <2>4. CASE WriteFull(p)
    <3>1. /\ pc[p] = "w_full" /\ pc'[p] = "w_reset" /\ b' = SetFull(b)
      BY <2>4 DEF WriteFull, AddStatement, Goto, HeapInv, LockInv, TypeOK
    <3>2. \A q \in Procs : pc'[q] \notin Unsettled
      BY <1>2, <3>1 DEF Unsettled, Adding
    <3>3. QED
      BY <1>1, <3>1, <3>2 DEF SettledAsStored
  <2>5. CASE WriteReset(p)
    <3>1. /\ pc[p] = "w_reset" /\ pc'[p] = "unlock" /\ b' = b
      BY <2>5 DEF WriteReset, Goto, HeapInv, LockInv, TypeOK
    <3>2. \A q \in Procs : pc[q] \notin Unsettled /\ pc'[q] \notin Unsettled
      BY <1>2, <3>1 DEF Unsettled, Adding
    <3>3. QED
      BY <1>1, <3>1, <3>2 DEF SettledAsStored
  <2>6. QED
    BY <2>1, <2>2, <2>3, <2>4, <2>5
<1>4. LoggedCommands' = LoggedCommands
  BY <1>2, <1>3 DEF LoggedCommands
<1>5. PartialCommand = <<>> /\ PartialCommand' = <<>>
  <2>1. PartialCommand = <<>>
    BY <1>2 DEF PartialCommand
  <2>2. pc'[p] \in Adding \/ buffer_length' = 0
    BY DEF WriteEntry, WriteInOffs, WriteOutOffs, WriteFull, WriteReset, AddStatement, Goto,
           Adding, HeapInv, LockInv, TypeOK
  <2>3. PartialCommand' = <<>>
    BY <2>2 DEF PartialCommand
  <2>4. QED
    BY <2>1, <2>3
<1>6. QED
  BY <1>3, <1>4, <1>5 DEF SeenKept


-----------------------------------------------------------------------------
(* The step of a write that stores its bytes is the step its users see.    *)

(* The bytes of p are stored behind the partial command, and the blocks of *)
(* the commands are left alone.                                            *)
StoredBy(p) ==
  LET c    == local[p].chunk
      kept == IF PartialCommand = <<>> \/ LastNewline(c) = 0 THEN c
              ELSE SubSeq(c, 1, LastNewline(c))
  IN  /\ loaded /\ loaded' /\ UNCHANGED <<circular_buffer, f_pos, got>>
      /\ pc' = [pc EXCEPT ![p] = IF LastNewline(c) > 0 THEN "w_entry" ELSE "unlock"]
      /\ buffer_length' > 0
      /\ heap'[store_buffer'] = PartialCommand \o kept
      /\ \A i \in Offsets : circular_buffer.entry[i] # EmptySlot =>
           heap'[circular_buffer.entry[i].buffptr] = heap[circular_buffer.entry[i].buffptr]

LEMMA StoreAlone ==
  ASSUME HeapInv, NEW p \in Procs, pc[p] = "w_store"
  PROVE  /\ \A q \in Procs : pc[q] \notin Adding
         /\ loaded
         /\ Settled = circular_buffer
         /\ buffer_length = 0 => PartialCommand = <<>>
         /\ buffer_length > 0 => /\ PartialCommand = heap[store_buffer]
                                 /\ PartialCommand # <<>>
                                 /\ store_buffer \in DOMAIN heap
                                 /\ Len(heap[store_buffer]) = buffer_length
         /\ \A i \in Offsets : circular_buffer.entry[i] # EmptySlot =>
              /\ circular_buffer.entry[i].buffptr \in DOMAIN heap
              /\ buffer_length > 0 => circular_buffer.entry[i].buffptr # store_buffer
<1>1. \A q \in Procs : pc[q] \notin Adding
  <2>1. \A q \in Procs : pc[q] \in Adding => q = p
    BY OneHolder DEF HeapInv, LockInv, Critical
  <2>2. QED
    BY <2>1 DEF Adding
<1>2. loaded
  BY DEF HeapInv, LockInv, FilesNeedModule
<1>3. Settled = circular_buffer
  BY <1>1, SettledKnown DEF HeapInv, LockInv, SettledAsStored, Unsettled, Adding
<1>4. buffer_length > 0 => /\ store_buffer \in DOMAIN heap
                           /\ Len(heap[store_buffer]) = buffer_length
  BY <1>2 DEF HeapInv, HeapOwnership
<1>5. buffer_length = 0 => PartialCommand = <<>>
  BY DEF PartialCommand
<1>6. buffer_length > 0 => PartialCommand = heap[store_buffer] /\ PartialCommand # <<>>
  <2>1. SUFFICES ASSUME buffer_length > 0
                 PROVE  PartialCommand = heap[store_buffer] /\ PartialCommand # <<>>
    OBVIOUS
  <2>2. PartialCommand = heap[store_buffer]
    BY <1>1, <1>2, <2>1 DEF PartialCommand
  <2>3. Len(PartialCommand) = buffer_length /\ Len(<<>>) = 0
    BY <1>4, <2>1, <2>2
  <2>4. QED
    BY <2>1, <2>2, <2>3
<1>7. \A i \in Offsets : circular_buffer.entry[i] # EmptySlot =>
        /\ circular_buffer.entry[i].buffptr \in DOMAIN heap
        /\ buffer_length > 0 => circular_buffer.entry[i].buffptr # store_buffer
  BY <1>1, <1>2 DEF HeapInv, HeapOwnership, Adding
<1>8. QED
  BY <1>1, <1>2, <1>3, <1>4, <1>5, <1>6, <1>7

(* The new block of a first write holds all its bytes.                     *)
LEMMA StoreEffect ==
  ASSUME HeapInv, LockDiscipline', NEW p \in Procs, WriteStore(p)
  PROVE  \/ SeenKept /\ UNCHANGED <<f_pos, got>>
         \/ StoredBy(p)
<1> DEFINE c == local[p].chunk
<1>1. /\ pc[p] = "w_store" /\ c \in Chunks /\ buffer_length = 0
      /\ UNCHANGED <<loaded, circular_buffer, f_pos, got>>
  BY DEF WriteStore, HeapInv, LockInv, TypeOK, WriteCalls
<1>2. /\ \A q \in Procs : pc[q] \notin Adding
      /\ loaded /\ Settled = circular_buffer /\ PartialCommand = <<>>
      /\ \A i \in Offsets : circular_buffer.entry[i] # EmptySlot =>
           circular_buffer.entry[i].buffptr \in DOMAIN heap
  BY <1>1, StoreAlone
<1>3. CASE /\ Pointers \ DOMAIN heap # {}
           /\ store_buffer' = Fresh
           /\ heap' = [a \in DOMAIN heap \cup {Fresh} |->
                         IF a = Fresh THEN local[p].chunk ELSE heap[a]]
           /\ buffer_length' = Len(local[p].chunk)
           /\ AfterStore(p)
  <2>1. Fresh \notin DOMAIN heap
    BY <1>3 DEF Fresh
  <2>2. Len(c) > 0 /\ c \in Seq(Bytes)
    BY <1>1, KeptType
  <2>3. <<>> \o c = c
    BY <2>2, ConcatEmptySeq
  <2>4. heap'[store_buffer'] = c
    BY <1>3
  <2>5. \A i \in Offsets : circular_buffer.entry[i] # EmptySlot =>
          heap'[circular_buffer.entry[i].buffptr] = heap[circular_buffer.entry[i].buffptr]
    BY <1>2, <1>3, <2>1
  <2>6. QED
    BY <1>1, <1>2, <1>3, <2>2, <2>3, <2>4, <2>5 DEF StoredBy, AfterStore, Goto
<1>4. CASE buffer_length' = buffer_length /\ heap' = heap /\ Goto(p, "unlock")
  <2>1. \A q \in Procs : pc'[q] \notin Adding
    BY <1>1, <1>2, <1>4 DEF Goto, HeapInv, LockInv, TypeOK, Adding
  <2>2. Settled' = circular_buffer'
    <3>1. SettledAsStored'
      BY SettledKnown, PTL
    <3>2. QED
      BY <2>1, <3>1 DEF SettledAsStored, Unsettled, Adding
  <2>3. Settled' = Settled
    BY <1>1, <1>2, <2>2
  <2>4. LoggedCommands' = LoggedCommands
    BY <1>1, <1>4, <2>3 DEF LoggedCommands
  <2>5. PartialCommand' = <<>>
    BY <1>1, <1>4 DEF PartialCommand
  <2>6. QED
    BY <1>1, <1>2, <2>3, <2>4, <2>5 DEF SeenKept
<1>5. QED
  BY <1>3, <1>4 DEF WriteStore

(* The block of the partial command grows by the bytes that are kept.      *)
LEMMA AppendEffect ==
  ASSUME HeapInv, "krealloc" \notin Faults, NEW p \in Procs, WriteAppend(p)
  PROVE  StoredBy(p)
<1> DEFINE c == local[p].chunk
           kept == Kept(c)
           new == Extended(store_buffer, buffer_length, kept)
<1>1. /\ pc[p] = "w_store" /\ c \in Chunks /\ buffer_length > 0 /\ buffer_length \in Nat
      /\ UNCHANGED <<loaded, circular_buffer, f_pos, got>>
  BY DEF WriteAppend, HeapInv, LockInv, TypeOK, WriteCalls
<1>2. PICK b \in Pointers :
              /\ b = IF b \in DOMAIN heap THEN store_buffer ELSE Fresh
              /\ store_buffer' = b
              /\ heap' = [a \in (DOMAIN heap \ {store_buffer}) \cup {b} |->
                            IF a = b THEN new ELSE heap[a]]
              /\ buffer_length' = buffer_length + Len(kept)
              /\ AfterStore(p)
  BY DEF WriteAppend
<1>3. /\ loaded
      /\ PartialCommand = heap[store_buffer] /\ PartialCommand # <<>>
      /\ store_buffer \in DOMAIN heap
      /\ Len(heap[store_buffer]) = buffer_length
      /\ \A i \in Offsets : circular_buffer.entry[i] # EmptySlot =>
           /\ circular_buffer.entry[i].buffptr \in DOMAIN heap
           /\ circular_buffer.entry[i].buffptr # store_buffer
  BY <1>1, StoreAlone
<1>4. heap[store_buffer] \in Seq(Bytes \cup {Junk})
  BY <1>3 DEF HeapInv, LockInv, TypeOK
<1>5. /\ kept \in Seq(Bytes) /\ Len(kept) \in Nat
      /\ LastNewline(c) \in Nat
      /\ kept = IF LastNewline(c) = 0 THEN c ELSE SubSeq(c, 1, LastNewline(c))
  <2>1. LastNewline(c) \in 0 .. Len(c) /\ kept \in Seq(Bytes) /\ Len(c) \in Nat
    BY <1>1, KeptType
  <2>2. LastNewline(c) \in Nat
    BY <2>1
  <2>3. Len(kept) \in Nat
    BY <2>1, LenProperties
  <2>4. QED
    BY <2>1, <2>2, <2>3 DEF Kept
<1> HIDE DEF kept
<1>6. new = PartialCommand \o kept
  <2> DEFINE x == heap[store_buffer]
             y == [i \in 1 .. buffer_length |->
                     IF store_buffer \in DOMAIN heap /\ i <= Len(heap[store_buffer])
                     THEN heap[store_buffer][i] ELSE Junk]
  <2>1. new = y \o kept
    BY DEF Extended
  <2>2. y = [i \in 1 .. Len(x) |-> x[i]]
    BY <1>1, <1>3
  <2>3. x = [i \in 1 .. Len(x) |-> x[i]]
    BY <1>4
  <2> HIDE DEF new, x, y
  <2>4. QED
    BY <1>3, <2>1, <2>2, <2>3 DEF x
<1>7. heap'[store_buffer'] = new
  BY <1>2
<1>8. \A i \in Offsets : circular_buffer.entry[i] # EmptySlot =>
        heap'[circular_buffer.entry[i].buffptr] = heap[circular_buffer.entry[i].buffptr]
  <2>1. b = store_buffer \/ b \notin DOMAIN heap
    BY <1>2
  <2> HIDE DEF new
  <2>2. QED
    BY <1>2, <1>3, <2>1
<1>9. buffer_length' > 0
  BY <1>1, <1>2, <1>5
<1> HIDE DEF new
<1>10. QED
  BY <1>1, <1>2, <1>3, <1>5, <1>6, <1>7, <1>8, <1>9 DEF StoredBy, AfterStore, Goto


(* A newline begins the call of add_entry: the buffer will be as it is     *)
(* when that call has finished.                                            *)
LEMMA StoredShape ==
  ASSUME HeapInv, HeapInv', Shaped, NEW p \in Procs, pc[p] = "w_store", StoredBy(p)
  PROVE  /\ Settled = circular_buffer
         /\ LastNewline(local[p].chunk) > 0 =>
              /\ NewEntry' \in Written
              /\ Settled' = aesd_circular_buffer_add_entry(Settled, NewEntry')
         /\ ~ (LastNewline(local[p].chunk) > 0) =>
              /\ Settled' = Settled
              /\ \A q \in Procs : pc'[q] \notin Adding
         /\ Shaped'
<1> DEFINE nl == LastNewline(local[p].chunk)
<1>1. /\ \A q \in Procs : pc[q] \notin Adding
      /\ loaded /\ Settled = circular_buffer
  BY StoreAlone
<1>2. /\ loaded' /\ circular_buffer' = circular_buffer /\ buffer_length' > 0
      /\ \A q \in Procs : pc'[q] = IF q # p THEN pc[q]
                                   ELSE IF nl > 0 THEN "w_entry" ELSE "unlock"
  BY DEF StoredBy, HeapInv, LockInv, TypeOK
<1>3. SettledAsStored'
  BY SettledKnown, PTL DEF HeapInv, LockInv
<1>4. ShapeOf(Settled, Written) /\ Settled \in Buffers(Written \cup {EmptySlot})
  BY <1>1, SettledHasBlocks, EntriesAreWritten DEF Shaped, SettledOwned
<1>5. CASE nl > 0
  <2>1. pc'[p] = "w_entry"
    BY <1>2, <1>5
  <2>2. Settled' = aesd_circular_buffer_add_entry(Settled, NewEntry')
    BY <1>1, <1>2, <1>3, <2>1 DEF SettledAsStored
  <2>3. NewEntry' \in Written
    <3>1. (TypeOK => (buffer_length > 0 => NewEntry \in Written))'
      BY NewEntryWritten, PTL
    <3>2. QED
      BY <1>2, <3>1 DEF HeapInv, LockInv
  <2>4. ShapeOf(Settled', Written)
    BY <1>4, <2>2, <2>3, AddEntryShaped
  <2>5. QED
    BY <1>1, <1>5, <2>2, <2>3, <2>4 DEF Shaped
<1>6. CASE ~ (nl > 0)
  <2>1. \A q \in Procs : pc'[q] \notin Adding
    BY <1>1, <1>2, <1>6 DEF Adding
  <2>2. Settled' = Settled
    BY <1>1, <1>2, <1>3, <2>1 DEF SettledAsStored, Unsettled, Adding
  <2>3. QED
    BY <1>1, <1>4, <1>6, <2>1, <2>2 DEF Shaped
<1>7. QED
  BY <1>5, <1>6

(* The blocks of a sequence of entries, in the heap g.                     *)
BlocksOf(s, g) == [k \in 1 .. Len(s) |-> g[s[k].buffptr]]
Blocks(W, g)   == {g[x.buffptr] : x \in W}

LEMMA BlocksLength ==
  ASSUME NEW W, NEW s \in Seq(W), NEW g
  PROVE  /\ BlocksOf(s, g) \in Seq(Blocks(W, g))
         /\ Len(BlocksOf(s, g)) = Len(s)
         /\ \A k \in 1 .. Len(s) : BlocksOf(s, g)[k] = g[s[k].buffptr]
<1> DEFINE S == Blocks(W, g)
           n == Len(s)
           f == [k \in 1 .. n |-> g[s[k].buffptr]]
<1>1. n \in Nat /\ \A k \in 1 .. n : s[k] \in W
  BY LenProperties, ElementOfSeq
<1>2. BlocksOf(s, g) = f
  BY DEF BlocksOf
<1>3. f \in [1 .. n -> S]
  BY <1>1 DEF Blocks
<1> HIDE DEF S, n
<1>4. f \in Seq(S) /\ Len(f) = n
  BY <1>1, <1>3
<1>5. \A k \in 1 .. n : f[k] = g[s[k].buffptr]
  OBVIOUS
<1>6. QED
  BY <1>2, <1>4, <1>5 DEF S, n

LEMMA BlocksAppend ==
  ASSUME NEW W, NEW s \in Seq(W), NEW e \in W, NEW g
  PROVE  BlocksOf(Append(s, e), g) = Append(BlocksOf(s, g), g[e.buffptr])
<1> DEFINE S == Blocks(W, g)
           a == Append(s, e)
           x == BlocksOf(s, g)
           y == BlocksOf(a, g)
           z == Append(x, g[e.buffptr])
<1>1. /\ a \in Seq(W) /\ Len(a) = Len(s) + 1 /\ Len(s) \in Nat
      /\ \A k \in 1 .. Len(s) : a[k] = s[k]
      /\ a[Len(s) + 1] = e
  BY AppendProperties, LenProperties
<1>2. /\ x \in Seq(S) /\ Len(x) = Len(s)
      /\ \A k \in 1 .. Len(s) : x[k] = g[s[k].buffptr]
  BY BlocksLength
<1> HIDE DEF a, x
<1>3. /\ y \in Seq(S) /\ Len(y) = Len(a)
      /\ \A k \in 1 .. Len(a) : y[k] = g[a[k].buffptr]
  BY <1>1, BlocksLength
<1>4. g[e.buffptr] \in S
  BY DEF Blocks
<1> HIDE DEF S, y
<1>5. /\ z \in Seq(S) /\ Len(z) = Len(x) + 1
      /\ \A k \in 1 .. Len(x) : z[k] = x[k]
      /\ z[Len(x) + 1] = g[e.buffptr]
  BY <1>2, <1>4, AppendProperties
<1> HIDE DEF z
<1>6. ASSUME NEW k \in 1 .. Len(y)
      PROVE  y[k] = z[k]
  <2>1. k \in 1 .. Len(s) \/ k = Len(s) + 1
    BY <1>1, <1>3
  <2>2. y[k] = g[a[k].buffptr]
    BY <1>3
  <2>3. QED
    BY <1>1, <1>2, <1>5, <2>1, <2>2
<1>7. y = z
  BY <1>1, <1>2, <1>3, <1>5, <1>6, SeqEqual
<1>8. QED
  BY <1>7 DEF a, x, y, z

LEMMA BlocksTail ==
  ASSUME NEW W, NEW s \in Seq(W), s # <<>>, NEW g
  PROVE  BlocksOf(Tail(s), g) = Tail(BlocksOf(s, g))
<1> DEFINE S == Blocks(W, g)
           a == Tail(s)
           x == BlocksOf(s, g)
           y == BlocksOf(a, g)
           z == Tail(x)
<1>1. /\ a \in Seq(W) /\ Len(a) = Len(s) - 1 /\ Len(s) \in Nat /\ Len(s) # 0
      /\ \A k \in 1 .. Len(s) - 1 : a[k] = s[k + 1]
  BY HeadTailProperties, LenProperties, EmptySeq
<1>2. /\ x \in Seq(S) /\ Len(x) = Len(s)
      /\ \A k \in 1 .. Len(s) : x[k] = g[s[k].buffptr]
  BY BlocksLength
<1> HIDE DEF a, x
<1>3. /\ y \in Seq(S) /\ Len(y) = Len(a)
      /\ \A k \in 1 .. Len(a) : y[k] = g[a[k].buffptr]
  BY <1>1, BlocksLength
<1> HIDE DEF S, y
<1>4. x # <<>>
  BY <1>1, <1>2, EmptySeq
<1>5. /\ z \in Seq(S) /\ Len(z) = Len(x) - 1
      /\ \A k \in 1 .. Len(x) - 1 : z[k] = x[k + 1]
  BY <1>2, <1>4, HeadTailProperties
<1> HIDE DEF z
<1>6. ASSUME NEW k \in 1 .. Len(y)
      PROVE  y[k] = z[k]
  <2>1. k \in 1 .. Len(s) - 1 /\ k + 1 \in 1 .. Len(s)
    BY <1>1, <1>3
  <2>2. y[k] = g[s[k + 1].buffptr]
    BY <1>1, <1>3, <2>1
  <2>3. z[k] = g[s[k + 1].buffptr]
    BY <1>2, <1>5, <2>1
  <2>4. QED
    BY <2>2, <2>3
<1>7. y = z
  BY <1>1, <1>2, <1>3, <1>5, <1>6, SeqEqual
<1>8. QED
  BY <1>7 DEF a, x, y, z

(* The library as the device sees it.                                      *)
LEMMA SameLibrary ==
  /\ \A s : Device!FlattenSeq(s) = FlattenSeq(s)
  /\ \A T : Device!Min(T) = Min(T) /\ Device!Max(T) = Max(T)
  /\ \A c : Device!LastNewline(c) = LastNewline(c)
<1>1. \A s : Device!FlattenSeq(s) = FlattenSeq(s)
  BY Zenon DEF Device!FlattenSeq, FlattenSeq
<1>2. \A T : Device!Min(T) = Min(T) /\ Device!Max(T) = Max(T)
  BY Zenon DEF Device!Min, Min, Device!Max, Max
<1>3. \A c : Device!LastNewline(c) = LastNewline(c)
  BY <1>2, Zenon DEF Device!LastNewline, LastNewline
<1>4. QED
  BY <1>1, <1>2, <1>3

(* Storing the bytes is the write that the users of the device see.        *)
LEMMA StoredWrites ==
  ASSUME HeapInv, HeapInv', Shaped, NEW p \in Procs, pc[p] = "w_store", StoredBy(p)
  PROVE  Device!Write(local[p].chunk)
<1> DEFINE S == Seq(Bytes \cup {Junk})
           c == local[p].chunk
           nl == LastNewline(c)
           kept == IF PartialCommand = <<>> \/ nl = 0 THEN c ELSE SubSeq(c, 1, nl)
           e == PartialCommand \o kept
           log == LoggedCommands
           cmds == Commands(Settled)
           w == WalkLength(Settled)
           cmds2 == Commands(Settled')
           w2 == WalkLength(Settled')
<1>1. /\ loaded /\ loaded' /\ UNCHANGED <<circular_buffer, f_pos, got>>
      /\ buffer_length' > 0 /\ heap'[store_buffer'] = e
      /\ \A q \in Procs : pc'[q] = IF q # p THEN pc[q]
                                   ELSE IF nl > 0 THEN "w_entry" ELSE "unlock"
      /\ \A i \in Offsets : circular_buffer.entry[i] # EmptySlot =>
           heap'[circular_buffer.entry[i].buffptr] = heap[circular_buffer.entry[i].buffptr]
  BY DEF StoredBy, HeapInv, LockInv, TypeOK
<1>2. /\ Settled = circular_buffer /\ Shaped'
      /\ nl > 0 => /\ NewEntry' \in Written
                   /\ Settled' = aesd_circular_buffer_add_entry(Settled, NewEntry')
      /\ ~ (nl > 0) => Settled' = Settled /\ \A q \in Procs : pc'[q] \notin Adding
  BY StoredShape
<1>3. nl \in Nat /\ c \in Chunks
  <2>1. c \in Chunks
    BY DEF HeapInv, LockInv, TypeOK, WriteCalls
  <2>2. nl \in 0 .. Len(c) /\ Len(c) \in Nat
    BY <2>1, KeptType
  <2>3. QED
    BY <2>1, <2>2
<1>4. LogLayout /\ LogLayout'
  BY <1>2, LogLaidOut, PTL
<1>5. /\ log \in Seq(S) /\ Len(log) = w /\ Len(cmds) = w /\ w \in 0 .. MaxOps
      /\ \A k \in 1 .. w : log[k] = heap'[cmds[k].buffptr]
  <2>1. /\ log \in Seq(S) /\ Len(log) = w /\ Len(cmds) = w /\ w \in 0 .. MaxOps
        /\ \A k \in 1 .. w : /\ SlotOf(Settled, k) \in Offsets
                             /\ cmds[k] = Settled.entry[SlotOf(Settled, k)]
                             /\ cmds[k] # EmptySlot
                             /\ log[k] = heap[cmds[k].buffptr]
    BY <1>1, <1>4 DEF LogLayout
  <2> HIDE DEF log, cmds, w, S, e, nl, c
  <2>2. Settled = circular_buffer
    BY <1>2
  <2>3. ASSUME NEW k \in 1 .. w
        PROVE  log[k] = heap'[cmds[k].buffptr]
    <3> DEFINE i == SlotOf(Settled, k)
    <3>1. /\ i \in Offsets /\ cmds[k] = circular_buffer.entry[i]
          /\ circular_buffer.entry[i] # EmptySlot
          /\ log[k] = heap[cmds[k].buffptr]
      BY <2>1, <2>2
    <3> HIDE DEF i
    <3>2. QED
      BY <1>1, <3>1
  <2>4. QED
    BY <2>1, <2>3
<1>6. /\ log' \in Seq(S) /\ Len(log') = w2 /\ Len(cmds2) = w2
      /\ \A k \in 1 .. w2 : log'[k] = heap'[cmds2[k].buffptr]
  BY <1>1, <1>4 DEF LogLayout
<1>7. CASE nl > 0
  <2>1. /\ Settled \in Buffers(Written \cup {EmptySlot}) /\ ShapeOf(Settled, Written)
    BY <1>1, SettledHasBlocks, EntriesAreWritten DEF Shaped, SettledOwned
  <2>2. cmds2 = Append(IF Len(cmds) < MaxOps THEN cmds ELSE Tail(cmds), NewEntry')
    BY <1>2, <1>7, <2>1, AddEntryAppends
  <2>3. cmds \in Seq(Written)
    BY <2>1, CommandsShaped
  <2>4. e = heap'[(NewEntry').buffptr] /\ e \in S
    <3>1. (NewEntry').buffptr = store_buffer'
      BY DEF NewEntry
    <3>2. pc'[p] = "w_entry"
      BY <1>1, <1>7
    <3>3. store_buffer' \in DOMAIN heap'
      BY <1>1 DEF HeapInv, HeapOwnership
    <3>4. heap'[store_buffer'] \in S
      BY <3>3 DEF HeapInv, LockInv, TypeOK
    <3>5. QED
      BY <1>1, <3>1, <3>4
  <2> HIDE DEF e, log, cmds, cmds2, w, w2, S
  <2>5. log' = Append(IF Len(log) < MaxOps THEN log ELSE Tail(log), e)
    <3> DEFINE log2 == log'
               g == heap'
               entry == NewEntry'
               c0 == IF Len(cmds) < MaxOps THEN cmds ELSE Tail(cmds)
    <3>1. entry \in Written /\ e = g[entry.buffptr] /\ cmds2 = Append(c0, entry)
      BY <1>2, <1>7, <2>2, <2>4
    <3>2. log = BlocksOf(cmds, g)
      <4>1. /\ BlocksOf(cmds, g) = [k \in 1 .. Len(cmds) |-> g[cmds[k].buffptr]]
            /\ \A k \in 1 .. Len(cmds) : log[k] = g[cmds[k].buffptr]
            /\ log \in Seq(S) /\ Len(log) = Len(cmds)
        BY <1>5 DEF BlocksOf
      <4>2. log = [k \in 1 .. Len(log) |-> log[k]]
        BY <4>1
      <4> HIDE DEF g
      <4>3. QED
        BY <4>1, <4>2
    <3>3. log2 = BlocksOf(cmds2, g)
      <4>1. /\ BlocksOf(cmds2, g) = [k \in 1 .. Len(cmds2) |-> g[cmds2[k].buffptr]]
            /\ \A k \in 1 .. Len(cmds2) : log2[k] = g[cmds2[k].buffptr]
            /\ log2 \in Seq(S) /\ Len(log2) = Len(cmds2)
        BY <1>6 DEF BlocksOf
      <4>2. log2 = [k \in 1 .. Len(log2) |-> log2[k]]
        BY <4>1
      <4> HIDE DEF g, log2
      <4>3. QED
        BY <4>1, <4>2
    <3> HIDE DEF log2, g, entry
    <3>4. /\ Len(log) = Len(cmds)
          /\ ~ (Len(cmds) < MaxOps) => cmds # <<>>
      BY <1>5, <2>3, MaxOpsAssumption, LenProperties, EmptySeq
    <3>5. c0 \in Seq(Written) /\ BlocksOf(c0, g) = IF Len(log) < MaxOps THEN log ELSE Tail(log)
      <4>1. CASE Len(cmds) < MaxOps
        BY <2>3, <3>2, <3>4, <4>1
      <4>2. CASE ~ (Len(cmds) < MaxOps)
        <5>1. Tail(cmds) \in Seq(Written) /\ BlocksOf(Tail(cmds), g) = Tail(log)
          BY <2>3, <3>2, <3>4, <4>2, BlocksTail, HeadTailProperties
        <5>2. QED
          BY <3>4, <4>2, <5>1
      <4>3. QED
        BY <4>1, <4>2
    <3> HIDE DEF c0
    <3>6. BlocksOf(Append(c0, entry), g) = Append(BlocksOf(c0, g), g[entry.buffptr])
      BY <3>1, <3>5, BlocksAppend
    <3>7. log2 = Append(IF Len(log) < MaxOps THEN log ELSE Tail(log), e)
      BY <3>1, <3>3, <3>5, <3>6
    <3>8. QED
      BY <3>7 DEF log2
  <2>6. log' = Device!Log!Pushed(log, e)
    BY <2>5 DEF Device!Log!Pushed
  <2>7. PartialCommand' = <<>>
    BY <1>1, <1>7 DEF PartialCommand, Adding
  <2>8. QED
    BY <1>1, <1>3, <1>7, <2>6, <2>7, SameLibrary DEF Device!Write, e, log
<1>8. CASE ~ (nl > 0)
  <2>1. nl = 0 /\ Settled' = Settled /\ \A q \in Procs : pc'[q] \notin Adding
    BY <1>2, <1>3, <1>8
  <2>2. log' = log
    <3>1. Len(log') = Len(log) /\ \A k \in 1 .. Len(log') : log'[k] = log[k]
      BY <1>5, <1>6, <2>1
    <3> HIDE DEF log, S
    <3>2. QED
      BY <1>5, <1>6, <3>1, SeqEqual
  <2>3. PartialCommand' = e
    BY <1>1, <2>1 DEF PartialCommand
  <2> HIDE DEF e, log, nl
  <2>4. QED
    BY <1>1, <2>1, <2>2, <2>3, SameLibrary DEF Device!Write, e, log, nl
<1>9. QED
  BY <1>7, <1>8


-----------------------------------------------------------------------------
(* The invariant of reads.                                                 *)

(* A call starts without a result, and a file that is not open has no      *)
(* position.                                                               *)
ResultsFresh ==
  \A p \in Procs : /\ pc[p] \notin {"idle", "unlock"} => got[p] = <<>>
                   /\ pc[p] = "closed" => f_pos[p] = 0

StreamInv == HeapInv /\ Shaped /\ ResultsFresh

(* Everything a process does outside add_entry and the storing of its      *)
(* bytes leaves what users see of the device alone.                        *)
Outside(p) ==
  \/ aesd_open(p) \/ aesd_release(p) \/ Call(p) \/ Lock(p) \/ Interrupted(p) \/ Unlock(p)
  \/ WriteCopy(p) \/ ReadBody(p) \/ LlseekBody(p) \/ IoctlFull(p) \/ IoctlWalk(p)

LEMMA OutsideSeen ==
  ASSUME TypeOK, NEW p \in Procs, Outside(p)
  PROVE  SeenKept
<1> USE DEF Goto
<1>1. /\ pc[p] \notin Adding /\ UNCHANGED <<loaded, device>>
      /\ \E l \in {"closed", "idle", "w_copy", "r_body", "s_body", "i_full", "i_walk",
                   "w_store", "unlock"} \cup Waiting : pc' = [pc EXCEPT ![p] = l]
  <2>1. CASE aesd_open(p) \/ aesd_release(p) \/ Call(p)
    BY <2>1 DEF aesd_open, aesd_release, Call, CallWrite, CallRead, CallLlseek, CallIoctl,
                Begin, Adding, Waiting
  <2>2. CASE Lock(p) \/ Interrupted(p) \/ Unlock(p) \/ WriteCopy(p)
    BY <2>2 DEF Lock, Enters, Interrupted, Unlock, WriteCopy, Return, Adding, Waiting
  <2>3. CASE ReadBody(p) \/ LlseekBody(p) \/ IoctlFull(p) \/ IoctlWalk(p)
    BY <2>3 DEF ReadBody, LlseekBody, IoctlFull, IoctlWalk, Visit, Return, Adding
  <2>4. QED
    BY <2>1, <2>2, <2>3 DEF Outside
<1>2. PICK l \in {"closed", "idle", "w_copy", "r_body", "s_body", "i_full", "i_walk",
                  "w_store", "unlock"} \cup Waiting : pc' = [pc EXCEPT ![p] = l]
  BY <1>1
<1>3. l \notin Adding
  BY DEF Adding, Waiting
<1>4. QED
  BY <1>1, <1>2, <1>3, SeenOutside

(* Everything that is a step of the driver.                                *)
LEMMA NextSteps ==
  ASSUME [Next]_vars
  PROVE  \/ aesd_init_module
         \/ aesd_cleanup_module
         \/ \E p \in Procs :
              \/ Outside(p)
              \/ WriteStore(p) \/ WriteAppend(p)
              \/ WriteEntry(p) \/ WriteInOffs(p) \/ WriteOutOffs(p) \/ WriteFull(p)
              \/ WriteReset(p)
         \/ UNCHANGED vars
  BY DEF Next, Work, Outside

(* The module is loaded while no file is open: the device is as new.       *)
LEMMA ModuleSeen ==
  ASSUME HeapInv, aesd_init_module
  PROVE  /\ Settled' = aesd_circular_buffer_init
         /\ LoggedCommands' = LoggedCommands /\ PartialCommand' = PartialCommand
<1>1. /\ ~loaded /\ circular_buffer' = aesd_circular_buffer_init /\ buffer_length' = 0
      /\ pc' = pc /\ \A p \in Procs : pc'[p] = "closed"
  BY DEF aesd_init_module, HeapInv, LockInv, FilesNeedModule
<1>2. Settled' = aesd_circular_buffer_init
  BY <1>1 DEF Settled
<1>3. WalkLength(Settled') = 0
  <2>1. /\ aesd_circular_buffer_init \in Buffers(Written \cup {EmptySlot})
        /\ ShapeOf(aesd_circular_buffer_init, Written)
    BY InitShaped
  <2>2. /\ aesd_circular_buffer_init.full = FALSE
        /\ aesd_circular_buffer_init.in_offs = 0
    BY DEF aesd_circular_buffer_init
  <2> DEFINE b == aesd_circular_buffer_init
  <2> HIDE DEF b
  <2>3. WalkLength(b) = IF b.full THEN MaxOps ELSE b.in_offs
    BY <2>1, WalkShaped DEF b
  <2>4. b.full = FALSE /\ b.in_offs = 0
    BY <2>2 DEF b
  <2>5. QED
    BY <1>2, <2>3, <2>4 DEF b
<1>4. LoggedCommands' = <<>>
  <2> DEFINE f == [k \in 1 .. WalkLength(Settled') |-> (heap')[Commands(Settled')[k].buffptr]]
  <2>1. LoggedCommands' = IF loaded' THEN f ELSE <<>>
    BY DEF LoggedCommands
  <2>2. f = [k \in 1 .. 0 |-> (heap')[Commands(Settled')[k].buffptr]]
    BY <1>3
  <2>3. f = <<>>
    BY <2>2
  <2>4. QED
    BY <2>1, <2>3
<1>5. QED
  BY <1>1, <1>2, <1>4 DEF LoggedCommands, PartialCommand

LEMMA ShapedNext ==
  ASSUME HeapInv, HeapInv', Shaped, "krealloc" \notin Faults, [Next]_vars
  PROVE  Shaped'
<1>1. CASE aesd_init_module
  BY <1>1, ModuleSeen, InitShaped DEF Shaped
<1>2. CASE aesd_cleanup_module
  BY <1>2 DEF aesd_cleanup_module, Shaped
<1>3. CASE SeenKept /\ UNCHANGED loaded
  BY <1>3 DEF SeenKept, Shaped
<1>4. ASSUME NEW p \in Procs, Outside(p)
      PROVE  Shaped'
  <2>1. UNCHANGED loaded
    BY <1>4 DEF Outside, aesd_open, aesd_release, Call, CallWrite, CallRead, CallLlseek,
                CallIoctl, Begin, Lock, Interrupted, Unlock, WriteCopy, ReadBody, LlseekBody,
                IoctlFull, IoctlWalk
  <2>2. QED
    BY <1>3, <1>4, <2>1, OutsideSeen DEF HeapInv, LockInv
<1>5. ASSUME NEW p \in Procs, WriteStore(p) \/ WriteAppend(p)
      PROVE  Shaped'
  <2>1. pc[p] = "w_store" /\ UNCHANGED loaded
    BY <1>5 DEF WriteStore, WriteAppend
  <2>2. SeenKept \/ StoredBy(p)
    BY <1>5, StoreEffect, AppendEffect DEF HeapInv, LockInv
  <2>3. QED
    BY <1>3, <2>1, <2>2, StoredShape
<1>6. ASSUME NEW p \in Procs,
             WriteEntry(p) \/ WriteInOffs(p) \/ WriteOutOffs(p) \/ WriteFull(p) \/ WriteReset(p)
      PROVE  Shaped'
  <2>1. UNCHANGED loaded
    BY <1>6 DEF WriteEntry, WriteInOffs, WriteOutOffs, WriteFull, WriteReset, AddStatement
  <2>2. SeenKept
    BY <1>6, SeenAdding DEF HeapInv, LockInv
  <2>3. QED
    BY <1>3, <2>1, <2>2
<1>7. CASE UNCHANGED vars
  BY <1>7 DEF vars, device, Shaped, Settled, NewEntry
<1>8. QED
  BY <1>1, <1>2, <1>4, <1>5, <1>6, <1>7, NextSteps

LEMMA ResultsNext ==
  ASSUME TypeOK, ResultsFresh, FilesNeedModule, [Next]_vars
  PROVE  ResultsFresh'
<1> USE DEF Goto, TypeOK
<1>1. CASE aesd_init_module \/ aesd_cleanup_module \/ UNCHANGED vars
  BY <1>1 DEF aesd_init_module, aesd_cleanup_module, vars, ResultsFresh
<1>2. ASSUME NEW p \in Procs, aesd_open(p) \/ aesd_release(p)
      PROVE  ResultsFresh'
  BY <1>2 DEF aesd_open, aesd_release, ResultsFresh
<1>3. ASSUME NEW p \in Procs, Call(p)
      PROVE  ResultsFresh'
  <2>1. /\ \E l \in {"w_lock", "r_lock", "s_lock", "i_full"} : pc' = [pc EXCEPT ![p] = l]
        /\ got' = [got EXCEPT ![p] = <<>>] /\ f_pos' = f_pos
    BY <1>3 DEF Call, CallWrite, CallRead, CallLlseek, CallIoctl, Begin
  <2>2. QED
    BY <2>1 DEF ResultsFresh
<1>4. ASSUME NEW p \in Procs, NEW l, pc' = [pc EXCEPT ![p] = l], got' = got,
             l # "closed", pc[p] = "idle" => l \in {"idle", "unlock"},
             pc[p] = "unlock" => l \in {"idle", "unlock"},
             \A q \in Procs : q # p => f_pos'[q] = f_pos[q]
      PROVE  ResultsFresh'
  BY <1>4 DEF ResultsFresh
<1>5. ASSUME NEW p \in Procs, Lock(p) \/ Interrupted(p) \/ Unlock(p)
      PROVE  ResultsFresh'
  <2>1. /\ \E l \in {"idle", "w_copy", "r_body", "s_body"} : pc' = [pc EXCEPT ![p] = l]
        /\ got' = got /\ f_pos' = f_pos /\ pc[p] # "idle"
        /\ pc[p] = "unlock" => pc' = [pc EXCEPT ![p] = "idle"]
    BY <1>5 DEF Lock, Enters, Interrupted, Unlock, Return, Waiting
  <2>2. QED
    BY <1>4, <2>1
<1>6. ASSUME NEW p \in Procs,
             \/ WriteCopy(p) \/ WriteStore(p) \/ WriteAppend(p) \/ WriteEntry(p)
             \/ WriteInOffs(p) \/ WriteOutOffs(p) \/ WriteFull(p) \/ WriteReset(p)
      PROVE  ResultsFresh'
  <2>1. /\ \E l \in {"unlock", "w_store"} \cup Adding : pc' = [pc EXCEPT ![p] = l]
        /\ got' = got /\ f_pos' = f_pos /\ pc[p] \notin {"idle", "unlock"}
    BY <1>6 DEF WriteCopy, WriteStore, WriteAppend, WriteEntry, WriteInOffs, WriteOutOffs,
                WriteFull, WriteReset, AddStatement, AfterStore, Adding
  <2>2. QED
    BY <1>4, <2>1 DEF Adding
<1>7. ASSUME NEW p \in Procs, ReadBody(p)
      PROVE  ResultsFresh'
  <2>1. /\ pc' = [pc EXCEPT ![p] = "unlock"]
        /\ \A q \in Procs : q # p => got'[q] = got[q] /\ f_pos'[q] = f_pos[q]
    BY <1>7 DEF ReadBody
  <2>2. QED
    BY <2>1 DEF ResultsFresh
<1>8. ASSUME NEW p \in Procs, LlseekBody(p) \/ IoctlFull(p) \/ IoctlWalk(p)
      PROVE  ResultsFresh'
  <2>1. /\ \E l \in {"idle", "unlock", "i_walk"} : pc' = [pc EXCEPT ![p] = l]
        /\ got' = got /\ pc[p] \notin {"idle", "unlock"}
        /\ \A q \in Procs : q # p => f_pos'[q] = f_pos[q]
    BY <1>8 DEF LlseekBody, IoctlFull, IoctlWalk, Visit, Return
  <2>2. QED
    BY <1>4, <2>1
<1>9. QED
  BY <1>1, <1>2, <1>3, <1>5, <1>6, <1>7, <1>8 DEF Next, Work

LEMMA StreamNext ==
  ASSUME Interruptible = FALSE, Whences \subseteq {0, 1}, "krealloc" \notin Faults,
         StreamInv, [Next]_vars
  PROVE  StreamInv'
<1>1. HeapInv'
  BY TypeNext, FilesNext, LockNext, HeapNext DEF StreamInv, HeapInv, LockInv
<1>2. Shaped'
  BY <1>1, ShapedNext DEF StreamInv
<1>3. ResultsFresh'
  BY ResultsNext DEF StreamInv, HeapInv, LockInv
<1>4. QED
  BY <1>1, <1>2, <1>3 DEF StreamInv

LEMMA StreamInit == Init => StreamInv
<1> SUFFICES ASSUME Init
             PROVE  StreamInv
  OBVIOUS
<1>1. TypeOK
  BY TypeInit
<1>2. /\ ~loaded /\ \A p \in Procs : pc[p] = "closed" /\ lock # p /\ got[p] = <<>> /\ f_pos[p] = 0
  BY NullAssumption DEF Init
<1>3. LockDiscipline
  BY <1>2 DEF LockDiscipline, Critical, Adding
<1>4. FilesNeedModule /\ BytesToAdd
  BY <1>2 DEF FilesNeedModule, BytesToAdd, Adding
<1>5. HeapOwnership /\ Shaped /\ ResultsFresh
  BY <1>2 DEF HeapOwnership, Shaped, ResultsFresh
<1>6. QED
  BY <1>1, <1>3, <1>4, <1>5 DEF StreamInv, HeapInv, LockInv


-----------------------------------------------------------------------------
(* Reads.                                                                  *)

(* The read of p returns bytes of the command its position lies in: up to  *)
(* count, or to the end of that command.                                   *)
ReadsCommand(p) ==
  \E k \in 1 .. Len(LoggedCommands), n \in Nat \ {0} :
    LET start == Before(LoggedCommands, k - 1)
        from  == f_pos[p] - start
        size  == Len(LoggedCommands[k])
    IN  /\ start <= f_pos[p] /\ f_pos[p] < start + size
        /\ n = IF local[p].count <= size - from THEN local[p].count ELSE size - from
        /\ got' = [got EXCEPT ![p] = SubSeq(LoggedCommands[k], from + 1, from + n)]
        /\ f_pos' = [f_pos EXCEPT ![p] = @ + n]

(* The smaller of two numbers.                                             *)
LEMMA MinOfTwo ==
  \A x, y \in Nat : Min({x, y}) = IF x <= y THEN x ELSE y
<1> TAKE x, y \in Nat
<1>1. Min({x, y}) \in {x, y} /\ \A z \in {x, y} : Min({x, y}) <= z
  BY MinOfNaturals
<1>2. QED
  BY <1>1

(* Bytes of a live block are a piece of what it holds.                     *)
LEMMA BytesOfBlock ==
  ASSUME NEW a \in DOMAIN heap, NEW S, heap[a] \in Seq(S), NEW from \in Nat, NEW n \in Nat,
         from + n <= Len(heap[a])
  PROVE  BytesAt(a, from, n) = SubSeq(heap[a], from + 1, from + n)
<1> DEFINE x == heap[a]
           piece == SubSeq(x, from + 1, from + n)
<1>1. Len(x) \in Nat
  BY LenProperties
<1> HIDE DEF x
<1>2. \A k \in 1 .. n : from + k <= Len(x)
  BY <1>1 DEF x
<1>3. BytesAt(a, from, n) = [k \in 1 .. n |-> x[from + k]]
  BY <1>2 DEF BytesAt, x
<1>4. piece = [k \in 1 .. n |-> x[from + k]]
  <2>1. x \in Seq(S) /\ from + 1 \in Int /\ from + n \in Int
    BY DEF x
  <2>2. piece = [k \in 1 .. (from + n) - (from + 1) + 1 |-> x[k + (from + 1) - 1]]
    BY <2>1
  <2>3. (from + n) - (from + 1) + 1 = n /\ \A k \in 1 .. n : k + (from + 1) - 1 = from + k
    OBVIOUS
  <2>4. QED
    BY <2>2, <2>3
<1>5. QED
  BY <1>3, <1>4 DEF x

(* Only the copy of a read goes from there to the end of the call.         *)
LEMMA OnlyReads ==
  ASSUME TypeOK, Next, NEW p \in Procs, pc[p] = "r_body", pc'[p] = "unlock"
  PROVE  ReadBody(p)
<1> USE DEF Goto, TypeOK
<1>2. ~ (aesd_init_module \/ aesd_cleanup_module)
  BY DEF aesd_init_module, aesd_cleanup_module
<1>3. ASSUME NEW q \in Procs, aesd_open(q) \/ aesd_release(q) \/ Call(q)
      PROVE  FALSE
  BY <1>3 DEF aesd_open, aesd_release, Call, CallWrite, CallRead, CallLlseek, CallIoctl, Begin
<1>4. ASSUME NEW q \in Procs, Lock(q) \/ Interrupted(q) \/ Unlock(q)
      PROVE  FALSE
  BY <1>4 DEF Lock, Interrupted, Unlock, Enters, Return, Waiting
<1>5. ASSUME NEW q \in Procs,
             \/ WriteCopy(q) \/ WriteStore(q) \/ WriteAppend(q) \/ WriteEntry(q)
             \/ WriteInOffs(q) \/ WriteOutOffs(q) \/ WriteFull(q) \/ WriteReset(q)
      PROVE  FALSE
  BY <1>5 DEF WriteCopy, WriteStore, WriteAppend, WriteEntry, WriteInOffs, WriteOutOffs,
              WriteFull, WriteReset, AddStatement, AfterStore
<1>6. ASSUME NEW q \in Procs, LlseekBody(q) \/ IoctlFull(q) \/ IoctlWalk(q)
      PROVE  FALSE
  BY <1>6 DEF LlseekBody, IoctlFull, IoctlWalk, Visit, Return
<1>7. ASSUME NEW q \in Procs, ReadBody(q)
      PROVE  ReadBody(p)
  BY <1>7 DEF ReadBody
<1>8. QED
  BY <1>2, <1>3, <1>4, <1>5, <1>6, <1>7 DEF Next, Work

(* A read finds the command its position lies in, and its block.           *)
LEMMA ReadFinds ==
  ASSUME HeapInv, Shaped, NEW p \in Procs, ReadBody(p)
  PROVE  \/ ReadsCommand(p)
         \/ /\ UNCHANGED <<got, f_pos>>
            /\ f_pos[p] >= Len(FlattenSeq(LoggedCommands)) \/ "user" \in Faults
<1> DEFINE b     == circular_buffer
           at    == f_pos[p]
           count == local[p].count
           log   == LoggedCommands
           w     == WalkLength(Settled)
           hit   == aesd_circular_buffer_find_entry_offset_for_fpos(b, at)
           entry == b.entry[hit.slot]
           n     == Min({count, entry.size - hit.byte})
<1>1. /\ pc[p] = "r_body" /\ loaded /\ at \in Nat /\ count \in Nat \ {0}
      /\ b \in Buffers(Entries) /\ \A e \in Entries : e.size \in Nat
      /\ f_pos = [q \in Procs |-> f_pos[q]]
  BY InputAssumption DEF ReadBody, HeapInv, LockInv, FilesNeedModule, TypeOK, ReadCalls, Entries
<1>2. Settled = b
  <2>1. \A q \in Procs : pc[q] \notin Unsettled
    BY <1>1, OneHolder DEF HeapInv, LockInv, Critical, Adding, Unsettled
  <2>2. QED
    BY <2>1, SettledKnown DEF HeapInv, LockInv, SettledAsStored
<1>3. LogLayout
  BY LogLaidOut
<1>4. /\ log \in Seq(Seq(Bytes \cup {Junk})) /\ Len(log) = w /\ w \in Nat
      /\ \A k \in 1 .. w :
           /\ Commands(b)[k] = b.entry[SlotOf(b, k)]
           /\ Commands(b)[k].buffptr \in DOMAIN heap
           /\ log[k] = heap[Commands(b)[k].buffptr]
           /\ Len(log[k]) = Commands(b)[k].size
      /\ \A k \in 0 .. w : EndOf(b)[k] = Before(log, k)
      /\ EndOf(b)[w] = Len(FlattenSeq(log))
  BY <1>1, <1>2, <1>3, MaxOpsAssumption DEF LogLayout
<1>5. \/ hit = NULL /\ at >= EndOf(b)[w]
      \/ \E k \in 1 .. w : /\ hit = [slot |-> SlotOf(b, k), byte |-> at - EndOf(b)[k - 1]]
                           /\ EndOf(b)[k - 1] <= at /\ at < EndOf(b)[k]
  BY <1>1, <1>2, FindEntryResult
<1>6. \/ UNCHANGED <<got, f_pos>> /\ (hit = NULL \/ "user" \in Faults)
      \/ /\ hit # NULL
         /\ got' = [got EXCEPT ![p] = BytesAt(entry.buffptr, hit.byte, n)]
         /\ f_pos' = [f_pos EXCEPT ![p] = @ + n]
  BY DEF ReadBody
<1>7. CASE hit = NULL
  <2>1. ASSUME NEW k \in 1 .. w, EndOf(b)[k - 1] <= at,
               hit = [slot |-> SlotOf(b, k), byte |-> at - EndOf(b)[k - 1]]
        PROVE  FALSE
    <3> DEFINE i == SlotOf(b, k)
               j == at - EndOf(b)[k - 1]
    <3>1. k - 1 \in 0 .. w /\ i \in Offsets
      BY <1>1, <1>2, <1>4, WalkBounds
    <3>2. EndOf(b)[k - 1] \in Nat
      BY <1>4, <3>1, BeforeSums
    <3>3. j \in Nat
      BY <1>1, <2>1, <3>2
    <3> HIDE DEF hit, i, j
    <3>4. hit \in [slot : Offsets, byte : Nat]
      BY <2>1, <3>1, <3>3 DEF i, j
    <3>5. QED
      BY <1>7, <3>4, NullIsNoHit
  <2>2. at >= EndOf(b)[w]
    BY <1>5, <2>1
  <2>3. QED
    BY <1>4, <1>6, <1>7, <2>2
<1>8. CASE UNCHANGED <<got, f_pos>> /\ "user" \in Faults
  BY <1>8
<1>9. CASE /\ hit # NULL
           /\ got' = [got EXCEPT ![p] = BytesAt(entry.buffptr, hit.byte, n)]
           /\ f_pos' = [f_pos EXCEPT ![p] = @ + n]
  <2>1. PICK k \in 1 .. w : /\ hit = [slot |-> SlotOf(b, k), byte |-> at - EndOf(b)[k - 1]]
                            /\ EndOf(b)[k - 1] <= at /\ at < EndOf(b)[k]
    BY <1>5, <1>9
  <2> DEFINE a     == Commands(b)[k].buffptr
             start == Before(log, k - 1)
             size  == Len(log[k])
             from  == at - start
             m     == IF count <= size - from THEN count ELSE size - from
  <2>2. /\ k \in 1 .. Len(log) /\ k \in 0 .. w /\ k - 1 \in 0 .. w
        /\ log[k] \in Seq(Bytes \cup {Junk})
    BY <1>4, ElementOfSeq
  <2>3. /\ start \in Nat /\ Before(log, k) = start + size /\ size \in Nat
    BY <1>4, <2>2, BeforeSums, LenProperties
  <2>4. /\ hit.slot = SlotOf(b, k) /\ hit.byte = from
        /\ start <= at /\ at < start + size
    BY <1>4, <2>1, <2>2, <2>3
  <2>5. /\ entry.buffptr = a /\ entry.size = size
        /\ a \in DOMAIN heap /\ log[k] = heap[a]
    BY <1>4, <2>1, <2>4
  <2> HIDE DEF hit, entry, a, start, size, log
  <2>6. from \in Nat /\ size - from \in Nat \ {0} /\ m \in Nat \ {0} /\ from + m <= size
    BY <1>1, <2>3, <2>4
  <2>7. n = m
    <3> DEFINE rest == size - from
    <3>1. rest \in Nat /\ n = Min({count, rest})
      BY <2>4, <2>5, <2>6
    <3> HIDE DEF rest
    <3>2. n = IF count <= rest THEN count ELSE rest
      BY <1>1, <3>1, MinOfTwo
    <3>3. QED
      BY <3>2 DEF rest
  <2> HIDE DEF n, m, from
  <2>8. BytesAt(a, from, m) = SubSeq(log[k], from + 1, from + m)
    BY <2>2, <2>5, <2>6, BytesOfBlock DEF size
  <2>9. /\ got' = [got EXCEPT ![p] = SubSeq(log[k], from + 1, from + m)]
        /\ f_pos' = [f_pos EXCEPT ![p] = @ + m]
    BY <1>9, <2>4, <2>5, <2>7, <2>8
  <2>10. QED
    BY <2>2, <2>4, <2>6, <2>9 DEF ReadsCommand, log, start, size, from, m
<1>10. QED
  BY <1>6, <1>7, <1>8, <1>9

(* The step of a read, as part of the stream of all the commands.          *)
LEMMA ReadStreams ==
  ASSUME HeapInv, Shaped, ResultsFresh, "user" \notin Faults, NEW p \in Procs, ReadBody(p)
  PROVE  LET stream == FlattenSeq(LoggedCommands)
             n      == Len(got'[p])
         IN  /\ f_pos'[p] = f_pos[p] + n
             /\ n = 0 => f_pos[p] >= Len(stream)
             /\ n > 0 => got'[p] = SubSeq(stream, f_pos[p] + 1, f_pos[p] + n)
<1> DEFINE S      == Bytes \cup {Junk}
           log    == LoggedCommands
           stream == FlattenSeq(log)
           at     == f_pos[p]
<1>1. /\ pc[p] = "r_body" /\ loaded /\ at \in Nat /\ local[p].count \in Nat
      /\ got[p] = <<>> /\ p \in DOMAIN got /\ p \in DOMAIN f_pos
  BY InputAssumption
     DEF ReadBody, ResultsFresh, HeapInv, LockInv, FilesNeedModule, TypeOK, ReadCalls
<1>2. log \in Seq(Seq(S))
  BY <1>1, LogLaidOut DEF LogLayout
<1>3. CASE UNCHANGED <<got, f_pos>> /\ at >= Len(stream)
  <2>1. got'[p] = <<>> /\ Len(<<>>) = 0
    BY <1>1, <1>3
  <2>2. QED
    BY <1>1, <1>3, <2>1
<1>4. CASE ReadsCommand(p)
  <2>1. PICK k \in 1 .. Len(log), n \in Nat \ {0} :
          LET start == Before(log, k - 1)
              from  == at - start
              size  == Len(log[k])
          IN  /\ start <= at /\ at < start + size
              /\ n = IF local[p].count <= size - from THEN local[p].count ELSE size - from
              /\ got' = [got EXCEPT ![p] = SubSeq(log[k], from + 1, from + n)]
              /\ f_pos' = [f_pos EXCEPT ![p] = @ + n]
    BY <1>4 DEF ReadsCommand
  <2> DEFINE start == Before(log, k - 1)
             from  == at - start
             size  == Len(log[k])
             piece == SubSeq(log[k], from + 1, from + n)
  <2>2. /\ start <= at /\ at < start + size
        /\ n = IF local[p].count <= size - from THEN local[p].count ELSE size - from
        /\ got'[p] = piece /\ f_pos'[p] = at + n
    BY <1>1, <2>1
  <2>3. log[k] \in Seq(S) /\ size \in Nat
    BY <1>2, ElementOfSeq, LenProperties
  <2>4. start \in Nat
    <3>1. k - 1 \in 0 .. Len(log)
      BY <1>2, LenProperties
    <3>2. QED
      BY <1>2, <3>1, BeforeSums
  <2> HIDE DEF start, size, log, stream, at
  <2>5. from \in Nat /\ from + n \in Nat /\ from + n <= size /\ from <= from + n
        /\ start + from = at /\ start + (from + n) = at + n
    <3>1. from \in Nat /\ n \in Nat
      BY <1>1, <2>2, <2>3, <2>4
    <3>2. n <= size - from
      BY <1>1, <2>2, <2>3, <2>4
    <3> HIDE DEF piece
    <3>3. start + from = at
      BY <1>1, <2>4
    <3> HIDE DEF from
    <3>4. QED
      BY <2>3, <2>4, <3>1, <3>2, <3>3
  <2>6. Len(piece) = n
    <3>1. from + 1 \in 1 .. Len(log[k]) + 1 /\ from + n \in 0 .. Len(log[k])
      BY <2>3, <2>5 DEF size
    <3>2. Len(piece) = IF from + 1 <= from + n THEN (from + n) - (from + 1) + 1 ELSE 0
      BY <2>3, <3>1, SubSeqProperties
    <3>3. QED
      BY <2>5, <3>2
  <2> DEFINE to == from + n
  <2> HIDE DEF from, to
  <2>7. SubSeq(log[k], from + 1, to) = SubSeq(stream, start + from + 1, start + to)
    <3>1. from \in Nat /\ to \in Nat /\ from <= to /\ to <= Len(log[k])
      BY <2>5 DEF to, size
    <3>2. QED
      BY <1>2, <3>1, PieceOf DEF stream, start
  <2>8. piece = SubSeq(stream, at + 1, at + n)
    BY <2>5, <2>7 DEF to
  <2> USE DEF at
  <2> HIDE DEF piece
  <2>9. QED
    BY <2>2, <2>6, <2>8 DEF stream, log
<1>5. QED
  BY <1>3, <1>4, ReadFinds

(* A process that reads on gets every byte of the commands once: for any   *)
(* number of processes, commands and any capacity, beside ioctls and       *)
(* writers, as long as the lock works, no krealloc fails (see HeapCorrect) *)
(* and no copy to the user does.                                           *)
THEOREM ReadsCorrect ==
  ASSUME Interruptible = FALSE, Whences \subseteq {0, 1},
         "krealloc" \notin Faults, "user" \notin Faults
  PROVE  Spec => ReadsContinueTheStream
<1> DEFINE stream == FlattenSeq(LoggedCommands)
           Continues(p) ==
             pc[p] = "r_body" /\ pc'[p] = "unlock" =>
               LET n == Len(got'[p])
               IN  /\ f_pos'[p] = f_pos[p] + n
                   /\ n = 0 => f_pos[p] >= Len(stream)
                   /\ n > 0 => got'[p] = SubSeq(stream, f_pos[p] + 1, f_pos[p] + n)
<1>1. StreamInv /\ [Next]_vars => StreamInv'
  BY StreamNext
<1>2. StreamInv /\ [Next]_vars => [\A p \in Procs : Continues(p)]_vars
  <2> SUFFICES ASSUME StreamInv, Next, NEW p \in Procs, pc[p] = "r_body", pc'[p] = "unlock"
               PROVE  Continues(p)
    BY DEF Continues
  <2>1. ReadBody(p)
    BY OnlyReads DEF StreamInv, HeapInv, LockInv
  <2>2. QED
    BY <2>1, ReadStreams DEF StreamInv, Continues, stream
<1>3. QED
  BY <1>1, <1>2, StreamInit, PTL DEF Spec, ReadsContinueTheStream


-----------------------------------------------------------------------------
(* The walk of the seek ioctl, where no writer runs beside it.             *)

(* The walk of p has passed w.entry commands, and end_posit is where the   *)
(* next one begins.                                                        *)
InPlace(p) ==
  LET w == local[p]
  IN  /\ "ioctl" \in Does[p]
      /\ [write_cmd |-> w.write_cmd, write_cmd_offset |-> w.internal] \in SeekTos
      /\ w.entry <= WalkLength(circular_buffer)
      /\ w.entry <= w.write_cmd
      /\ w.offset = (circular_buffer.out_offs + w.entry) % MaxOps
      /\ w.end_posit = EndOf(circular_buffer)[w.entry]
      /\ pc[p] = "i_full" => w.entry = 0
      /\ pc[p] = "i_walk" /\ circular_buffer.full => w.entry >= 1

WalksInPlace == \A p \in Procs : pc[p] \in Walking => InPlace(p)

(* A process that seeks never meets a writer.                              *)
SeeksAlone == \A p, q \in Procs : "ioctl" \in Does[p] /\ "write" \in Does[q] => p = q

DeviceInv == StreamInv /\ WritersWrite /\ WalksInPlace

(* A step beside the walk of p leaves what the walk sees alone.            *)
LEMMA BesideWalk ==
  ASSUME TypeOK, FilesNeedModule, WritersWrite, SeeksAlone, Next,
         NEW p \in Procs, pc[p] \in Walking, "ioctl" \in Does[p]
  PROVE  \/ IoctlFull(p) \/ IoctlWalk(p)
         \/ UNCHANGED circular_buffer /\ pc'[p] = pc[p] /\ local'[p] = local[p]
<1> DEFINE Stays == UNCHANGED circular_buffer /\ pc'[p] = pc[p] /\ local'[p] = local[p]
<1> USE DEF TypeOK, Goto, Walking
<1>1. ~ aesd_cleanup_module /\ ~ aesd_init_module
  BY DEF aesd_cleanup_module, aesd_init_module, FilesNeedModule
<1>2. ASSUME NEW q \in Procs, aesd_open(q) \/ aesd_release(q) \/ Call(q)
      PROVE  Stays
  <2>1. /\ q # p /\ UNCHANGED circular_buffer
        /\ \E l : pc' = [pc EXCEPT ![q] = l]
        /\ local' = local \/ \E x : local' = [local EXCEPT ![q] = x]
    BY <1>2 DEF aesd_open, aesd_release, Call, CallWrite, CallRead, CallLlseek, CallIoctl,
                Begin, device
  <2>2. QED
    BY <2>1
<1>3. ASSUME NEW q \in Procs, Lock(q) \/ Interrupted(q) \/ Unlock(q) \/ WriteCopy(q)
      PROVE  Stays
  <2>1. /\ q # p /\ UNCHANGED circular_buffer
        /\ \E l : pc' = [pc EXCEPT ![q] = l]
        /\ local' = local \/ \E x : local' = [local EXCEPT ![q] = x]
    BY <1>3 DEF Lock, Interrupted, Unlock, WriteCopy, Return, Waiting, device
  <2>2. QED
    BY <2>1
<1>4. ASSUME NEW q \in Procs, WriteStore(q) \/ WriteAppend(q) \/ WriteReset(q)
      PROVE  Stays
  <2>1. /\ q # p /\ UNCHANGED <<circular_buffer, local>>
        /\ \E l : pc' = [pc EXCEPT ![q] = l]
    BY <1>4 DEF WriteStore, WriteAppend, WriteReset, AfterStore
  <2>2. QED
    BY <2>1
<1>5. ASSUME NEW q \in Procs,
             WriteEntry(q) \/ WriteInOffs(q) \/ WriteOutOffs(q) \/ WriteFull(q)
      PROVE  FALSE
  <2>1. pc[q] \in Adding
    BY <1>5 DEF WriteEntry, WriteInOffs, WriteOutOffs, WriteFull, AddStatement, Adding
  <2>2. "write" \in Does[q]
    BY <2>1 DEF WritersWrite, Writing
  <2>3. q = p
    BY <2>2 DEF SeeksAlone
  <2>4. QED
    BY <2>1, <2>3 DEF Adding
<1>6. ASSUME NEW q \in Procs, ReadBody(q) \/ LlseekBody(q)
      PROVE  Stays
  <2>1. /\ q # p /\ UNCHANGED circular_buffer
        /\ \E l : pc' = [pc EXCEPT ![q] = l]
        /\ local' = local \/ \E x : local' = [local EXCEPT ![q] = x]
    BY <1>6 DEF ReadBody, LlseekBody, Return, device
  <2>2. QED
    BY <2>1
<1>7. ASSUME NEW q \in Procs, q # p, IoctlFull(q) \/ IoctlWalk(q)
      PROVE  Stays
  <2>1. /\ UNCHANGED circular_buffer
        /\ \E l : pc' = [pc EXCEPT ![q] = l]
        /\ local' = local \/ \E x : local' = [local EXCEPT ![q] = x]
    BY <1>7 DEF IoctlFull, IoctlWalk, Visit, Return, device
  <2>2. QED
    BY <1>7, <2>1
<1>8. QED
  BY <1>1, <1>2, <1>3, <1>4, <1>5, <1>6, <1>7 DEF Next, Work

(* Only the call itself begins a walk.                                     *)
LEMMA WalkBegins ==
  ASSUME TypeOK, Next, NEW p \in Procs, pc[p] \notin Walking, pc'[p] \in Walking
  PROVE  CallIoctl(p)
<1> USE DEF TypeOK, Goto, Walking
<1>1. ~ aesd_init_module /\ ~ aesd_cleanup_module
  BY DEF aesd_init_module, aesd_cleanup_module
<1>2. ASSUME NEW q \in Procs, NEW l, l \notin Walking
      PROVE  pc' # [pc EXCEPT ![q] = l]
  BY <1>2
<1>3. ASSUME NEW q \in Procs, \/ aesd_open(q) \/ aesd_release(q)
                              \/ CallWrite(q) \/ CallRead(q) \/ CallLlseek(q)
      PROVE  FALSE
  BY <1>2, <1>3 DEF aesd_open, aesd_release, CallWrite, CallRead, CallLlseek, Begin
<1>4. ASSUME NEW q \in Procs, Lock(q) \/ Interrupted(q) \/ Unlock(q)
      PROVE  FALSE
  BY <1>2, <1>4 DEF Lock, Interrupted, Unlock, Enters, Return, Waiting
<1>5. ASSUME NEW q \in Procs,
             \/ WriteCopy(q) \/ WriteStore(q) \/ WriteAppend(q) \/ WriteEntry(q)
             \/ WriteInOffs(q) \/ WriteOutOffs(q) \/ WriteFull(q) \/ WriteReset(q)
             \/ ReadBody(q) \/ LlseekBody(q)
      PROVE  FALSE
  BY <1>2, <1>5 DEF WriteCopy, WriteStore, WriteAppend, WriteEntry, WriteInOffs, WriteOutOffs,
                    WriteFull, WriteReset, AddStatement, AfterStore, ReadBody, LlseekBody, Return
<1>6. ASSUME NEW q \in Procs, CallIoctl(q) \/ IoctlFull(q) \/ IoctlWalk(q)
      PROVE  q = p
  <2>1. \E l : pc' = [pc EXCEPT ![q] = l]
    BY <1>6 DEF CallIoctl, Begin, IoctlFull, IoctlWalk, Visit, Return
  <2>2. QED
    BY <2>1
<1>7. QED
  BY <1>1, <1>3, <1>4, <1>5, <1>6 DEF Next, Work, Call, IoctlFull, IoctlWalk

(* While p walks nobody writes: the buffer is settled and has its shape.   *)
LEMMA WalkSettled ==
  ASSUME HeapInv, Shaped, WritersWrite, SeeksAlone,
         NEW p \in Procs, pc[p] \in Walking, "ioctl" \in Does[p]
  PROVE  /\ loaded /\ Settled = circular_buffer
         /\ circular_buffer \in Buffers(Written \cup {EmptySlot})
         /\ ShapeOf(circular_buffer, Written)
<1>1. \A q \in Procs : pc[q] \notin Unsettled
  <2> SUFFICES ASSUME NEW q \in Procs, pc[q] \in Unsettled
               PROVE  FALSE
    OBVIOUS
  <2>1. "write" \in Does[q]
    BY DEF Unsettled, WritersWrite, Writing, Adding
  <2>2. q = p
    BY <2>1 DEF SeeksAlone
  <2>3. QED
    BY <2>2 DEF Unsettled, Walking
<1>2. Settled = circular_buffer
  BY <1>1, SettledKnown DEF HeapInv, LockInv, SettledAsStored
<1>3. loaded
  BY DEF HeapInv, LockInv, FilesNeedModule, Walking
<1>4. QED
  BY <1>2, <1>3, SettledHasBlocks, EntriesAreWritten DEF SettledOwned, Shaped


(* The slot behind k commands: it holds command k + 1, or it is in_offs    *)
(* and the walk is over.                                                   *)
LEMMA WalkAt ==
  ASSUME NEW b \in Buffers(Written \cup {EmptySlot}), ShapeOf(b, Written),
         NEW k \in 0 .. WalkLength(b),
         NEW offset, offset = (b.out_offs + k) % MaxOps
  PROVE  /\ b.full => WalkLength(b) = MaxOps
         /\ WalkLength(b) \in Nat /\ k \in Nat
         /\ k < WalkLength(b) => /\ offset \in Offsets /\ SlotOf(b, k + 1) = offset
                                 /\ NextOffset(offset) = (b.out_offs + (k + 1)) % MaxOps
         /\ (b.full => k >= 1)
              => (offset # b.in_offs <=> k < WalkLength(b))
<1> DEFINE w == WalkLength(b)
           out == b.out_offs
           in == b.in_offs
<1>1. /\ w = IF b.full THEN MaxOps ELSE in
      /\ w \in Nat /\ k \in Nat /\ k <= w /\ w <= MaxOps
      /\ MaxOps \in Nat /\ MaxOps > 0
      /\ out \in Nat /\ out < MaxOps /\ in \in Nat /\ in < MaxOps
      /\ IF b.full THEN in = out ELSE out = 0
  <2>1. w = (IF b.full THEN MaxOps ELSE in) /\ w \in 0 .. MaxOps
    BY WalkShaped
  <2>2. out \in 0 .. MaxOps - 1 /\ in \in 0 .. MaxOps - 1
    BY DEF Buffers, Offsets
  <2>3. IF b.full THEN in = out ELSE out = 0
    BY DEF ShapeOf
  <2> HIDE DEF w, out, in
  <2>4. QED
    BY <2>1, <2>2, <2>3, MaxOpsAssumption DEF w
<1> HIDE DEF w, out, in
<1>2. \A x \in 0 .. 2 * MaxOps - 1 : x % MaxOps = IF x < MaxOps THEN x ELSE x - MaxOps
  BY ModOnce
<1>3. offset = IF out + k < MaxOps THEN out + k ELSE (out + k) - MaxOps
  <2>1. out + k \in 0 .. 2 * MaxOps - 1
    BY <1>1
  <2>2. offset = (out + k) % MaxOps
    BY DEF out
  <2>3. QED
    BY <1>2, <2>1, <2>2, Zenon
<1>4. ASSUME k < w
      PROVE  /\ offset \in Offsets /\ SlotOf(b, k + 1) = offset
             /\ NextOffset(offset) = (out + (k + 1)) % MaxOps
  <2>1. offset \in Offsets
    BY <1>1, <1>3 DEF Offsets
  <2>2. SlotOf(b, k + 1) = offset
    <3>1. out + (k + 1) - 1 = out + k
      BY <1>1
    <3>2. QED
      BY <3>1 DEF SlotOf, out
  <2>3. NextOffset(offset) = IF offset = MaxOps - 1 THEN 0 ELSE offset + 1
    BY <2>1, NextOffsetWraps
  <2>4. (out + (k + 1)) % MaxOps = IF out + (k + 1) < MaxOps THEN out + (k + 1)
                                   ELSE (out + (k + 1)) - MaxOps
    <3>1. out + (k + 1) \in 0 .. 2 * MaxOps - 1
      BY <1>1, <1>4
    <3>2. QED
      BY <1>2, <3>1, Zenon
  <2>5. QED
    BY <1>1, <1>3, <1>4, <2>1, <2>2, <2>3, <2>4
<1>5. ASSUME b.full => k >= 1
      PROVE  offset # in <=> k < w
  BY <1>1, <1>3, <1>5
<1>6. QED
  BY <1>1, <1>4, <1>5 DEF w, out, in

(* One iteration of the walk: behind the next command, or at the command   *)
(* asked for, or at the end, where the position is what the user asked for.*)
LEMMA WalkStep ==
  ASSUME HeapInv, Shaped, WritersWrite, SeeksAlone,
         NEW p \in Procs, pc[p] \in Walking, InPlace(p), IoctlFull(p) \/ IoctlWalk(p)
  PROVE  LET s == [write_cmd |-> local[p].write_cmd, write_cmd_offset |-> local[p].internal]
         IN  \/ pc'[p] = "i_walk" /\ InPlace(p)' /\ UNCHANGED f_pos
             \/ pc'[p] = "idle" /\ s \in SeekTos /\ Device!SeekTo(p, s)
<1> DEFINE b == circular_buffer
           w == local[p]
           end == EndOf(b)
           last == WalkLength(b)
           size == b.entry[w.offset].size
           log == LoggedCommands
           s == [write_cmd |-> w.write_cmd, write_cmd_offset |-> w.internal]
           found == w.end_posit + (IF w.internal <= size THEN w.internal ELSE 0)
<1>1. /\ "ioctl" \in Does[p] /\ s \in SeekTos
      /\ w.entry <= last /\ w.entry <= w.write_cmd
      /\ w.offset = (b.out_offs + w.entry) % MaxOps
      /\ w.end_posit = end[w.entry]
      /\ pc[p] = "i_full" => w.entry = 0
      /\ pc[p] = "i_walk" /\ b.full => w.entry >= 1
  BY DEF InPlace
<1>2. /\ w \in IoctlCalls /\ p \in DOMAIN local /\ p \in DOMAIN pc /\ p \in DOMAIN f_pos
      /\ f_pos[p] \in Nat
  BY DEF HeapInv, LockInv, TypeOK
<1>3. /\ loaded /\ Settled = b
      /\ b \in Buffers(Written \cup {EmptySlot}) /\ ShapeOf(b, Written)
  BY <1>1, WalkSettled
<1>4. /\ last \in Nat /\ w.entry \in Nat /\ w.entry \in 0 .. last
      /\ w.write_cmd \in Nat /\ w.internal \in Nat
      /\ b.full => last = MaxOps
      /\ w.entry < last => /\ w.offset \in Offsets /\ SlotOf(b, w.entry + 1) = w.offset
                           /\ NextOffset(w.offset) = (b.out_offs + (w.entry + 1)) % MaxOps
      /\ (b.full => w.entry >= 1) => (w.offset # b.in_offs <=> w.entry < last)
  <2>1. w.entry \in Nat /\ w.write_cmd \in Nat /\ w.internal \in Nat
    BY <1>2 DEF IoctlCalls
  <2>2. last \in Nat
    <3>1. last \in 0 .. MaxOps
      BY <1>3, WalkShaped
    <3> HIDE DEF last
    <3>2. QED
      BY <3>1, MaxOpsAssumption
  <2>3. w.entry \in 0 .. last
    BY <1>1, <2>1, <2>2
  <2>4. QED
    BY <1>1, <1>3, <2>1, <2>2, <2>3, WalkAt
<1>5. /\ Len(log) = last
      /\ \A k \in 1 .. last : /\ Commands(b)[k] = b.entry[SlotOf(b, k)]
                              /\ Len(log[k]) = Commands(b)[k].size
                              /\ Commands(b)[k].size \in Nat
                              /\ end[k] = end[k - 1] + Commands(b)[k].size
      /\ \A k \in 0 .. last : end[k] = Device!Start(k) /\ end[k] \in Nat
  <2>1. LogLayout
    BY LogLaidOut
  <2>2. /\ Len(log) = last
        /\ \A k \in 1 .. last : Len(log[k]) = Commands(b)[k].size
        /\ \A k \in 0 .. last : end[k] = Before(log, k)
    BY <1>3, <2>1 DEF LogLayout
  <2>3. \A k : Device!Start(k) = Before(log, k)
    BY SameLibrary DEF Device!Start, Before
  <2>4. /\ end \in [0 .. last -> Nat]
        /\ \A k \in 1 .. last : /\ Commands(b)[k] = b.entry[SlotOf(b, k)]
                                /\ Commands(b)[k].size \in Nat
                                /\ end[k] = end[k - 1] + Commands(b)[k].size
    <3>1. b \in Buffers(Entries) /\ \A e \in Entries : e.size \in Nat
      BY <1>3, EntriesAreWritten DEF Entries
    <3>2. QED
      BY <3>1, EndOfSums
  <2> HIDE DEF end, last, log
  <2>5. QED
    BY <2>2, <2>3, <2>4
<1>6. /\ UNCHANGED <<loaded, device, got>>
      /\ \E l : pc' = [pc EXCEPT ![p] = l]
  BY DEF IoctlFull, IoctlWalk, Visit, Return, Goto
<1>7. SeenKept
  BY OutsideSeen DEF Outside, HeapInv, LockInv
<1> HIDE DEF end, last, log
<1>8. ASSUME w.entry < last, Visit(p)
      PROVE  \/ pc'[p] = "i_walk" /\ InPlace(p)' /\ UNCHANGED f_pos
             \/ pc'[p] = "idle" /\ s \in SeekTos /\ Device!SeekTo(p, s)
  <2>1. /\ w.entry + 1 \in 1 .. last /\ w.entry \in 0 .. last /\ w.entry + 1 \in 0 .. last
        /\ (w.entry + 1) - 1 = w.entry
    BY <1>4, <1>8
  <2>2. /\ size = Commands(b)[w.entry + 1].size /\ size \in Nat
        /\ size = Len(log[w.entry + 1])
        /\ end[w.entry + 1] = end[w.entry] + size
    BY <1>4, <1>5, <1>8, <2>1
  <2>3. CASE w.entry # w.write_cmd
    <3> DEFINE new == [w EXCEPT !.offset = NextOffset(@), !.entry = @ + 1,
                                !.end_posit = @ + size]
    <3>1. /\ local' = [local EXCEPT ![p] = new] /\ pc'[p] = "i_walk" /\ UNCHANGED f_pos
      <4>1. /\ local' = [local EXCEPT ![p] = new]
            /\ pc' = [pc EXCEPT ![p] = "i_walk"] /\ UNCHANGED f_pos
        BY <1>8, <2>3, Zenon DEF Visit, Goto
      <4>2. QED
        BY <1>2, <4>1
    <3>2. /\ new.offset = NextOffset(w.offset) /\ new.entry = w.entry + 1
          /\ new.end_posit = w.end_posit + size
          /\ new.write_cmd = w.write_cmd /\ new.internal = w.internal
      BY <1>2 DEF IoctlCalls
    <3> HIDE DEF new
    <3>3. local'[p] = new /\ b' = b
      BY <1>2, <1>6, <3>1 DEF device
    <3>4. /\ new.entry <= last /\ new.entry <= new.write_cmd /\ new.entry >= 1
          /\ new.end_posit = end[new.entry]
      BY <1>1, <1>4, <1>8, <2>2, <2>3, <3>2
    <3>5. new.offset = (b.out_offs + new.entry) % MaxOps
      BY <1>4, <1>8, <3>2
    <3>6. InPlace(p)'
      BY <1>1, <3>1, <3>2, <3>3, <3>4, <3>5 DEF InPlace, end, last
    <3>7. QED
      BY <3>1, <3>6
  <2>4. CASE w.entry = w.write_cmd
    <3>1. f_pos' = [f_pos EXCEPT ![p] = found] /\ pc'[p] = "idle"
      <4>1. f_pos' = [f_pos EXCEPT ![p] = found] /\ pc' = [pc EXCEPT ![p] = "idle"]
        BY <1>8, <2>4, Zenon DEF Visit, Return, Goto
      <4>2. QED
        BY <1>2, <4>1
    <3>2. ~ (s.write_cmd >= Len(log)) /\ s.write_cmd = w.entry /\ s.write_cmd_offset = w.internal
      BY <1>4, <1>5, <1>8, <2>4
    <3>3. found = Device!Start(s.write_cmd)
                    + (IF s.write_cmd_offset <= Len(log[s.write_cmd + 1])
                       THEN s.write_cmd_offset ELSE 0)
      BY <1>1, <1>5, <2>1, <2>2, <3>2
    <3> HIDE DEF found, s
    <3>4. Device!SeekTo(p, s)
      BY <1>6, <1>7, <3>1, <3>2, <3>3 DEF Device!SeekTo, SeenKept, log
    <3>5. QED
      BY <1>1, <3>1, <3>4
  <2>5. QED
    BY <2>3, <2>4
<1>9. CASE pc[p] = "i_full" /\ b.full
  <2>1. w.entry < last /\ Visit(p)
    BY <1>1, <1>4, <1>9, MaxOpsAssumption DEF IoctlFull, IoctlWalk
  <2>2. QED
    BY <1>8, <2>1
<1>10. CASE pc[p] = "i_full" /\ ~ b.full
  <2>1. pc'[p] = "i_walk" /\ UNCHANGED <<local, f_pos, circular_buffer>>
    BY <1>2, <1>10 DEF IoctlFull, IoctlWalk, Goto, device
  <2>2. InPlace(p)'
    BY <1>1, <1>10, <2>1 DEF InPlace, end, last
  <2>3. QED
    BY <2>1, <2>2
<1>11. CASE pc[p] = "i_walk" /\ w.offset # b.in_offs
  <2>1. w.entry < last /\ Visit(p)
    BY <1>1, <1>4, <1>11 DEF IoctlFull, IoctlWalk
  <2>2. QED
    BY <1>8, <2>1
<1>12. CASE pc[p] = "i_walk" /\ w.offset = b.in_offs
  <2>1. w.entry = last /\ f_pos' = [f_pos EXCEPT ![p] = w.end_posit] /\ pc'[p] = "idle"
    BY <1>1, <1>2, <1>4, <1>12 DEF IoctlFull, IoctlWalk, Return, Goto
  <2>2. s.write_cmd >= Len(log) /\ w.end_posit = Device!Start(Len(log))
    BY <1>1, <1>4, <1>5, <2>1
  <2> HIDE DEF s
  <2>3. Device!SeekTo(p, s)
    BY <1>6, <1>7, <2>1, <2>2 DEF Device!SeekTo, SeenKept, log
  <2>4. QED
    BY <1>1, <2>1, <2>3 DEF s
<1>13. QED
  BY <1>9, <1>10, <1>11, <1>12 DEF Walking


LEMMA WalksNext ==
  ASSUME HeapInv, Shaped, WritersWrite, WalksInPlace, SeeksAlone, [Next]_vars
  PROVE  WalksInPlace'
<1>1. CASE UNCHANGED vars
  BY <1>1 DEF vars, device, WalksInPlace, InPlace
<1>2. CASE Next
  <2> SUFFICES ASSUME NEW p \in Procs, pc'[p] \in Walking
               PROVE  InPlace(p)'
    BY DEF WalksInPlace
  <2>1. CASE pc[p] \in Walking
    <3>1. InPlace(p) /\ "ioctl" \in Does[p]
      BY <2>1 DEF WalksInPlace, InPlace
    <3>2. CASE IoctlFull(p) \/ IoctlWalk(p)
      BY <2>1, <3>1, <3>2, WalkStep DEF Walking
    <3>3. CASE UNCHANGED circular_buffer /\ pc'[p] = pc[p] /\ local'[p] = local[p]
      BY <3>1, <3>3 DEF InPlace
    <3>4. QED
      BY <1>2, <2>1, <3>1, <3>2, <3>3, BesideWalk DEF HeapInv, LockInv
  <2>2. CASE pc[p] \notin Walking
    <3> DEFINE b == circular_buffer
    <3>1. CallIoctl(p)
      BY <1>2, <2>2, WalkBegins DEF HeapInv, LockInv
    <3>2. PICK s \in SeekTos :
            Begin(p, "ioctl", "i_full",
                  [op |-> "ioctl", write_cmd |-> s.write_cmd, internal |-> s.write_cmd_offset,
                   offset |-> b.out_offs, entry |-> 0, end_posit |-> 0])
      BY <3>1 DEF CallIoctl
    <3> DEFINE w == [op |-> "ioctl", write_cmd |-> s.write_cmd, internal |-> s.write_cmd_offset,
                     offset |-> b.out_offs, entry |-> 0, end_posit |-> 0]
    <3>3. /\ local'[p] = w /\ pc'[p] = "i_full" /\ b' = b /\ "ioctl" \in Does[p]
      BY <3>2 DEF Begin, Goto, device, HeapInv, LockInv, TypeOK
    <3>4. /\ w.entry = 0 /\ w.end_posit = 0 /\ w.offset = b.out_offs
          /\ w.write_cmd = s.write_cmd /\ w.internal = s.write_cmd_offset
      OBVIOUS
    <3> HIDE DEF w
    <3>5. /\ s.write_cmd \in Nat
          /\ [write_cmd |-> s.write_cmd, write_cmd_offset |-> s.write_cmd_offset] = s
      BY InputAssumption
    <3>6. EndOf(b)[0] = 0 /\ WalkLength(b) \in 0 .. MaxOps /\ b.out_offs \in Offsets
      <4>1. b \in Buffers(Entries) /\ \A e \in Entries : e.size \in Nat
        BY DEF HeapInv, LockInv, TypeOK, Entries
      <4>2. QED
        BY <4>1, EndOfSums, WalkBounds DEF Buffers
    <3>7. /\ 0 <= WalkLength(b) /\ 0 <= s.write_cmd
          /\ (b.out_offs + 0) % MaxOps = b.out_offs
      BY <3>5, <3>6, MaxOpsAssumption DEF Offsets
    <3>8. QED
      BY <3>3, <3>4, <3>5, <3>6, <3>7 DEF InPlace
  <2>3. QED
    BY <2>1, <2>2
<1>3. QED
  BY <1>1, <1>2

-----------------------------------------------------------------------------
(* The steps, as the users of the device see them.                         *)

Hidden == UNCHANGED <<LoggedCommands, PartialCommand, f_pos, got>>

(* A copy of bytes that the read of the specification would return.        *)
LEMMA ReadServes ==
  ASSUME HeapInv, Shaped, NEW p \in Procs, ReadBody(p)
  PROVE  Hidden \/ \E count \in Counts : Device!Read(p, count)
<1> DEFINE S     == Bytes \cup {Junk}
           log   == LoggedCommands
           at    == f_pos[p]
           count == local[p].count
<1>1. /\ pc[p] = "r_body" /\ loaded /\ at \in Nat /\ count \in Counts /\ count \in Nat \ {0}
      /\ p \in DOMAIN got /\ p \in DOMAIN f_pos
  BY InputAssumption DEF ReadBody, HeapInv, LockInv, FilesNeedModule, TypeOK, ReadCalls
<1>2. log \in Seq(Seq(S))
  BY <1>1, LogLaidOut DEF LogLayout
<1>3. SeenKept
  BY OutsideSeen DEF Outside, HeapInv, LockInv
<1>4. CASE UNCHANGED <<got, f_pos>>
  BY <1>3, <1>4 DEF SeenKept, Hidden
<1>5. CASE ReadsCommand(p)
  <2>1. PICK k \in 1 .. Len(log), n \in Nat \ {0} :
          LET start == Before(log, k - 1)
              from  == at - start
              size  == Len(log[k])
          IN  /\ start <= at /\ at < start + size
              /\ n = IF count <= size - from THEN count ELSE size - from
              /\ got' = [got EXCEPT ![p] = SubSeq(log[k], from + 1, from + n)]
              /\ f_pos' = [f_pos EXCEPT ![p] = @ + n]
    BY <1>5 DEF ReadsCommand
  <2> DEFINE start == Before(log, k - 1)
             from  == at - start
             size  == Len(log[k])
             piece == SubSeq(log[k], from + 1, from + n)
             here  == {j \in 1 .. Len(log) : Device!Start(j - 1) <= at /\ at < Device!Start(j)}
             j     == CHOOSE i \in here : TRUE
  <2>2. /\ start <= at /\ at < start + size
        /\ n = IF count <= size - from THEN count ELSE size - from
        /\ got' = [got EXCEPT ![p] = piece]
        /\ f_pos' = [f_pos EXCEPT ![p] = @ + n]
    BY <2>1
  <2>3. /\ log[k] \in Seq(S) /\ size \in Nat
        /\ start \in Nat /\ Before(log, k) = start + size
    <3>1. k - 1 \in 0 .. Len(log)
      BY <1>2, LenProperties
    <3>2. log[k] \in Seq(S) /\ size \in Nat
      BY <1>2, ElementOfSeq, LenProperties
    <3>3. QED
      BY <1>2, <3>1, <3>2, BeforeSums
  <2>4. \A i : Device!Start(i) = Before(log, i)
    BY SameLibrary DEF Device!Start, Before
  <2>5. j = k /\ here # {}
    <3>1. k \in here
      BY <2>2, <2>3, <2>4
    <3>2. j \in here
      BY <3>1
    <3> HIDE DEF j
    <3>3. /\ j \in 1 .. Len(log)
          /\ Before(log, j - 1) <= at /\ at < Before(log, j)
          /\ Before(log, k - 1) <= at /\ at < Before(log, k)
      BY <2>2, <2>3, <2>4, <3>2
    <3>4. j = k
      BY <1>1, <1>2, <3>3, PieceAt
    <3>5. QED
      BY <3>1, <3>4
  <2>6. Device!Served(at, count) = SubSeq(log[k], from + 1, Min({size, from + count}))
    <3>1. Device!Served(at, count) = IF here = {} THEN <<>>
            ELSE SubSeq(log[j], (at - Device!Start(j - 1)) + 1,
                        Min({Len(log[j]), (at - Device!Start(j - 1)) + count}))
      BY SameLibrary DEF Device!Served
    <3> HIDE DEF here, j
    <3>2. QED
      BY <2>4, <2>5, <3>1
  <2> HIDE DEF start, size, log, at, count, here, j
  <2>7. from \in Nat /\ size - from \in Nat
    BY <1>1, <2>2, <2>3
  <2>8. Min({size, from + count}) = from + n
    <3> DEFINE x == from + count
    <3>1. x \in Nat
      BY <1>1, <2>7
    <3> HIDE DEF x
    <3>2. Min({size, x}) = IF size <= x THEN size ELSE x
      BY <2>3, <3>1, MinOfTwo
    <3> HIDE DEF from, piece
    <3>3. (IF size <= x THEN size ELSE x) = from + n
      BY <1>1, <2>2, <2>3, <2>7 DEF x
    <3>4. QED
      BY <3>2, <3>3 DEF x
  <2>9. Len(piece) = n
    <3> HIDE DEF from
    <3>1. from + n <= size /\ from + n \in Nat
      BY <1>1, <2>2, <2>3, <2>7
    <3>2. from + 1 \in 1 .. Len(log[k]) + 1 /\ from + n \in 0 .. Len(log[k])
      BY <2>3, <2>7, <3>1 DEF size
    <3>3. Len(piece) = IF from + 1 <= from + n THEN (from + n) - (from + 1) + 1 ELSE 0
      BY <2>3, <3>2, SubSeqProperties
    <3>4. QED
      BY <2>7, <3>3
  <2>10. Device!Served(at, count) = piece
    BY <2>6, <2>8
  <2> HIDE DEF piece
  <2>11. Device!Read(p, count)
    BY <1>3, <2>2, <2>9, <2>10 DEF Device!Read, SeenKept, at
  <2>12. QED
    BY <1>1, <2>11 DEF count
<1>6. QED
  BY <1>4, <1>5, ReadFinds

(* A seek to a position that is not negative.                              *)
LEMMA LlseekSeeks ==
  ASSUME TypeOK, Whences \subseteq {0, 1}, SeenKept, NEW p \in Procs, LlseekBody(p)
  PROVE  \/ Hidden
         \/ \E off \in SeekOffs : Device!Llseek(p, off) \/ Device!Llseek(p, f_pos[p] + off)
<1> DEFINE off == local[p].off
           whence == local[p].whence
           newpos == off + (IF whence = 1 THEN f_pos[p] ELSE 0)
<1>1. /\ off \in SeekOffs /\ off \in Int /\ whence \in {0, 1}
      /\ f_pos \in [Procs -> Nat] /\ got' = got
  BY InputAssumption DEF LlseekBody, TypeOK, LlseekCalls
<1>2. f_pos' = [f_pos EXCEPT ![p] = IF newpos < 0 THEN @ ELSE newpos]
  BY <1>1 DEF LlseekBody
<1>3. CASE newpos < 0
  BY <1>1, <1>2, <1>3 DEF Hidden, SeenKept
<1>4. CASE ~ (newpos < 0)
  <2>1. newpos \in Int /\ newpos >= 0 /\ f_pos' = [f_pos EXCEPT ![p] = newpos]
    BY <1>1, <1>2, <1>4
  <2>2. newpos = off \/ newpos = f_pos[p] + off
    BY <1>1
  <2> HIDE DEF newpos
  <2>3. Device!Llseek(p, newpos)
    BY <1>1, <2>1 DEF Device!Llseek, SeenKept
  <2>4. QED
    BY <1>1, <2>2, <2>3
<1>5. QED
  BY <1>3, <1>4

(* Every step of the driver is a step of the device or one its users do    *)
(* not see.                                                                *)
LEMMA DeviceStep ==
  ASSUME DeviceInv, DeviceInv', SeeksAlone, Whences \subseteq {0, 1},
         "krealloc" \notin Faults, [Next]_vars
  PROVE  [Device!SNext]_(Device!vars)
<1> USE DEF DeviceInv, StreamInv, HeapInv, LockInv
<1>1. CASE aesd_init_module
  BY <1>1, ModuleSeen DEF aesd_init_module, Device!vars
<1>2. CASE aesd_cleanup_module
  <2>1. /\ loaded' = FALSE /\ UNCHANGED <<f_pos, got>>
        /\ \A p \in Procs : f_pos[p] = 0 /\ got[p] = <<>>
    BY <1>2 DEF aesd_cleanup_module, ResultsFresh
  <2>2. LoggedCommands' = <<>> /\ PartialCommand' = <<>>
    BY <2>1 DEF LoggedCommands, PartialCommand
  <2>3. QED
    BY <2>1, <2>2 DEF Device!SNext, Device!Reload
<1>3. ASSUME NEW p \in Procs, Outside(p)
      PROVE  [Device!SNext]_(Device!vars)
  <2>1. SeenKept
    BY <1>3, OutsideSeen
  <2>2. CASE aesd_open(p)
    <3>1. f_pos' = f_pos /\ got' = got
      BY <2>2 DEF aesd_open, ResultsFresh, TypeOK
    <3>2. QED
      BY <2>1, <3>1 DEF SeenKept, Device!vars
  <2>3. CASE aesd_release(p)
    <3>1. Device!Open(p)
      BY <2>1, <2>3 DEF aesd_release, SeenKept, Device!Open
    <3>2. QED
      BY <3>1 DEF Device!SNext
  <2>4. CASE Call(p)
    <3>1. Device!Consume(p)
      BY <2>1, <2>4 DEF Call, CallWrite, CallRead, CallLlseek, CallIoctl, Begin, SeenKept,
                        Device!Consume
    <3>2. QED
      BY <3>1 DEF Device!SNext
  <2>5. CASE Lock(p) \/ Interrupted(p) \/ Unlock(p) \/ WriteCopy(p)
    BY <2>1, <2>5 DEF Lock, Interrupted, Unlock, WriteCopy, SeenKept, Device!vars
  <2>6. CASE ReadBody(p)
    BY <2>6, ReadServes DEF Hidden, Device!vars, Device!SNext
  <2>7. CASE LlseekBody(p)
    BY <2>1, <2>7, LlseekSeeks DEF Hidden, Device!vars, Device!SNext
  <2>8. CASE IoctlFull(p) \/ IoctlWalk(p)
    <3>1. pc[p] \in Walking /\ got' = got
      BY <2>8 DEF IoctlFull, IoctlWalk, Walking
    <3>2. InPlace(p)
      BY <3>1 DEF WalksInPlace
    <3>3. \/ UNCHANGED f_pos
          \/ \E s \in SeekTos : Device!SeekTo(p, s)
      BY <2>8, <3>1, <3>2, WalkStep
    <3>4. QED
      BY <2>1, <3>1, <3>3 DEF SeenKept, Device!vars, Device!SNext
  <2>9. QED
    BY <1>3, <2>2, <2>3, <2>4, <2>5, <2>6, <2>7, <2>8 DEF Outside
<1>4. ASSUME NEW p \in Procs, WriteStore(p) \/ WriteAppend(p)
      PROVE  [Device!SNext]_(Device!vars)
  <2>1. pc[p] = "w_store" /\ local[p].chunk \in Chunks
    BY <1>4 DEF WriteStore, WriteAppend, TypeOK, WriteCalls
  <2>2. (SeenKept /\ UNCHANGED <<f_pos, got>>) \/ StoredBy(p)
    BY <1>4, StoreEffect, AppendEffect
  <2>3. CASE SeenKept /\ UNCHANGED <<f_pos, got>>
    BY <2>3 DEF SeenKept, Device!vars
  <2>4. CASE StoredBy(p)
    <3>1. Device!Write(local[p].chunk)
      BY <2>1, <2>4, StoredWrites
    <3>2. QED
      BY <2>1, <3>1 DEF Device!SNext
  <2>5. QED
    BY <2>2, <2>3, <2>4
<1>5. ASSUME NEW p \in Procs,
             WriteEntry(p) \/ WriteInOffs(p) \/ WriteOutOffs(p) \/ WriteFull(p) \/ WriteReset(p)
      PROVE  [Device!SNext]_(Device!vars)
  <2>1. SeenKept
    BY <1>5, SeenAdding
  <2>2. UNCHANGED <<f_pos, got>>
    BY <1>5 DEF WriteEntry, WriteInOffs, WriteOutOffs, WriteFull, WriteReset, AddStatement
  <2>3. QED
    BY <2>1, <2>2 DEF SeenKept, Device!vars
<1>6. CASE UNCHANGED vars
  BY <1>6 DEF vars, device, Device!vars, LoggedCommands, PartialCommand, Settled, NewEntry
<1>7. QED
  BY <1>1, <1>2, <1>3, <1>4, <1>5, <1>6, NextSteps

(* Each call is one atomic step for the users of the device: for any       *)
(* number of processes and any capacity, whatever kmalloc and user copies  *)
(* do, as long as the lock works, krealloc succeeds and nobody but itself  *)
(* writes while a process seeks by ioctl (CharDriverSeekHistory shows what *)
(* a seek beside a writer does).                                           *)
THEOREM DriverImplementsDevice ==
  ASSUME Interruptible = FALSE, Whences \subseteq {0, 1}, "krealloc" \notin Faults,
         \A p, q \in Procs : "ioctl" \in Does[p] /\ "write" \in Does[q] => p = q
  PROVE  Spec => ImplementsDevice
<1>1. SeeksAlone
  BY DEF SeeksAlone
<1>2. Init => DeviceInv
  BY StreamInit, WalkInit DEF DeviceInv, WalksInPlace, Walking, Init
<1>3. DeviceInv /\ [Next]_vars => DeviceInv'
  BY <1>1, StreamNext, WritersNext, WalksNext DEF DeviceInv, StreamInv, HeapInv, LockInv
<1>4. Init => Device!SInit
  BY DEF Init, Device!SInit, LoggedCommands, PartialCommand
<1>5. DeviceInv /\ DeviceInv' /\ [Next]_vars => [Device!SNext]_(Device!vars)
  BY <1>1, DeviceStep
<1>6. QED
  BY <1>2, <1>3, <1>4, <1>5, PTL DEF Spec, ImplementsDevice, Device!SSpec
=============================================================================
