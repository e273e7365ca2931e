------------------------ MODULE CircularBufferProofs ------------------------
(***************************************************************************)
(* Theorems about CircularBuffer, for every capacity and every set of      *)
(* entries: its type invariant and shape, that the readers' walk meets     *)
(* what was written, and that the buffer implements the log.               *)
(***************************************************************************)
EXTENDS CircularBuffer, CircularBufferOpsProofs

IInv == TypeOK /\ Shape

-----------------------------------------------------------------------------
(* An entry that was stored differs from a slot that was never written.    *)
LEMMA EntryNotEmpty == EmptySlot \notin Entries
  BY PointersAssumption DEF EmptySlot, Entries

(* The walk is as long as the buffer is filled, and its k-th slot is       *)
(* out_offs + k - 1 wrapped once.                                          *)
LEMMA WalkOfShape ==
  ASSUME TypeOK, Shape
  PROVE  /\ WalkLength(buffer) = IF buffer.full THEN MaxOps ELSE buffer.in_offs
         /\ WalkLength(buffer) \in 0 .. MaxOps
         /\ \A k \in 1 .. WalkLength(buffer) :
              /\ SlotOf(buffer, k) \in Offsets
              /\ SlotOf(buffer, k) = IF buffer.out_offs + k - 1 < MaxOps
                                     THEN buffer.out_offs + k - 1
                                     ELSE buffer.out_offs + k - 1 - MaxOps
<1>1. buffer \in Buffers(Entries \cup {EmptySlot}) /\ ShapeOf(buffer, Entries)
  BY DEF TypeOK, Shape, ShapeOf
<1>2. QED
  BY <1>1, WalkShaped

-----------------------------------------------------------------------------
(* The inductive invariant.                                                *)

(* aesd_circular_buffer_init yields an empty buffer of the right shape.    *)
LEMMA InitShape ==
  ASSUME buffer = aesd_circular_buffer_init
  PROVE  IInv
<1>1. buffer \in Buffers(Entries \cup {EmptySlot}) /\ ShapeOf(buffer, Entries)
  BY InitShaped
<1>2. QED
  BY <1>1 DEF IInv, TypeOK, Shape, ShapeOf

(* What aesd_circular_buffer_add_entry does to the fields, step by step.   *)
LEMMA AddEntryFields ==
  ASSUME TypeOK, NEW e \in Entries, AddEntry(e)
  PROVE  /\ buffer'.entry = [buffer.entry EXCEPT ![buffer.in_offs] = e]
         /\ buffer'.in_offs = NextOffset(buffer.in_offs)
         /\ buffer'.out_offs = IF buffer.full THEN NextOffset(buffer.in_offs)
                                              ELSE buffer.out_offs
         /\ buffer'.full <=> (buffer'.in_offs = buffer'.out_offs)
  BY DEF AddEntry, aesd_circular_buffer_add_entry, StoreEntry, AdvanceIn,
         AdvanceOut, SetFull, TypeOK, Buffers

(* Adding an entry keeps the structure well-typed.                         *)
LEMMA AddEntryType ==
  ASSUME TypeOK, NEW e \in Entries, AddEntry(e)
  PROVE  TypeOK'
<1>1. buffer' \in Buffers(Entries \cup {EmptySlot})
  BY AddEntryResult DEF AddEntry, TypeOK
<1>2. QED
  BY <1>1 DEF TypeOK

(* Adding an entry keeps the shape: it fills the next free slot, or it     *)
(* moves both offsets of a full buffer together.                           *)
LEMMA AddEntryShape ==
  ASSUME IInv, NEW e \in Entries, AddEntry(e)
  PROVE  Shape'
<1>1. buffer \in Buffers(Entries \cup {EmptySlot}) /\ ShapeOf(buffer, Entries)
  BY DEF IInv, TypeOK, Shape, ShapeOf
<1>2. ShapeOf(buffer', Entries)
  BY <1>1, AddEntryShaped DEF AddEntry
<1>3. QED
  BY <1>2 DEF Shape, ShapeOf

(* The invariant is inductive.                                             *)
LEMMA InvInductive == IInv /\ [Next]_buffer => IInv'
<1> SUFFICES ASSUME IInv, [Next]_buffer
             PROVE  IInv'
  OBVIOUS
<1>1. ASSUME NEW e \in Entries, AddEntry(e)
      PROVE  IInv'
  BY <1>1, AddEntryType, AddEntryShape DEF IInv
<1>2. CASE UNCHANGED buffer
  BY <1>2 DEF IInv, TypeOK, Shape
<1>3. QED
  BY <1>1, <1>2 DEF Next

(* In every reachable state the structure is well-typed: both offsets stay *)
(* inside the array, for every capacity.                                   *)
THEOREM TypeCorrect == Spec => []TypeOK
<1>1. Init => IInv
  BY InitShape DEF Init
<1>2. IInv => TypeOK
  BY DEF IInv
<1>3. QED
  BY <1>1, <1>2, InvInductive, PTL DEF Spec

(* In every reachable state the written slots are a prefix of the array,   *)
(* or all of it once the buffer is full.                                   *)
THEOREM ShapeCorrect == Spec => []Shape
<1>1. Init => IInv
  BY InitShape DEF Init
<1>2. IInv => Shape
  BY DEF IInv
<1>3. QED
  BY <1>1, <1>2, InvInductive, PTL DEF Spec

-----------------------------------------------------------------------------
(* The walk and the contents.                                              *)

(* The walk of a well-shaped buffer meets exactly the written slots.       *)
LEMMA ShapeWalk == IInv => WalkMeetsTheWritten
<1> SUFFICES ASSUME IInv
             PROVE  WalkMeetsTheWritten
  OBVIOUS
<1>1. /\ TypeOK /\ Shape
      /\ buffer.in_offs \in Offsets /\ buffer.out_offs \in Offsets
      /\ buffer.full \in BOOLEAN
  BY DEF IInv, TypeOK, Buffers
<1>2. CASE buffer.full
  <2>1. ASSUME NEW k \in 1 .. WalkLength(buffer)
        PROVE  SlotOf(buffer, k) \in Offsets
    BY <1>1, WalkOfShape
  <2>2. ASSUME NEW i \in Offsets
        PROVE  \E k \in 1 .. WalkLength(buffer) : SlotOf(buffer, k) = i
    <3>1. WalkLength(buffer) = MaxOps
      BY <1>1, <1>2, WalkOfShape
    <3>2. CASE i >= buffer.out_offs
      <4>1. PICK k \in 1 .. MaxOps : k = i - buffer.out_offs + 1
        BY <1>1, <3>2, MaxOpsAssumption DEF Offsets
      <4>2. SlotOf(buffer, k) = i
        BY <1>1, <3>1, <4>1, WalkOfShape, MaxOpsAssumption DEF Offsets
      <4>3. QED
        BY <3>1, <4>2
    <3>3. CASE i < buffer.out_offs
      <4>1. PICK k \in 1 .. MaxOps : k = i - buffer.out_offs + 1 + MaxOps
        BY <1>1, <3>3, MaxOpsAssumption DEF Offsets
      <4>2. SlotOf(buffer, k) = i
        BY <1>1, <3>1, <4>1, WalkOfShape, MaxOpsAssumption DEF Offsets
      <4>3. QED
        BY <3>1, <4>2
    <3>4. QED
      BY <1>1, <3>2, <3>3, MaxOpsAssumption DEF Offsets
  <2>3. \A i \in Offsets : buffer.entry[i] # EmptySlot
    BY <1>1, <1>2, EntryNotEmpty DEF Shape
  <2>4. QED
    BY <2>1, <2>2, <2>3 DEF WalkMeetsTheWritten
<1>3. CASE ~buffer.full
  <2>1. /\ WalkLength(buffer) = buffer.in_offs
        /\ \A k \in 1 .. WalkLength(buffer) : SlotOf(buffer, k) = k - 1
    BY <1>1, <1>3, WalkOfShape, MaxOpsAssumption DEF Shape, Offsets
  <2>2. \A i \in Offsets : buffer.entry[i] # EmptySlot <=> i < buffer.in_offs
    BY <1>1, <1>3, EntryNotEmpty DEF Shape
  <2>3. ASSUME NEW i \in Offsets, i < buffer.in_offs
        PROVE  \E k \in 1 .. WalkLength(buffer) : SlotOf(buffer, k) = i
    <3>1. PICK k \in 1 .. WalkLength(buffer) : k = i + 1
      BY <1>1, <2>1, <2>3, MaxOpsAssumption DEF Offsets
    <3>2. QED
      BY <2>1, <3>1, MaxOpsAssumption DEF Offsets
  <2>4. ASSUME NEW k \in 1 .. WalkLength(buffer)
        PROVE  SlotOf(buffer, k) \in Offsets /\ SlotOf(buffer, k) < buffer.in_offs
    BY <1>1, <2>1, MaxOpsAssumption DEF Offsets
  <2>5. QED
    BY <2>2, <2>3, <2>4 DEF WalkMeetsTheWritten
<1>4. QED
  BY <1>1, <1>2, <1>3

(* In every reachable state the readers' walk visits exactly the slots     *)
(* that hold an entry, so the cleanup loop over all the slots frees what   *)
(* the readers can reach.                                                  *)
THEOREM WalkCorrect == Spec => []WalkMeetsTheWritten
<1>1. Init => IInv
  BY InitShape DEF Init
<1>2. QED
  BY <1>1, ShapeWalk, InvInductive, PTL DEF Spec

(* The contents of a well-shaped buffer are a sequence of entries.         *)
LEMMA CommandsIsSeq ==
  ASSUME IInv
  PROVE  /\ Commands(buffer) \in Seq(Entries)
         /\ Len(Commands(buffer)) = WalkLength(buffer)
         /\ WalkLength(buffer) \in 0 .. MaxOps
         /\ \A k \in 1 .. WalkLength(buffer) :
              Commands(buffer)[k] = buffer.entry[SlotOf(buffer, k)]
<1>1. buffer \in Buffers(Entries \cup {EmptySlot}) /\ ShapeOf(buffer, Entries)
  BY DEF IInv, TypeOK, Shape, ShapeOf
<1>2. QED
  BY <1>1, CommandsShaped

(* Adding an entry pushes it on the log of commands: it is appended, and   *)
(* the oldest one gives way when all the slots were used.                  *)
LEMMA AddEntryPushes ==
  ASSUME IInv, IInv', NEW e \in Entries, AddEntry(e)
  PROVE  Commands(buffer)' = Log!Pushed(Commands(buffer), e)
<1>1. buffer \in Buffers(Entries \cup {EmptySlot}) /\ ShapeOf(buffer, Entries)
  BY DEF IInv, TypeOK, Shape, ShapeOf
<1>2. Commands(buffer') = Append(IF Len(Commands(buffer)) < MaxOps THEN Commands(buffer)
                                 ELSE Tail(Commands(buffer)), e)
  BY <1>1, AddEntryAppends DEF AddEntry
<1>3. QED
  BY <1>2 DEF Log!Pushed

(* The circular buffer implements the log of the last MaxOps entries, for  *)
(* every capacity: each call is a push to the log.                         *)
THEOREM BufferImplementsLog == Spec => ImplementsLog
<1>1. Init => IInv
  BY InitShape DEF Init
<1>2. ASSUME IInv, buffer = aesd_circular_buffer_init
      PROVE  Commands(buffer) = <<>>
  <2>1. WalkLength(buffer) = 0
    BY <1>2, WalkOfShape DEF IInv, aesd_circular_buffer_init
  <2>2. QED
    BY <1>2, <2>1, CommandsIsSeq, EmptySeq
<1>3. Init => Log!LogInit
  BY <1>1, <1>2 DEF Init, Log!LogInit
<1>4. IInv /\ IInv' /\ [Next]_buffer => [Log!LogNext]_(Commands(buffer))
  <2> SUFFICES ASSUME IInv, IInv', [Next]_buffer
               PROVE  [Log!LogNext]_(Commands(buffer))
    OBVIOUS
  <2>1. ASSUME NEW e \in Entries, AddEntry(e)
        PROVE  Log!Push(e)
    BY <2>1, AddEntryPushes DEF Log!Push
  <2>2. CASE UNCHANGED buffer
    BY <2>2 DEF Commands, WalkLength, SlotOf
  <2>3. QED
    BY <2>1, <2>2 DEF Next, Log!LogNext
<1>5. QED
  BY <1>1, <1>3, <1>4, InvInductive, PTL DEF Spec, ImplementsLog, Log!LogSpec

-----------------------------------------------------------------------------
(* The seek and the lookup.                                                *)

(* Seeking and looking up agree on every well-typed structure: exactly one *)
(* command holds the position the seek computes.                           *)
LEMMA TypeRoundTrip == TypeOK => SeekThenReadRoundTrip
<1> SUFFICES ASSUME TypeOK,
                    NEW c \in 0 .. WalkLength(buffer) - 1,
                    NEW o \in 0 .. Commands(buffer)[c + 1].size - 1
             PROVE  aesd_circular_buffer_find_entry_offset_for_fpos(buffer,
                       aesd_circular_buffer_find_position(buffer, c, o))
                      = [slot |-> SlotOf(buffer, c + 1), byte |-> o]
  BY DEF SeekThenReadRoundTrip
<1> DEFINE E   == Entries \cup {EmptySlot}
           w   == WalkLength(buffer)
           end == EndOf(buffer)
           pos == aesd_circular_buffer_find_position(buffer, c, o)
           find == aesd_circular_buffer_find_entry_offset_for_fpos(buffer, pos)
<1>1. buffer \in Buffers(E) /\ \A e \in E : e.size \in Nat
  <2>1. \A e \in Entries : e.size \in Nat
    BY SizesAssumption DEF Entries
  <2>2. EmptySlot.size \in Nat
    BY DEF EmptySlot
  <2>3. buffer \in Buffers(E)
    BY DEF TypeOK
  <2>4. QED
    BY <2>1, <2>2, <2>3
<1>2. w \in Nat /\ c \in Nat /\ c + 1 \in 1 .. w /\ c \in 0 .. w /\ c + 1 \in 0 .. w
  BY <1>1, WalkBounds, MaxOpsAssumption
<1>3. /\ end \in [0 .. w -> Nat]
      /\ Commands(buffer)[c + 1].size \in Nat
      /\ o \in Nat /\ o < Commands(buffer)[c + 1].size
  BY <1>1, <1>2, EndOfSums
<1>4. pos \in Nat /\ pos = end[c] + o /\ pos < end[c + 1]
  <2>1. c < w
    BY <1>2
  <2>2. QED
    BY <1>1, <1>2, <1>3, <2>1, FindPositionResult
<1>5. /\ end[c] \in Nat /\ end[c + 1] \in Nat /\ end[w] \in Nat
      /\ end[c] <= pos /\ end[c + 1] <= end[w]
  <2>1. w \in (c + 1) .. w
    BY <1>2
  <2>2. end[c + 1] <= end[w]
    BY <1>1, <1>2, <2>1, EndOfGrows
  <2>3. w \in 0 .. w
    BY <1>2
  <2>4. QED
    BY <1>2, <1>3, <1>4, <2>2, <2>3
<1>6. \/ find = NULL /\ pos >= end[w]
      \/ \E k \in 1 .. w : /\ find = [slot |-> SlotOf(buffer, k), byte |-> pos - end[k - 1]]
                          /\ end[k - 1] <= pos /\ pos < end[k]
  BY <1>1, <1>4, FindEntryResult
<1>7. PICK k \in 1 .. w : /\ find = [slot |-> SlotOf(buffer, k), byte |-> pos - end[k - 1]]
                         /\ end[k - 1] <= pos /\ pos < end[k]
  BY <1>4, <1>5, <1>6
<1>8. k \in 0 .. w /\ k - 1 \in 0 .. w /\ end[k] \in Nat /\ end[k - 1] \in Nat
  BY <1>2, <1>3
<1>9. ~ (k <= c)
  <2>1. SUFFICES ASSUME k <= c
                 PROVE  FALSE
    OBVIOUS
  <2>2. c \in k .. w
    BY <1>2, <1>8, <2>1
  <2>3. end[k] <= end[c]
    BY <1>1, <1>8, <2>2, EndOfGrows
  <2>4. QED
    BY <1>4, <1>5, <1>7, <1>8, <2>3
<1>10. ~ (k > c + 1)
  <2>1. SUFFICES ASSUME k > c + 1
                 PROVE  FALSE
    OBVIOUS
  <2>2. k - 1 \in (c + 1) .. w
    BY <1>2, <1>8, <2>1
  <2>3. end[c + 1] <= end[k - 1]
    BY <1>1, <1>2, <2>2, EndOfGrows
  <2>4. QED
    BY <1>4, <1>5, <1>7, <1>8, <2>3
<1>11. k = c + 1
  BY <1>2, <1>9, <1>10
<1>12. k - 1 = c /\ pos - end[c] = o
  BY <1>2, <1>3, <1>4, <1>5, <1>11
<1>13. QED
  BY <1>7, <1>11, <1>12

(* In every reachable state, for every capacity: a process that seeks to   *)
(* byte o of command c and reads gets byte o of command c.                 *)
THEOREM SeekReadCorrect == Spec => []SeekThenReadRoundTrip
  BY TypeCorrect, TypeRoundTrip, PTL

-----------------------------------------------------------------------------
(* The contents, byte by byte.                                             *)

(* Entries and empty slots have sizes that can be added.                   *)
LEMMA SizesAreNat ==
  ASSUME TypeOK
  PROVE  /\ buffer \in Buffers(Entries \cup {EmptySlot})
         /\ \A e \in Entries \cup {EmptySlot} : e.size \in Nat
<1>1. \A e \in Entries : e.size \in Nat
  BY SizesAssumption DEF Entries
<1>2. EmptySlot.size \in Nat
  BY DEF EmptySlot
<1>3. buffer \in Buffers(Entries \cup {EmptySlot})
  BY DEF TypeOK
<1>4. QED
  BY <1>1, <1>2, <1>3

(* The bytes of the k-th command.                                          *)
BytesOf(k) == [i \in 1 .. Commands(buffer)[k].size |-> [slot |-> SlotOf(buffer, k), byte |-> i - 1]]

(* Contents puts the commands end to end: command k lies behind the sizes  *)
(* of those before it.                                                     *)
LEMMA ContentsLayout ==
  ASSUME TypeOK
  PROVE  /\ Len(Contents) = EndOf(buffer)[WalkLength(buffer)]
         /\ \A k \in 1 .. WalkLength(buffer) : \A pos \in Nat :
              EndOf(buffer)[k - 1] <= pos /\ pos < EndOf(buffer)[k] =>
                Contents[pos + 1]
                  = [slot |-> SlotOf(buffer, k), byte |-> pos - EndOf(buffer)[k - 1]]
<1> DEFINE E == Entries \cup {EmptySlot}
           w == WalkLength(buffer)
           end == EndOf(buffer)
           size(k) == Commands(buffer)[k].size
           B == [slot : Offsets, byte : Nat]
           s == [k \in 1 .. w |-> BytesOf(k)]
           before(k) == Len(FlattenSeq(SubSeq(s, 1, k)))
           T == {k \in Nat : k \in 0 .. w => before(k) = end[k]}
<1>1. buffer \in Buffers(E) /\ \A e \in E : e.size \in Nat
  BY SizesAreNat
<1>2. /\ w \in Nat /\ end \in [0 .. w -> Nat] /\ end[0] = 0
      /\ \A k \in 1 .. w : /\ size(k) \in Nat /\ end[k] = end[k - 1] + size(k)
                           /\ SlotOf(buffer, k) \in Offsets
  BY <1>1, WalkBounds, EndOfSums, MaxOpsAssumption
<1> HIDE DEF end, w, size
<1>3. ASSUME NEW k \in 1 .. w
      PROVE  /\ BytesOf(k) \in Seq(B) /\ Len(BytesOf(k)) = size(k)
             /\ \A i \in 1 .. size(k) : BytesOf(k)[i] = [slot |-> SlotOf(buffer, k), byte |-> i - 1]
  <2>1. /\ BytesOf(k) = [i \in 1 .. size(k) |-> [slot |-> SlotOf(buffer, k), byte |-> i - 1]]
    BY DEF BytesOf, size
  <2>2. size(k) \in Nat /\ SlotOf(buffer, k) \in Offsets
    BY <1>2
  <2>3. \A i \in 1 .. size(k) : [slot |-> SlotOf(buffer, k), byte |-> i - 1] \in B
    BY <2>2
  <2> HIDE DEF B
  <2>4. BytesOf(k) \in [1 .. size(k) -> B]
    BY <2>1, <2>3
  <2>5. BytesOf(k) \in Seq(B) /\ Len(BytesOf(k)) = size(k)
    BY <2>2, <2>4
  <2>6. QED
    BY <2>1, <2>5
<1> HIDE DEF B
<1>4. s \in Seq(Seq(B)) /\ Len(s) = w /\ \A k \in 1 .. w : s[k] = BytesOf(k)
  <2>1. s \in [1 .. w -> Seq(B)]
    BY <1>3
  <2>2. QED
    BY <1>2, <2>1
<1>5. Contents = FlattenSeq(s)
  BY DEF Contents, BytesOf, w
<1> HIDE DEF s
<1>6. /\ FlattenSeq(SubSeq(s, 1, 0)) = <<>>
      /\ \A k \in 0 .. w : FlattenSeq(SubSeq(s, 1, k)) \in Seq(B)
      /\ \A k \in 1 .. w :
           FlattenSeq(SubSeq(s, 1, k)) = FlattenSeq(SubSeq(s, 1, k - 1)) \o BytesOf(k)
      /\ FlattenSeq(SubSeq(s, 1, w)) = FlattenSeq(s)
  <2>1. /\ FlattenSeq(SubSeq(s, 1, 0)) = <<>>
        /\ \A k \in 0 .. Len(s) : FlattenSeq(SubSeq(s, 1, k)) \in Seq(B)
        /\ \A k \in 1 .. Len(s) :
             FlattenSeq(SubSeq(s, 1, k)) = FlattenSeq(SubSeq(s, 1, k - 1)) \o s[k]
        /\ FlattenSeq(SubSeq(s, 1, Len(s))) = FlattenSeq(s)
    BY <1>4, FlattenPrefix
  <2>2. QED
    BY <1>4, <2>1
<1>7. before(0) = 0
  <2>1. Len(<<>>) = 0
    OBVIOUS
  <2>2. QED
    BY <1>6, <2>1
<1>8. ASSUME NEW k \in 1 .. w
      PROVE  before(k) = before(k - 1) + size(k)
  <2>1. k - 1 \in 0 .. w
    BY <1>2
  <2>2. /\ FlattenSeq(SubSeq(s, 1, k - 1)) \in Seq(B) /\ BytesOf(k) \in Seq(B)
        /\ FlattenSeq(SubSeq(s, 1, k)) = FlattenSeq(SubSeq(s, 1, k - 1)) \o BytesOf(k)
    BY <1>3, <1>6, <2>1
  <2>3. Len(FlattenSeq(SubSeq(s, 1, k - 1)) \o BytesOf(k))
          = Len(FlattenSeq(SubSeq(s, 1, k - 1))) + Len(BytesOf(k))
    BY <2>2, ConcatProperties
  <2>4. QED
    BY <1>3, <2>2, <2>3
<1> HIDE DEF before
<1>9. 0 \in T
  BY <1>2, <1>7
<1>10. ASSUME NEW k \in T
       PROVE  k + 1 \in T
  <2>1. k \in Nat
    OBVIOUS
  <2>2. CASE k + 1 \in 0 .. w
    <3>1. k \in 0 .. w /\ k + 1 \in 1 .. w /\ (k + 1) - 1 = k
      BY <1>2, <2>1, <2>2
    <3>2. before(k) = end[k]
      BY <3>1
    <3>3. before(k + 1) = end[k + 1]
      BY <1>2, <1>8, <3>1, <3>2
    <3>4. QED
      BY <2>1, <3>3
  <2>3. CASE k + 1 \notin 0 .. w
    BY <2>1, <2>3
  <2>4. QED
    BY <2>2, <2>3
<1>11. T = Nat
  BY <1>9, <1>10, SetInduction
<1>12. ASSUME NEW k \in 0 .. w
       PROVE  before(k) = end[k]
  <2>1. k \in T
    <3> HIDE DEF T
    <3>1. QED
      BY <1>2, <1>11
  <2>2. QED
    BY <2>1
<1> HIDE DEF T
<1>13. Len(Contents) = end[w]
  BY <1>2, <1>5, <1>6, <1>12 DEF before
<1>14. ASSUME NEW k \in 1 .. w, NEW pos \in Nat, end[k - 1] <= pos, pos < end[k]
       PROVE  Contents[pos + 1] = [slot |-> SlotOf(buffer, k), byte |-> pos - end[k - 1]]
  <2> DEFINE i == pos - end[k - 1] + 1
  <2>1. /\ k - 1 \in 0 .. w /\ end[k - 1] \in Nat /\ size(k) \in Nat
        /\ end[k] = end[k - 1] + size(k)
    BY <1>2
  <2>2. i \in 1 .. size(k) /\ end[k - 1] + i = pos + 1 /\ i - 1 = pos - end[k - 1]
    BY <1>14, <2>1
  <2>3. FlattenSeq(s)[before(k - 1) + i] = s[k][i]
    <3>1. k \in 1 .. Len(s) /\ i \in 1 .. Len(s[k])
      BY <1>3, <1>4, <2>2
    <3> HIDE DEF i
    <3>2. QED
      BY <1>4, <3>1, FlattenOffset DEF before
  <2>4. before(k - 1) = end[k - 1]
    BY <1>12, <2>1
  <2> HIDE DEF i
  <2>5. s[k][i] = [slot |-> SlotOf(buffer, k), byte |-> i - 1]
    BY <1>3, <1>4, <2>2
  <2>6. QED
    BY <1>5, <2>2, <2>3, <2>4, <2>5
<1>15. QED
  BY <1>13, <1>14 DEF end, w

(* The lookup and the seek agree with the contents on every well-typed     *)
(* structure.                                                              *)
LEMMA TypeContents == TypeOK => FindEntryIndexesContents /\ SeekStaysInContents
<1> SUFFICES ASSUME TypeOK
             PROVE  FindEntryIndexesContents /\ SeekStaysInContents
  OBVIOUS
<1> DEFINE E == Entries \cup {EmptySlot}
           w == WalkLength(buffer)
           end == EndOf(buffer)
<1>1. /\ buffer \in Buffers(E) /\ \A e \in E : e.size \in Nat
      /\ w \in Nat /\ end \in [0 .. w -> Nat] /\ Len(Contents) = end[w]
  BY SizesAreNat, WalkBounds, EndOfSums, ContentsLayout, MaxOpsAssumption
<1>2. Len(Contents) \in Nat
  BY <1>1
<1>3. ASSUME NEW pos \in 0 .. Len(Contents) + 1
      PROVE  aesd_circular_buffer_find_entry_offset_for_fpos(buffer, pos)
               = IF pos < Len(Contents) THEN Contents[pos + 1] ELSE NULL
  <2> DEFINE find == aesd_circular_buffer_find_entry_offset_for_fpos(buffer, pos)
  <2>1. pos \in Nat
    BY <1>2
  <2>2. \/ find = NULL /\ pos >= end[w]
        \/ \E k \in 1 .. w : /\ find = [slot |-> SlotOf(buffer, k), byte |-> pos - end[k - 1]]
                             /\ end[k - 1] <= pos /\ pos < end[k]
    BY <1>1, <2>1, FindEntryResult
  <2>3. CASE find = NULL /\ pos >= end[w]
    BY <1>1, <1>2, <2>1, <2>3
  <2>4. ASSUME NEW k \in 1 .. w,
               find = [slot |-> SlotOf(buffer, k), byte |-> pos - end[k - 1]],
               end[k - 1] <= pos, pos < end[k]
        PROVE  pos < Len(Contents) /\ find = Contents[pos + 1]
    <3>1. k \in 0 .. w /\ w \in k .. w
      BY <1>1
    <3>2. end[k] <= end[w]
      BY <1>1, <3>1, EndOfGrows
    <3>3. end[k] \in Nat /\ end[w] \in Nat
      BY <1>1, <3>1
    <3>4. find = Contents[pos + 1]
      BY <2>1, <2>4, ContentsLayout
    <3> HIDE DEF find, end, w
    <3>5. QED
      BY <1>1, <2>1, <2>4, <3>2, <3>3, <3>4
  <2>5. QED
    BY <2>2, <2>3, <2>4
<1>4. ASSUME NEW c \in 0 .. MaxOps + 1, NEW o \in 0 .. Len(Contents) + 1
      PROVE  aesd_circular_buffer_find_position(buffer, c, o) <= Len(Contents)
  <2>1. c \in Nat /\ o \in Nat
    BY <1>2, MaxOpsAssumption
  <2>2. QED
    BY <1>1, <2>1, FindPositionResult
<1>5. QED
  BY <1>3, <1>4 DEF FindEntryIndexesContents, SeekStaysInContents

(* In every reachable state, for every capacity: what aesd_read looks up   *)
(* is the byte with that index in the commands concatenated end to end.    *)
THEOREM FindEntryCorrect == Spec => []FindEntryIndexesContents
  BY TypeCorrect, TypeContents, PTL

(* No seek puts the file position behind the contents.                     *)
THEOREM SeekCorrect == Spec => []SeekStaysInContents
  BY TypeCorrect, TypeContents, PTL


(* The slot of a command that stays is the same before and after an entry  *)
(* is added: d is how many commands gave way.                              *)
LEMMA AddEntryKeepsSlots ==
  ASSUME IInv, IInv', NEW e \in Entries, AddEntry(e)
  PROVE  LET d == IF buffer.full THEN 1 ELSE 0
         IN  /\ WalkLength(buffer') = WalkLength(buffer) - d + 1
             /\ d \in 0 .. WalkLength(buffer)
             /\ \A j \in 1 .. WalkLength(buffer) - d :
                  /\ Commands(buffer')[j] = Commands(buffer)[j + d]
                  /\ SlotOf(buffer', j) = SlotOf(buffer, j + d)
<1> DEFINE d == IF buffer.full THEN 1 ELSE 0
           cmds == Commands(buffer)
           next == Commands(buffer')
           w    == WalkLength(buffer)
           w2   == WalkLength(buffer')
<1>1. /\ TypeOK /\ Shape /\ TypeOK' /\ Shape'
      /\ buffer.in_offs \in Offsets /\ buffer.out_offs \in Offsets
      /\ buffer.full \in BOOLEAN
  BY DEF IInv, TypeOK, Buffers
<1>2. /\ cmds \in Seq(Entries) /\ Len(cmds) = w /\ w \in 0 .. MaxOps
      /\ w = IF buffer.full THEN MaxOps ELSE buffer.in_offs
      /\ \A k \in 1 .. w : SlotOf(buffer, k) = IF buffer.out_offs + k - 1 < MaxOps
                                               THEN buffer.out_offs + k - 1
                                               ELSE buffer.out_offs + k - 1 - MaxOps
  BY <1>1, CommandsIsSeq, WalkOfShape
<1>3. /\ Len(next) = w2
      /\ \A k \in 1 .. w2 : SlotOf(buffer', k) = IF buffer'.out_offs + k - 1 < MaxOps
                                                 THEN buffer'.out_offs + k - 1
                                                 ELSE buffer'.out_offs + k - 1 - MaxOps
  <2>1. (IInv => /\ Commands(buffer) \in Seq(Entries)
                 /\ Len(Commands(buffer)) = WalkLength(buffer)
                 /\ WalkLength(buffer) \in 0 .. MaxOps
                 /\ \A k \in 1 .. WalkLength(buffer) :
                      Commands(buffer)[k] = buffer.entry[SlotOf(buffer, k)])'
    BY CommandsIsSeq, PTL
  <2>2. (TypeOK /\ Shape
          => /\ WalkLength(buffer) = IF buffer.full THEN MaxOps ELSE buffer.in_offs
             /\ WalkLength(buffer) \in 0 .. MaxOps
             /\ \A k \in 1 .. WalkLength(buffer) :
                  /\ SlotOf(buffer, k) \in Offsets
                  /\ SlotOf(buffer, k) = IF buffer.out_offs + k - 1 < MaxOps
                                         THEN buffer.out_offs + k - 1
                                         ELSE buffer.out_offs + k - 1 - MaxOps)'
    BY WalkOfShape, PTL
  <2>3. QED
    BY <1>1, <2>1, <2>2
<1>4. /\ buffer'.in_offs = IF buffer.in_offs = MaxOps - 1 THEN 0 ELSE buffer.in_offs + 1
      /\ buffer'.out_offs = IF buffer.full THEN buffer'.in_offs ELSE buffer.out_offs
  BY <1>1, AddEntryFields, NextOffsetWraps
<1>5. next = Append(IF Len(cmds) < MaxOps THEN cmds ELSE Tail(cmds), e)
  BY AddEntryPushes DEF Log!Pushed
<1> HIDE DEF next, cmds, w, w2
<1>6. CASE ~buffer.full
  <2>1. w < MaxOps /\ w \in Nat /\ buffer.out_offs = 0 /\ buffer'.out_offs = 0
    BY <1>1, <1>2, <1>4, <1>6, MaxOpsAssumption DEF Shape, Offsets
  <2>2. next = Append(cmds, e)
    BY <1>2, <1>5, <2>1
  <2>3. w2 = w + 1 /\ \A j \in 1 .. w : next[j] = cmds[j]
    BY <1>2, <1>3, <2>2, AppendProperties
  <2>4. ASSUME NEW j \in 1 .. w
        PROVE  SlotOf(buffer', j) = SlotOf(buffer, j)
    BY <1>2, <1>3, <2>1, <2>3
  <2>5. \A j \in 1 .. w - 0 : j + 0 = j /\ j \in 1 .. w
    BY <2>1
  <2>6. w2 = w - 0 + 1 /\ 0 \in 0 .. w
    BY <2>1, <2>3
  <2>7. d = 0
    BY <1>6
  <2> HIDE DEF d
  <2>8. QED
    BY <2>3, <2>4, <2>5, <2>6, <2>7 DEF d, cmds, next, w, w2
<1>7. CASE buffer.full
  <2>1. w = MaxOps /\ w \in Nat \ {0} /\ buffer.out_offs = buffer.in_offs
        /\ buffer'.out_offs = buffer'.in_offs
    BY <1>1, <1>2, <1>4, <1>7, MaxOpsAssumption DEF Shape
  <2>2. next = Append(Tail(cmds), e) /\ cmds # <<>>
    BY <1>2, <1>5, <2>1
  <2>3. /\ Tail(cmds) \in Seq(Entries) /\ Len(Tail(cmds)) = w - 1
        /\ \A j \in 1 .. w - 1 : Tail(cmds)[j] = cmds[j + 1]
    BY <1>2, <2>2, HeadTailProperties
  <2>4. w2 = (w - 1) + 1 /\ \A j \in 1 .. w - 1 : next[j] = cmds[j + 1]
    BY <1>3, <2>2, <2>3, AppendProperties
  <2>5. ASSUME NEW j \in 1 .. w - 1
        PROVE  SlotOf(buffer', j) = SlotOf(buffer, j + 1)
    <3>1. j \in 1 .. w2 /\ j + 1 \in 1 .. w
      BY <2>1, <2>4
    <3>2. SlotOf(buffer, j + 1) = IF buffer.in_offs + j < MaxOps THEN buffer.in_offs + j
                                  ELSE buffer.in_offs + j - MaxOps
      BY <1>1, <1>2, <2>1, <3>1 DEF Offsets
    <3>3. SlotOf(buffer', j) = IF buffer'.in_offs + j - 1 < MaxOps
                               THEN buffer'.in_offs + j - 1
                               ELSE buffer'.in_offs + j - 1 - MaxOps
      BY <1>3, <2>1, <3>1
    <3>4. QED
      BY <1>1, <1>4, <2>1, <3>2, <3>3, MaxOpsAssumption DEF Offsets
  <2>6. w2 = w - 1 + 1 /\ 1 \in 0 .. w
    BY <2>1, <2>4
  <2>7. d = 1
    BY <1>7
  <2> HIDE DEF d
  <2>8. QED
    BY <2>4, <2>5, <2>6, <2>7 DEF d, cmds, next, w, w2
<1>8. QED
  BY <1>1, <1>6, <1>7

(* An added entry shifts the positions of the bytes that stay by the size  *)
(* of the command that gives way.                                          *)
LEMMA AddEntryShifts ==
  ASSUME IInv, IInv', NEW e \in Entries, AddEntry(e)
  PROVE  LET evicted == IF buffer.full THEN Commands(buffer)[1].size ELSE 0
         IN  \A pos \in evicted .. Len(Contents) - 1 :
               aesd_circular_buffer_find_entry_offset_for_fpos(buffer', pos - evicted)
                 = Contents[pos + 1]
<1> DEFINE E == Entries \cup {EmptySlot}
           d == IF buffer.full THEN 1 ELSE 0
           evicted == IF buffer.full THEN Commands(buffer)[1].size ELSE 0
           w == WalkLength(buffer)
           w2 == WalkLength(buffer')
           end == EndOf(buffer)
           end2 == EndOf(buffer')
<1>1. /\ TypeOK /\ buffer \in Buffers(E) /\ buffer' \in Buffers(E)
      /\ \A x \in E : x.size \in Nat
  <2>1. TypeOK' /\ TypeOK
    BY DEF IInv
  <2>2. QED
    BY <2>1, SizesAreNat DEF TypeOK
<1>2. /\ w2 = w - d + 1 /\ d \in 0 .. w
      /\ \A j \in 1 .. w - d : /\ Commands(buffer')[j] = Commands(buffer)[j + d]
                               /\ SlotOf(buffer', j) = SlotOf(buffer, j + d)
  BY AddEntryKeepsSlots
<1>3. /\ w \in Nat /\ w2 \in Nat /\ end \in [0 .. w -> Nat] /\ end2 \in [0 .. w2 -> Nat]
      /\ end[0] = 0 /\ \A k \in 1 .. w : end[k] = end[k - 1] + Commands(buffer)[k].size
      /\ Len(Contents) = end[w]
  BY <1>1, WalkBounds, EndOfSums, ContentsLayout, MaxOpsAssumption
<1>4. \A j \in 0 .. w - d : end2[j] = end[j + d] - end[d]
  <2>1. w - d <= w2
    BY <1>2, <1>3
  <2> HIDE DEF d
  <2>2. QED
    BY <1>1, <1>2, <2>1, EndOfShift
<1>5. evicted = end[d] /\ d \in Nat /\ end[d] \in Nat
  <2>1. CASE ~buffer.full
    BY <1>3, <2>1
  <2>2. CASE buffer.full
    <3>1. 1 \in 1 .. w /\ 1 \in 0 .. w
      BY <1>2, <1>3, <2>2
    <3>2. end[1] = end[1 - 1] + Commands(buffer)[1].size /\ 1 - 1 = 0 /\ end[1] \in Nat
      BY <1>3, <3>1
    <3>3. Commands(buffer)[1].size \in Nat
      BY <1>1, <3>1, EndOfSums
    <3>4. QED
      BY <1>3, <2>2, <3>2, <3>3
  <2>3. QED
    BY <2>1, <2>2
<1> HIDE DEF d, evicted, w, w2, end, end2
<1>6. ASSUME NEW pos \in evicted .. Len(Contents) - 1
      PROVE  aesd_circular_buffer_find_entry_offset_for_fpos(buffer', pos - evicted)
               = Contents[pos + 1]
  <2>1. pos \in Nat /\ pos - evicted \in Nat /\ pos < end[w] /\ end[d] <= pos
    <3>1. end[w] \in Nat
      BY <1>3
    <3>2. QED
      BY <1>3, <1>5, <3>1
  <2>2. PICK k \in 1 .. w : end[k - 1] <= pos /\ pos < end[k]
    <3>1. \/ pos >= end[w]
          \/ \E k \in 1 .. w : end[k - 1] <= pos /\ pos < end[k]
      BY <1>1, <2>1, FindEntryResult DEF w, end
    <3>2. end[w] \in Nat
      BY <1>3
    <3>3. QED
      BY <2>1, <3>1, <3>2
  <2>3. ~ (k <= d)
    <3>1. SUFFICES ASSUME k <= d
                   PROVE  FALSE
      OBVIOUS
    <3>2. k \in 0 .. w /\ d \in k .. w
      BY <1>2, <1>3, <1>5, <3>1
    <3>3. end[k] <= end[d]
      BY <1>1, <3>2, EndOfGrows DEF w, end
    <3>4. end[k] \in Nat
      BY <1>3, <3>2
    <3>5. QED
      BY <1>5, <2>1, <2>2, <3>3, <3>4
  <2> DEFINE j == k - d
  <2>4. /\ j \in 1 .. w - d /\ j \in 0 .. w - d /\ j - 1 \in 0 .. w - d /\ j \in 1 .. w2
        /\ j + d = k /\ (j - 1) + d = k - 1 /\ k \in 0 .. w /\ k - 1 \in 0 .. w
    BY <1>2, <1>3, <1>5, <2>3
  <2>5. end2[j] = end[k] - end[d] /\ end2[j - 1] = end[k - 1] - end[d]
    BY <1>4, <2>4
  <2>6. end[k] \in Nat /\ end[k - 1] \in Nat
    BY <1>3, <2>4
  <2>7. /\ end2[j - 1] <= pos - evicted /\ pos - evicted < end2[j]
        /\ (pos - evicted) - end2[j - 1] = pos - end[k - 1]
    <3> DEFINE x == end[k - 1]
               y == end[k]
               z == end[d]
    <3>1. /\ x \in Nat /\ y \in Nat /\ z \in Nat /\ pos \in Nat
          /\ evicted = z /\ x <= pos /\ pos < y
      BY <1>5, <2>1, <2>2, <2>6
    <3>2. end2[j - 1] = x - z /\ end2[j] = y - z
      BY <2>5
    <3> HIDE DEF x, y, z, j
    <3>3. x - z <= pos - z /\ pos - z < y - z /\ (pos - z) - (x - z) = pos - x
      BY <3>1
    <3>4. QED
      BY <3>1, <3>2, <3>3 DEF x
  <2>8. SlotOf(buffer', j) = SlotOf(buffer, k)
    BY <1>2, <2>4
  <2> HIDE DEF j
  <2>9. aesd_circular_buffer_find_entry_offset_for_fpos(buffer', pos - evicted)
          = [slot |-> SlotOf(buffer', j), byte |-> (pos - evicted) - end2[j - 1]]
    BY <1>1, <2>1, <2>4, <2>7, FindEntryUnique DEF w2, end2
  <2>10. Contents[pos + 1] = [slot |-> SlotOf(buffer, k), byte |-> pos - end[k - 1]]
    BY <1>1, <2>1, <2>2, ContentsLayout DEF w, end
  <2>11. QED
    BY <2>7, <2>8, <2>9, <2>10
<1>7. QED
  BY <1>6 DEF evicted

(* In every reachable state, for every capacity: what an added entry does  *)
(* to the positions readers hold is a shift by the size of the command     *)
(* that gives way, and none when there was room.                           *)
THEOREM ShiftCorrect == Spec => PositionsShiftByEvicted
<1>1. Init => IInv
  BY InitShape DEF Init
<1>2. IInv /\ IInv' /\ [Next]_buffer =>
        [LET evicted == IF buffer.full THEN Commands(buffer)[1].size ELSE 0
         IN  \A pos \in evicted .. Len(Contents) - 1 :
               aesd_circular_buffer_find_entry_offset_for_fpos(buffer', pos - evicted)
                 = Contents[pos + 1]]_buffer
  BY AddEntryShifts DEF Next
<1>3. QED
  BY <1>1, <1>2, InvInductive, PTL DEF Spec, PositionsShiftByEvicted
=============================================================================
