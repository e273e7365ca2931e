--------------------------- MODULE CircularBuffer ---------------------------
(***************************************************************************)
(* One struct aesd_circular_buffer used by one caller: aesd_circular_buffer_init, *)
(* then any sequence of aesd_circular_buffer_add_entry calls, and the two  *)
(* lookups evaluated in every state that this reaches.                     *)
(***************************************************************************)
EXTENDS CircularBufferOps, SequencesExt

CONSTANTS
  Pointers,  (* values of buffptr; NULL is not one of them                 *)
  Sizes      (* values of size                                             *)

ASSUME PointersAssumption == NULL \notin Pointers
ASSUME SizesAssumption    == Sizes \subseteq Nat

VARIABLE buffer

Entries == [buffptr : Pointers, size : Sizes]

Init == buffer = aesd_circular_buffer_init

AddEntry(e) == buffer' = aesd_circular_buffer_add_entry(buffer, e)

Next == \E e \in Entries : AddEntry(e)

Spec == Init /\ [][Next]_buffer

-----------------------------------------------------------------------------
TypeOK == buffer \in Buffers(Entries \cup {EmptySlot})

(* The slots the readers' walk visits are exactly the slots that hold an   *)
(* entry.  aesd_cleanup_module relies on it: it frees what is non-NULL in  *)
(* all the slots (AESD_CIRCULAR_BUFFER_FOREACH), the readers serve what    *)
(* the walk meets.                                                         *)
WalkMeetsTheWritten ==
  {SlotOf(buffer, k) : k \in 1 .. WalkLength(buffer)}
    = {i \in Offsets : buffer.entry[i] # EmptySlot}

(* The inductive strengthening: the slots are filled from 0 upwards, and   *)
(* once all are, the buffer stays full with both offsets equal.            *)
Shape ==
  IF buffer.full
  THEN /\ buffer.in_offs = buffer.out_offs
       /\ \A i \in Offsets : buffer.entry[i] \in Entries
  ELSE /\ buffer.out_offs = 0
       /\ \A i \in Offsets : IF i < buffer.in_offs
                             THEN buffer.entry[i] \in Entries
                             ELSE buffer.entry[i] = EmptySlot

(* The bytes a reader sees, as pairs of a slot and an index in its entry.  *)
Contents ==
  FlattenSeq([k \in 1 .. WalkLength(buffer) |->
                [i \in 1 .. Commands(buffer)[k].size |->
                   [slot |-> SlotOf(buffer, k), byte |-> i - 1]]])

(* aesd_circular_buffer_find_entry_offset_for_fpos finds, for every        *)
(* position, the byte with that index in the commands concatenated end to  *)
(* end, and NULL past the last one (its comment, lines 18-27).             *)
FindEntryIndexesContents ==
  \A pos \in 0 .. Len(Contents) + 1 :
    aesd_circular_buffer_find_entry_offset_for_fpos(buffer, pos)
      = IF pos < Len(Contents) THEN Contents[pos + 1] ELSE NULL

(* Seeking to byte o of command c and then looking that position up finds  *)
(* byte o of command c: aesd_circular_buffer_find_position and the lookup  *)
(* of aesd_read count commands and bytes alike, wrapped or not.            *)
SeekThenReadRoundTrip ==
  \A c \in 0 .. WalkLength(buffer) - 1 :
    \A o \in 0 .. Commands(buffer)[c + 1].size - 1 :
      LET pos == aesd_circular_buffer_find_position(buffer, c, o)
      IN  aesd_circular_buffer_find_entry_offset_for_fpos(buffer, pos)
            = [slot |-> SlotOf(buffer, c + 1), byte |-> o]

(* The file position the seek ioctl stores never lies beyond the contents, *)
(* whatever command and offset are asked for.                              *)
SeekStaysInContents ==
  \A c \in 0 .. MaxOps + 1, o \in 0 .. Len(Contents) + 1 :
    aesd_circular_buffer_find_position(buffer, c, o) <= Len(Contents)

(* What an added entry does to the positions readers already hold: none    *)
(* when there was room, and a shift by the size of the evicted command     *)
(* when there was not.  A byte that stays is served from the same slot.    *)
PositionsShiftByEvicted ==
  [][LET evicted == IF buffer.full THEN Commands(buffer)[1].size ELSE 0
       IN  \A pos \in evicted .. Len(Contents) - 1 :
             aesd_circular_buffer_find_entry_offset_for_fpos(buffer', pos - evicted)
               = Contents[pos + 1]]_buffer

(* The buffer implements the log of the last MaxOps entries.               *)
Log == INSTANCE CommandLog WITH log <- Commands(buffer)

ImplementsLog == Log!LogSpec
=============================================================================
