-------------------------- MODULE CircularBufferOps --------------------------
(***************************************************************************)
(* The functions of aesd-char-driver/aesd-circular-buffer.c, as operators  *)
(* on the value of a struct aesd_circular_buffer.  The state machine       *)
(* CircularBuffer and the driver model CharDriver are built from them.     *)
(***************************************************************************)
EXTENDS Integers, Sequences, FiniteSetsExt

CONSTANTS
  MaxOps,   (* AESDCHAR_MAX_WRITE_OPERATIONS_SUPPORTED                      *)
  NULL      (* the null pointer                                            *)

ASSUME MaxOpsAssumption == MaxOps \in Nat \ {0}

Offsets == 0 .. MaxOps - 1

(* A lookup that finds nothing can be told from one that finds a byte.     *)
ASSUME NullIsNoHit == NULL \notin [slot : Offsets, byte : Nat]

(* A slot that memset cleared and no entry was stored in.                  *)
EmptySlot == [buffptr |-> NULL, size |-> 0]

(* aesd_circular_buffer_init: memset of the whole structure.               *)
aesd_circular_buffer_init ==
  [entry |-> [i \in Offsets |-> EmptySlot],
   in_offs |-> 0, out_offs |-> 0, full |-> FALSE]

(* A struct aesd_circular_buffer whose slots hold entries of the set E.    *)
Buffers(E) ==
  [entry : [Offsets -> E], in_offs : Offsets, out_offs : Offsets, full : BOOLEAN]

(* Mutation: the index runs off the array.                                 *)
NextOffsetNoWrap(i) == i + 1

(* The slot after slot i.                                                  *)
NextOffset(i) == (i + 1) % MaxOps

-----------------------------------------------------------------------------
(* The readers walk from out_offs until they meet in_offs; when the buffer *)
(* is full they take one step before they look.  A torn structure (full    *)
(* with in_offs # out_offs, seen only by a reader without the lock) is     *)
(* walked as the loops would walk it.                                      *)

(* How many slots the walk visits.                                         *)
WalkLength(b) ==
  IF b.full THEN 1 + ((b.in_offs - b.out_offs - 1) % MaxOps)
            ELSE (b.in_offs - b.out_offs) % MaxOps

(* The slot of the k-th command of the walk, k = 1, 2, ...                 *)
SlotOf(b, k) == (b.out_offs + k - 1) % MaxOps

(* The commands the walk meets, oldest first.                              *)
Commands(b) == [k \in 1 .. WalkLength(b) |-> b.entry[SlotOf(b, k)]]

(* EndOf(b)[k]: the size of the first k commands together ("posit").       *)
EndOf(b) ==
  LET cmds == Commands(b)
      end[k \in 0 .. WalkLength(b)] ==
        IF k = 0 THEN 0 ELSE end[k - 1] + cmds[k].size
  IN  end

-----------------------------------------------------------------------------
(* Mutations: plausible mistakes in the functions below.                   *)

(* "<=" for "<": a position one past an entry is taken to lie in it        *)
FindEntryOffByOne(b, char_offset) ==
  LET end  == EndOf(b)
      hits == {k \in 1 .. WalkLength(b) : char_offset <= end[k]}
  IN  IF hits = {} THEN NULL
      ELSE [slot |-> SlotOf(b, Min(hits)),
            byte |-> char_offset - end[Min(hits) - 1]]

(* the offset is not compared with the size of the command                 *)
FindPositionUnchecked(b, command_offset, internal_offset) ==
  IF command_offset >= WalkLength(b)
  THEN EndOf(b)[WalkLength(b)]
  ELSE EndOf(b)[command_offset] + internal_offset

(* the position is not accumulated over the commands skipped               *)
FindPositionInEntry(b, command_offset, internal_offset) == internal_offset

-----------------------------------------------------------------------------
(* The functions.                                                          *)

(* aesd_circular_buffer_find_entry_offset_for_fpos: the first command that *)
(* ends beyond char_offset, and the byte of it; NULL if there is none.     *)
aesd_circular_buffer_find_entry_offset_for_fpos(b, char_offset) ==
  LET end  == EndOf(b)
      hits == {k \in 1 .. WalkLength(b) : char_offset < end[k]}
  IN  IF hits = {} THEN NULL
      ELSE [slot |-> SlotOf(b, Min(hits)),
            byte |-> char_offset - end[Min(hits) - 1]]

(* aesd_circular_buffer_find_position: the position of byte                *)
(* internal_offset of command command_offset (both counted from 0).  An    *)
(* offset beyond the command is ignored, one equal to its size is not; a   *)
(* command that does not exist yields the end of the contents.             *)
aesd_circular_buffer_find_position(b, command_offset, internal_offset) ==
  IF command_offset >= WalkLength(b)
  THEN EndOf(b)[WalkLength(b)]
  ELSE EndOf(b)[command_offset]
         + (IF internal_offset <= Commands(b)[command_offset + 1].size
            THEN internal_offset ELSE 0)

-----------------------------------------------------------------------------
(* aesd_circular_buffer_add_entry, statement by statement: a reader that   *)
(* does not hold the lock can see the structure between any two of them.   *)

(* Mutation: the entry is stored one slot further.                         *)
StoreEntryNext(b, e) == [b EXCEPT !.entry[NextOffset(b.in_offs)] = e]

(* buffer->entry[buffer->in_offs] = *add_entry                             *)
StoreEntry(b, e) == [b EXCEPT !.entry[b.in_offs] = e]

AdvanceIn(b) == [b EXCEPT !.in_offs = NextOffset(b.in_offs)]

(* Mutation: the oldest entry is overwritten and out_offs stays.           *)
KeepOut(b) == b

(* When the buffer was full the oldest entry was overwritten: out_offs     *)
(* follows.                                                                *)
AdvanceOut(b) == [b EXCEPT !.out_offs = IF b.full THEN b.in_offs ELSE @]

(* Mutation: full one entry too early.                                     *)
SetFullEarly(b) == [b EXCEPT !.full = NextOffset(b.in_offs) = b.out_offs]

SetFull(b) == [b EXCEPT !.full = b.in_offs = b.out_offs]

(* Mutation: the entry is stored after in_offs was advanced.               *)
AddEntryLate(b, e) == SetFull(AdvanceOut(StoreEntry(AdvanceIn(b), e)))

(* The whole function.  It returns NULL on every path.                     *)
aesd_circular_buffer_add_entry(b, e) ==
  SetFull(AdvanceOut(AdvanceIn(StoreEntry(b, e))))
=============================================================================
