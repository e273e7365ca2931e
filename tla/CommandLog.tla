----------------------------- MODULE CommandLog -----------------------------
(***************************************************************************)
(* What the aesd circular buffer promises, without its array: it remembers *)
(* the last MaxOps entries it was given, oldest first, and forgets the     *)
(* oldest when a new one does not fit (the comment above                   *)
(* aesd_circular_buffer_add_entry).                                        *)
(***************************************************************************)
EXTENDS Naturals, Sequences

CONSTANTS
  MaxOps,   (* AESDCHAR_MAX_WRITE_OPERATIONS_SUPPORTED             *)
  Entries   (* what an entry can be                                *)

VARIABLE log  (* the remembered entries, oldest first *)

LogInit == log = <<>>

(* The log after an entry was pushed: the oldest one gives way.            *)
Pushed(s, e) == Append(IF Len(s) < MaxOps THEN s ELSE Tail(s), e)

Push(e) == log' = Pushed(log, e)

LogNext == \E e \in Entries : Push(e)

LogSpec == LogInit /\ [][LogNext]_log
=============================================================================
