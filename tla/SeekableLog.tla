---------------------------- MODULE SeekableLog ----------------------------
(***************************************************************************)
(* What /dev/aesdchar promises its users, each system call one atomic      *)
(* step: a log of the last MaxOps commands, the bytes written since the    *)
(* last newline, and one position per open file.  CharDriver is shown to   *)
(* implement it; SocketServer uses it.                                     *)
(***************************************************************************)
EXTENDS Integers, Sequences, SequencesExt

CONSTANTS
  Procs,    (* the processes, each with at most one open file              *)
  MaxOps,   (* AESDCHAR_MAX_WRITE_OPERATIONS_SUPPORTED                     *)
  NL,       (* the newline byte                                            *)
  Chunks,   (* what a write may carry                                      *)
  Counts,   (* how much a read may ask for                                 *)
  SeekOffs, (* offsets of llseek                                           *)
  SeekTos   (* [write_cmd, write_cmd_offset] of the seek ioctl             *)

VARIABLES
  log,      (* the remembered commands, oldest first                       *)
  partial,  (* bytes written since the last newline                        *)
  pos,      (* pos[p]: the file position of p                              *)
  got       (* got[p]: what the last read of p returned                    *)

vars == <<log, partial, pos, got>>

Log == INSTANCE CommandLog WITH Entries <- Seq(UNION {ToSet(c) : c \in Chunks})

(* How many bytes precede command k + 1.                                   *)
Start(k) == Len(FlattenSeq(SubSeq(log, 1, k)))

(* What a read at position at returns: bytes of the one command it lies in,*)
(* nothing beyond the last command.                                        *)
Served(at, count) ==
  LET here == {k \in 1 .. Len(log) : Start(k - 1) <= at /\ at < Start(k)}
      k    == CHOOSE j \in here : TRUE
      from == at - Start(k - 1)
  IN  IF here = {} THEN <<>>
      ELSE SubSeq(log[k], from + 1, Min({Len(log[k]), from + count}))

LastNewline(c) == Max({0} \cup {i \in 1 .. Len(c) : c[i] = NL})

SInit ==
  /\ log = <<>> /\ partial = <<>>
  /\ pos = [p \in Procs |-> 0]
  /\ got = [p \in Procs |-> <<>>]

(* A chunk that holds a newline completes the command; behind a partial    *)
(* command its bytes after the last newline are dropped.                   *)
Write(c) ==
  LET nl   == LastNewline(c)
      kept == IF partial = <<>> \/ nl = 0 THEN c ELSE SubSeq(c, 1, nl)
  IN  /\ IF nl = 0 THEN log' = log /\ partial' = partial \o kept
                   ELSE log' = Log!Pushed(log, partial \o kept) /\ partial' = <<>>
      /\ UNCHANGED <<pos, got>>

Read(p, count) ==
  /\ got' = [got EXCEPT ![p] = Served(pos[p], count)]
  /\ pos' = [pos EXCEPT ![p] = @ + Len(Served(pos[p], count))]
  /\ UNCHANGED <<log, partial>>

(* The result of a read is consumed before the next call.                  *)
Consume(p) == got' = [got EXCEPT ![p] = <<>>] /\ UNCHANGED <<log, partial, pos>>

Llseek(p, newpos) ==
  /\ newpos >= 0
  /\ pos' = [pos EXCEPT ![p] = newpos]
  /\ UNCHANGED <<log, partial, got>>

SeekTo(p, s) ==
  /\ pos' = [pos EXCEPT ![p] =
               IF s.write_cmd >= Len(log) THEN Start(Len(log))
               ELSE Start(s.write_cmd)
                      + (IF s.write_cmd_offset <= Len(log[s.write_cmd + 1])
                         THEN s.write_cmd_offset ELSE 0)]
  /\ UNCHANGED <<log, partial, got>>

Open(p) ==
  /\ pos' = [pos EXCEPT ![p] = 0]
  /\ got' = [got EXCEPT ![p] = <<>>]
  /\ UNCHANGED <<log, partial>>

(* The module is removed and loaded again: everything is forgotten.  No    *)
(* file is open then, and the positions of no file are 0.                  *)
Reload ==
  /\ \A p \in Procs : pos[p] = 0 /\ got[p] = <<>>
  /\ log' = <<>> /\ partial' = <<>>
  /\ UNCHANGED <<pos, got>>

SNext ==
  \/ Reload
  \/ \E c \in Chunks : Write(c)
  \/ \E p \in Procs :
       \/ Consume(p) \/ Open(p)
       \/ \E count \in Counts : Read(p, count)
       \/ \E off \in SeekOffs : Llseek(p, off) \/ Llseek(p, pos[p] + off)
       \/ \E s \in SeekTos : SeekTo(p, s)

SSpec == SInit /\ [][SNext]_vars
=============================================================================
