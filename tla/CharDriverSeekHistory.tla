----------------------- MODULE CharDriverSeekHistory -----------------------
(***************************************************************************)
(* CharDriver with a history variable: the positions the seek ioctl could  *)
(* have answered, had it looked at the buffer in one instant of its call.  *)
(***************************************************************************)
EXTENDS CharDriver

VARIABLE answers  (* answers[r]: those positions, {} if r's seek began     *)
                  (* in the middle of an add_entry and is not judged       *)

hvars == <<vars, answers>>

Answer(r) ==
  aesd_circular_buffer_find_position(Settled, local[r].write_cmd, local[r].internal)

Record(r) ==
  LET begins == pc[r] \notin Walking
  IN  CASE pc'[r] \notin Walking -> {}
        [] begins /\ (\A w \in Procs : pc[w] \notin Adding) -> {Answer(r)'}
        [] ~begins /\ answers[r] # {} -> answers[r] \cup {Answer(r)'}
        [] OTHER -> {}

HInit == Init /\ answers = [r \in Procs |-> {}]
HNext == Next /\ answers' = [r \in Procs |-> Record(r)]
HSpec == HInit /\ [][HNext]_hvars

(* The ioctl is described as a seek to "The zero referenced write command" *)
(* (aesd_ioctl.h:27): the position it stores is the one of that command in *)
(* some state the device was in during the call.                           *)
SeekFindsTheCommand ==
  [][\A r \in Procs : pc[r] \in Walking /\ pc'[r] = "idle" /\ answers[r] # {}
       => f_pos'[r] \in answers[r]]_hvars
=============================================================================
