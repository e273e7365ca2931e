---------------------------- MODULE MCCharDriver ----------------------------
(* Values of the constants of CharDriver for TLC.                          *)
EXTENDS CharDriver

CONSTANTS p, q, r, a, b

(* "a\n" and "b" complete and start a command; in "\nb" the last byte      *)
(* comes after the newline.                                                *)
MCChunks == {<<a, NL>>, <<b>>, <<NL, b>>}

(* p writes, seeks and reads; q only reads and seeks.                      *)
OneWriter == p :> {"write", "read", "ioctl"} @@ q :> {"read", "llseek"}

(* Both write, one of them reads.                                          *)
TwoWriters == p :> {"write"} @@ q :> {"write", "read"}

(* p writes while q seeks with the ioctl.                                  *)
WriterAndSeeker == p :> {"write"} @@ q :> {"ioctl"}

(* p writes while q makes every other call.                                *)
WriterAndReader == p :> {"write"} @@ q :> {"read", "llseek", "ioctl"}

(* One writes, one reads, one seeks with llseek.                           *)
ThreeUsers == p :> {"write"} @@ q :> {"read"} @@ r :> {"llseek"}

MinusOneToOne == -1 .. 1

(* One command and one partial command.                                    *)
TwoChunks == {<<a, NL>>, <<b>>}

(* Complete commands only.                                                 *)
WholeLines == {<<a, NL>>}

(* Commands 0 to 2 (of at most 2), offsets inside and just behind.         *)
MCSeekTos == [write_cmd : {0, 1, 2}, write_cmd_offset : {1, 2}]
=============================================================================
