--------------------------- MODULE MCSocketServer ---------------------------
(* Values of the constants of SocketServer for TLC.                        *)
EXTENDS SocketServer, TLC

CONSTANTS c, d, e, x, y

(* c sends a long line, d a short one.                                     *)
TwoLines == c :> <<x, x, NL>> @@ d :> <<y, NL>>

(* e seeks to the second byte of the oldest command.                       *)
Oldest1 == [write_cmd |-> 0, write_cmd_offset |-> 1]
MCSeekTos == {Oldest1}
TwoLinesAndSeek == TwoLines @@ e :> <<Oldest1>>
=============================================================================
