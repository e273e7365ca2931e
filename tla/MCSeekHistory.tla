--------------------------- MODULE MCSeekHistory ---------------------------
(* CharDriverSeekHistory with the constants of MCCharDriver.               *)
EXTENDS CharDriverSeekHistory, MCCharDriver
=============================================================================
