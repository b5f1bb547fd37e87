------------------------------- MODULE MCLink -------------------------------
(* Link with three commands, the first one too long for cmd_buf. *)
EXTENDS Link

MCLengths == <<4,2,1>>
=============================================================================
