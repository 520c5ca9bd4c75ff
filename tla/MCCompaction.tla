---------------------------- MODULE MCCompaction ----------------------------
(* Results of tools are the longest messages.                              *)
EXTENDS Compaction
MCSize == [kind \in Messages |-> IF kind = "result" THEN 2 ELSE 1]
=============================================================================
