------------------------------ MODULE TftpAbs -------------------------------
(* What a transfer promises: the receiving side gets the blocks of the file  *)
(* one by one and in order, each once, and success is reported only when it  *)
(* has them all.  Blocks may still arrive after a failure was reported.      *)
EXTENDS Naturals, Sequences

CONSTANT File
VARIABLES received, status

Init == received = <<>> /\ status = "busy"

Store ==
    /\ Len(received) < Len(File)
    /\ received' = Append(received, File[Len(received) + 1])

Report ==
    /\ status = "busy"
    /\ \/ status' = "error"
       \/ status' = "ok" /\ received' = File

Next ==
    \/ Store /\ (UNCHANGED status \/ Report)
    \/ UNCHANGED received /\ Report

Spec == Init /\ [][Next]_<<received, status>>
=============================================================================
