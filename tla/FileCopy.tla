------------------------------ MODULE FileCopy ------------------------------
(***************************************************************************)
(* What a connection promises its user about the files it carries: they    *)
(* arrive whole, unchanged and in the order they were sent.                *)
(***************************************************************************)
EXTENDS Naturals, Sequences

VARIABLES files,     \* the files to transfer
          received   \* the files received and closed

Init == received = <<>>

Deliver == /\ Len(received) < Len(files)
           /\ received' = Append(received, files[Len(received) + 1])
           /\ UNCHANGED files

Spec == Init /\ [][Deliver]_<<files, received>> /\ WF_<<files, received>>(Deliver)
=============================================================================
