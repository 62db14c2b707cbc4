------------------------------- MODULE MCJava -------------------------------
(***************************************************************************)
(* Two threads share a session; one of them makes a second request.        *)
(***************************************************************************)
EXTENDS JavaClient, TLC

MCRequests == ("c1" :> 2) @@ ("c2" :> 1)

OneRequest == [c \in Callers |-> 1]
=============================================================================
