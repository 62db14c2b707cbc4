---------------------------- MODULE RequestQueue ----------------------------
(***************************************************************************)
(* What a session promises its callers: requests are served one at a time  *)
(* in the order in which they were queued; a result goes to the request    *)
(* being served and to no other; a request is finished once, after its     *)
(* last result.  A session that is lost leaves its requests unfinished.    *)
(***************************************************************************)
EXTENDS Naturals, Sequences

CONSTANTS Requests

VARIABLES pending,   \* the requests queued and not finished, oldest first
          results,   \* how many results each request has
          finished   \* the requests that are finished

vars == <<pending, results, finished>>

Init == /\ pending = <<>>
        /\ results = [r \in Requests |-> 0]
        /\ finished = {}

Submit == \E r \in Requests \ finished :
    /\ \A i \in 1..Len(pending) : pending[i] # r
    /\ pending' = Append(pending, r)
    /\ UNCHANGED <<results, finished>>

Result == /\ pending # <<>>
          /\ results' = [results EXCEPT ![Head(pending)] = @ + 1]
          /\ UNCHANGED <<pending, finished>>

Finish == /\ pending # <<>>
          /\ finished' = finished \cup {Head(pending)}
          /\ pending' = Tail(pending)
          /\ UNCHANGED results

Lose == pending' = <<>> /\ UNCHANGED <<results, finished>>

Next == Submit \/ Result \/ Finish \/ Lose

Spec == Init /\ [][Next]_vars
=============================================================================
