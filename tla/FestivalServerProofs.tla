------------------------ MODULE FestivalServerProofs ------------------------
(***************************************************************************)
(* For every number of clients, process ids, other children and every      *)
(* limit: the types of the accept loop, what its count of clients counts,  *)
(* and how many client processes the server can have.                      *)
(***************************************************************************)
EXTENDS FestivalServer, FiniteSetTheorems, TLAPS

\* What the children can be: only a child that was there before the loop can
\* be lost, and where the kernel reaps there is neither a zombie nor a loss.
KidsSound ==
    /\ \A p \in Pids \ OtherKids : kid[p] # "lost"
    /\ sigchld = "ignored" => \A p \in Pids : kid[p] \notin {"zombie", "lost"}

\* The parent holds a connection exactly while it handles one, and the types
\* say so; the count is what bounds the processes.
IInv == TypeOK /\ KidsSound /\ CounterSound /\ LimitRespected

\* The sets that are counted are finite.
LEMMA KidsFinite ==
    /\ IsFiniteSet(ClientKids) /\ IsFiniteSet(LostKids)
    /\ Cardinality(ClientKids) \in Nat /\ Cardinality(LostKids) \in Nat
<1>1. IsFiniteSet(Pids) /\ ClientKids \subseteq Pids /\ LostKids \subseteq Pids
  BY ServerAssumption DEF ClientKids, LostKids
<1> QED
  BY <1>1, FS_Subset, FS_CardinalityType

\* The limit the loop computes is a number.
LEMMA MaxClientsType == MaxClients \in Nat
  BY ServerAssumption DEF MaxClients

\* A step that moves no child and no count keeps the counting invariants.
LEMMA CountsKept ==
    ASSUME IInv, UNCHANGED <<num_clients, sigchld, kid>>, pc # "dead" \/ pc' = pc
    PROVE  KidsSound' /\ CounterSound' /\ LimitRespected'
<1>1. ClientKids' = ClientKids /\ LostKids' = LostKids
  BY DEF ClientKids, LostKids
<1>2. KidsSound'
  BY DEF IInv, KidsSound
<1>3. CounterSound'
  BY <1>1 DEF IInv, CounterSound
<1>4. LimitRespected'
  BY <1>1 DEF IInv, LimitRespected, MaxClients
<1> QED
  BY <1>2, <1>3, <1>4

\* The initial states satisfy the inductive invariant.
LEMMA InitIInv == Init => IInv
<1> SUFFICES ASSUME Init PROVE IInv
  OBVIOUS
<1>1. TypeOK
  BY ServerAssumption DEF Init, TypeOK
<1>2. KidsSound
  BY ServerAssumption DEF Init, KidsSound
<1>3. ClientKids = {} /\ LostKids = {}
  BY ServerAssumption DEF Init, ClientKids, LostKids
<1>4. Cardinality({}) = 0
  BY FS_EmptySet
<1>5. CounterSound
  BY <1>3, <1>4 DEF Init, CounterSound
<1>6. LimitRespected
  BY <1>3, <1>4, MaxClientsType DEF LimitRespected
<1> QED
  BY <1>1, <1>2, <1>5, <1>6 DEF IInv

\* A fork adds one process and one to the count, below the limit.
LEMMA ForkIInv == ASSUME IInv, Fork PROVE IInv'
<1> USE ServerAssumption
<1>1. PICK c \in Clients, p \in Pids \ OtherKids :
         /\ fd1 = <<c>> /\ kid[p] = "none"
         /\ kid' = [kid EXCEPT ![p] = "running"]
         /\ conn' = [conn EXCEPT ![c] = p]
  BY DEF Fork
<1>2. TypeOK'
  BY <1>1 DEF IInv, TypeOK, Fork
<1>3. KidsSound'
  BY <1>1 DEF IInv, TypeOK, KidsSound, Fork
<1>4. ClientKids' = ClientKids \cup {p} /\ p \notin ClientKids
  BY <1>1 DEF IInv, TypeOK, ClientKids
<1>5. LostKids' = LostKids
  BY <1>1 DEF IInv, TypeOK, LostKids
<1>6. Cardinality(ClientKids') = Cardinality(ClientKids) + 1
  BY <1>4, KidsFinite, FS_AddElement
<1>7. num_clients \in Nat /\ num_clients' = num_clients + 1
      /\ num_clients + 1 <= MaxClients /\ sigchld' = sigchld /\ pc = "limit"
  BY DEF IInv, TypeOK, Fork
<1>8. sigchld = "ignored" => LostKids = {}
  BY DEF IInv, KidsSound, LostKids
<1>9. CounterSound'
  BY <1>5, <1>6, <1>7, KidsFinite DEF IInv, CounterSound
<1>10. LimitRespected'
  <2>1. Cardinality(ClientKids) + 1 <= MaxClients + Cardinality(LostKids)
    BY <1>7, KidsFinite, MaxClientsType DEF IInv, CounterSound
  <2>2. MaxClients' = MaxClients
    BY DEF MaxClients
  <2> QED
    BY <2>1, <2>2, <1>5, <1>6 DEF LimitRespected
<1> QED
  BY <1>2, <1>3, <1>9, <1>10 DEF IInv

\* Reaping a zombie frees a client's process, or loses an other child.
LEMMA ReapOneIInv == ASSUME IInv, ReapOne PROVE IInv'
<1> USE ServerAssumption
<1>1. PICK p \in Pids :
         /\ kid[p] = "zombie"
         /\ kid' = [kid EXCEPT ![p] = IF p \in OtherKids THEN "lost" ELSE "none"]
  BY DEF ReapOne, Zombies
<1>2. TypeOK'
  BY <1>1 DEF IInv, TypeOK, ReapOne
<1>3. sigchld # "ignored"
  BY <1>1 DEF IInv, KidsSound
<1>4. KidsSound'
  BY <1>1, <1>3 DEF IInv, TypeOK, KidsSound, ReapOne
<1>5. num_clients \in Nat /\ num_clients' = num_clients - 1
      /\ sigchld' = sigchld /\ pc = "reap"
  BY DEF IInv, TypeOK, ReapOne
<1>6. MaxClients' = MaxClients /\ MaxClients \in Nat
  BY MaxClientsType DEF MaxClients
<1>7. CASE p \in OtherKids
  <2>1. ClientKids' = ClientKids
    BY <1>1, <1>7 DEF IInv, TypeOK, ClientKids
  <2>2. LostKids' = LostKids \cup {p} /\ p \notin LostKids
    BY <1>1, <1>7 DEF IInv, TypeOK, LostKids
  <2>3. Cardinality(LostKids') = Cardinality(LostKids) + 1
    BY <2>2, KidsFinite, FS_AddElement
  <2>4. CounterSound' /\ LimitRespected'
    BY <2>1, <2>3, <1>3, <1>5, <1>6, KidsFinite
    DEF IInv, CounterSound, LimitRespected
  <2> QED
    BY <2>4, <1>2, <1>4 DEF IInv
<1>8. CASE p \notin OtherKids
  <2>1. ClientKids' = ClientKids \ {p} /\ p \in ClientKids
    BY <1>1, <1>8 DEF IInv, TypeOK, ClientKids
  <2>2. LostKids' = LostKids
    BY <1>1, <1>8 DEF IInv, TypeOK, LostKids
  <2>3. Cardinality(ClientKids') = Cardinality(ClientKids) - 1
    BY <2>1, KidsFinite, FS_RemoveElement
  <2>4. CounterSound' /\ LimitRespected'
    BY <2>2, <2>3, <1>3, <1>5, <1>6, KidsFinite
    DEF IInv, CounterSound, LimitRespected
  <2> QED
    BY <2>4, <1>2, <1>4 DEF IInv
<1> QED
  BY <1>7, <1>8

\* waitpid fails only when no client child is left: the count then had
\* something to give back.
LEMMA ReapNoChildIInv == ASSUME IInv, ReapNoChild PROVE IInv'
<1> USE ServerAssumption
<1>1. ClientKids = {}
  BY DEF IInv, TypeOK, KidsSound, ReapNoChild, Running, Zombies, ClientKids
<1>2. ClientKids' = ClientKids /\ LostKids' = LostKids
  BY DEF ReapNoChild, ClientKids, LostKids
<1>3. Cardinality(ClientKids) = 0
  BY <1>1, FS_EmptySet
<1>4. num_clients \in Nat /\ num_clients > 0 /\ num_clients' = num_clients - 1
      /\ sigchld' = sigchld /\ pc = "reap"
  BY DEF IInv, TypeOK, ReapNoChild
<1>5. sigchld = "ignored"
  BY <1>3, <1>4, KidsFinite DEF IInv, CounterSound
<1>6. TypeOK'
  BY <1>4 DEF IInv, TypeOK, ReapNoChild
<1>7. KidsSound'
  BY DEF IInv, KidsSound, ReapNoChild
<1>8. CounterSound'
  BY <1>2, <1>3, <1>4, <1>5 DEF CounterSound
<1>9. LimitRespected'
  BY <1>2 DEF IInv, LimitRespected, MaxClients
<1> QED
  BY <1>6, <1>7, <1>8, <1>9 DEF IInv

\* A child that exits is a zombie, still counted, or is gone at once.
LEMMA KidExitIInv ==
    ASSUME IInv, NEW p \in Pids, KidExit(p) PROVE IInv'
<1> USE ServerAssumption
<1>1. TypeOK'
  BY DEF IInv, TypeOK, KidExit
<1>2. KidsSound'
  BY DEF IInv, TypeOK, KidsSound, KidExit
<1>3. LostKids' = LostKids
  BY DEF IInv, TypeOK, KidExit, LostKids
<1>4. ClientKids' \subseteq ClientKids
  BY DEF IInv, TypeOK, KidExit, ClientKids
<1>5. sigchld # "ignored" /\ pc # "dead" => ClientKids' = ClientKids
  BY DEF IInv, TypeOK, KidExit, ClientKids
<1>6. Cardinality(ClientKids') <= Cardinality(ClientKids)
      /\ Cardinality(ClientKids') \in Nat
  BY <1>4, KidsFinite, FS_Subset, FS_CardinalityType
<1>7. num_clients \in Nat /\ num_clients' = num_clients
      /\ sigchld' = sigchld /\ pc' = pc
  BY DEF IInv, TypeOK, KidExit
<1>8. CounterSound'
  BY <1>3, <1>5, <1>6, <1>7, KidsFinite DEF IInv, CounterSound
<1>9. LimitRespected'
  <2>1. MaxClients' = MaxClients /\ MaxClients \in Nat
    BY MaxClientsType DEF MaxClients
  <2> QED
    BY <2>1, <1>3, <1>6, KidsFinite DEF IInv, LimitRespected
<1> QED
  BY <1>1, <1>2, <1>8, <1>9 DEF IInv

\* The zombies go with the parent, and nobody counts any more.
LEMMA AcceptFailsIInv == ASSUME IInv, AcceptFails PROVE IInv'
<1> USE ServerAssumption
<1>1. /\ pc' = "dead" /\ UNCHANGED <<fd1, num_clients, sent, sigchld>>
      /\ kid' = [p \in Pids |-> IF kid[p] = "zombie" THEN "none" ELSE kid[p]]
      /\ queue' = <<>> \/ queue' = queue
      /\ \/ conn' = conn
         \/ conn' = [c \in Clients |-> IF Queued(c) THEN "closed" ELSE conn[c]]
  BY DEF AcceptFails
<1>2. fd1 = <<>>
  BY DEF IInv, TypeOK, AcceptFails
<1>3. TypeOK'
  <2>1. queue' \in Seq(Clients)
    <3>1. <<>> \in Seq(Clients) /\ queue \in Seq(Clients)
      BY DEF IInv, TypeOK
    <3> QED
      BY <1>1, <3>1
  <2>2. conn' \in [Clients -> {"idle", "waiting", "closed"} \cup Pids]
    BY <1>1 DEF IInv, TypeOK
  <2>3. kid' \in [Pids -> {"none", "running", "zombie", "lost"}]
    BY <1>1 DEF IInv, TypeOK
  <2> QED
    BY <1>1, <1>2, <2>1, <2>2, <2>3 DEF IInv, TypeOK
<1>4. KidsSound'
  BY <1>1 DEF IInv, TypeOK, KidsSound
<1>5. CounterSound'
  BY <1>1 DEF CounterSound
<1>6. ClientKids' \subseteq ClientKids /\ LostKids' = LostKids /\ MaxClients' = MaxClients
  BY <1>1 DEF IInv, TypeOK, ClientKids, LostKids, MaxClients
<1>7. Cardinality(ClientKids') <= Cardinality(ClientKids)
      /\ Cardinality(ClientKids') \in Nat
  BY <1>6, KidsFinite, FS_Subset, FS_CardinalityType
<1>8. LimitRespected'
  BY <1>6, <1>7, KidsFinite, MaxClientsType DEF IInv, LimitRespected
<1> QED
  BY <1>3, <1>4, <1>5, <1>8 DEF IInv

\* Every step of the parent, a client or a child keeps the invariant.
LEMMA NextIInv == IInv /\ [Next]_vars => IInv'
<1> SUFFICES ASSUME IInv, [Next]_vars PROVE IInv'
  OBVIOUS
<1> USE ServerAssumption
<1>1. ASSUME NEW c \in Clients, Connect(c) PROVE IInv'
  <2>1. TypeOK'
    BY <1>1 DEF IInv, TypeOK, Connect
  <2> QED
    BY <1>1, <2>1, CountsKept DEF Connect, IInv
<1>2. ASSUME NEW c \in Clients, SendPasswd(c) PROVE IInv'
  <2>1. TypeOK'
    BY <1>2 DEF IInv, TypeOK, SendPasswd
  <2> QED
    BY <1>2, <2>1, CountsKept DEF SendPasswd, IInv
<1>3. ASSUME NEW c \in Clients, HangUp(c) PROVE IInv'
  <2>1. TypeOK'
    BY <1>3 DEF IInv, TypeOK, HangUp
  <2> QED
    BY <1>3, <2>1, CountsKept DEF HangUp, IInv
<1>4. CASE Accept
  <2>1. TypeOK'
    BY <1>4 DEF IInv, TypeOK, Accept
  <2> QED
    BY <1>4, <2>1, CountsKept DEF Accept, IInv
<1>5. CASE client_access_check
  <2>1. UNCHANGED <<num_clients, sigchld, kid>> /\ pc # "dead"
    BY <1>5 DEF client_access_check, Reject, Admit
  <2>2. TypeOK'
    BY <1>5 DEF IInv, TypeOK, client_access_check, Reject, Admit
  <2> QED
    BY <2>1, <2>2, CountsKept DEF IInv
<1>6. CASE TooMany \/ ForkFails \/ ReapDone
  <2>1. TypeOK' /\ UNCHANGED <<num_clients, sigchld, kid>> /\ pc # "dead"
    BY <1>6 DEF IInv, TypeOK, TooMany, ForkFails, ReapDone
  <2> QED
    BY <2>1, CountsKept DEF IInv
<1>7. CASE Fork
  BY <1>7, ForkIInv
<1>8. CASE ReapOne
  BY <1>8, ReapOneIInv
<1>9. CASE ReapNoChild
  BY <1>9, ReapNoChildIInv
<1>10. CASE Close
  <2>1. TypeOK'
    BY <1>10 DEF IInv, TypeOK, Close
  <2> QED
    BY <1>10, <2>1, CountsKept DEF Close, IInv
<1>11. ASSUME NEW p \in Pids, KidExit(p) PROVE IInv'
  BY <1>11, KidExitIInv
<1>12. CASE UNCHANGED vars
  <2>1. TypeOK'
    BY <1>12 DEF vars, IInv, TypeOK
  <2> QED
    BY <1>12, <2>1, CountsKept DEF vars, IInv
<1>13. CASE AcceptFails
  BY <1>13, AcceptFailsIInv
<1> QED
  BY <1>1, <1>2, <1>3, <1>4, <1>5, <1>6, <1>7, <1>8, <1>9, <1>10, <1>11, <1>12, <1>13
  DEF Next, Server

\* The inductive invariant holds in every reachable state.
THEOREM Invariance == Spec => []IInv
  BY InitIInv, NextIInv, PTL DEF Spec

\* Type correctness of the accept loop: among others num_clients never goes
\* below zero, whatever waitpid(0,...) returns.
THEOREM TypeCorrect == Spec => []TypeOK
<1>1. IInv => TypeOK
  BY DEF IInv
<1> QED
  BY <1>1, Invariance, PTL

\* What num_clients counts: the unreaped client children less the other
\* children that were reaped in their place.
THEOREM CounterIsSound == Spec => []CounterSound
<1>1. IInv => CounterSound
  BY DEF IInv
<1> QED
  BY <1>1, Invariance, PTL

\* The server never has more than max_clients client processes, plus one for
\* every stranger the reaping loop took for a client's child.
THEOREM LimitIsRespected == Spec => []LimitRespected
<1>1. IInv => LimitRespected
  BY DEF IInv
<1> QED
  BY <1>1, Invariance, PTL

-----------------------------------------------------------------------------
(***************************************************************************)
(* Where the connections are.  While the parent checks access or the       *)
(* limit, its client waits and is not in the queue; after the fork it may  *)
(* have gone, come back and be queued again while the parent still holds   *)
(* the old descriptor.                                                     *)
(***************************************************************************)
Apart ==
    pc \in {"access", "limit"} =>
        \A c \in Clients : fd1 = <<c>> => conn[c] = "waiting" /\ ~Queued(c)

\* The parts of OnePlaceEach.
WaitSomewhere == \A c \in Clients : conn[c] = "waiting" => Queued(c) \/ fd1 = <<c>>
QueueWaits    == \A i \in 1..Len(queue) : conn[queue[i]] = "waiting"
QueuedOnce    == \A i, j \in 1..Len(queue) : queue[i] = queue[j] => i = j
OwnKid        == \A c, d \in Clients :
                    conn[c] \in Pids => /\ kid[conn[c]] = "running"
                                        /\ conn[c] = conn[d] => c = d

PInv == TypeOK /\ Apart /\ WaitSomewhere /\ QueueWaits /\ QueuedOnce /\ OwnKid

\* A step that leaves descriptors, queue and connections alone, and takes no
\* running child, keeps every connection's place.
LEMMA PlacesKept ==
    ASSUME PInv, TypeOK', UNCHANGED <<fd1, queue, conn>>,
           pc' \in {"access", "limit"} => pc \in {"access", "limit"},
           \A p \in Pids : kid[p] = "running" => kid'[p] = "running"
    PROVE  PInv'
<1>1. Apart' /\ WaitSomewhere' /\ QueueWaits' /\ QueuedOnce'
  BY DEF PInv, Apart, WaitSomewhere, QueueWaits, QueuedOnce, Queued
<1>2. OwnKid'
  BY DEF PInv, OwnKid
<1> QED
  BY <1>1, <1>2 DEF PInv

\* A client that connects joins the queue, where it was not before.
LEMMA ConnectPlaces ==
    ASSUME PInv, TypeOK', NEW c \in Clients, Connect(c) PROVE PInv'
<1> USE ServerAssumption
<1>1. /\ conn[c] = "idle" /\ queue' = Append(queue, c) /\ queue \in Seq(Clients)
      /\ conn' = [conn EXCEPT ![c] = "waiting"] /\ conn \in [Clients -> {"idle", "waiting", "closed"} \cup Pids]
      /\ UNCHANGED <<pc, fd1, kid>>
  BY DEF PInv, TypeOK, Connect
<1>2. /\ Len(queue') = Len(queue) + 1 /\ Len(queue) \in Nat
      /\ \A i \in 1..Len(queue) : queue'[i] = queue[i]
      /\ queue'[Len(queue) + 1] = c
  BY <1>1
<1>3. \A i \in 1..Len(queue) : queue[i] # c
  BY <1>1 DEF PInv, QueueWaits
<1>4. \A d \in Clients : Queued(d)' <=> Queued(d) \/ d = c
  BY <1>2 DEF Queued
<1>5. Apart'
  BY <1>1, <1>4 DEF PInv, Apart
<1>6. WaitSomewhere'
  BY <1>1, <1>4 DEF PInv, WaitSomewhere
<1>7. QueueWaits'
  <2> SUFFICES ASSUME NEW i \in 1..(Len(queue) + 1) PROVE conn'[queue'[i]] = "waiting"
    BY <1>2 DEF QueueWaits
  <2>1. CASE i = Len(queue) + 1
    BY <2>1, <1>1, <1>2
  <2>2. CASE i \in 1..Len(queue)
    BY <2>2, <1>1, <1>2, <1>3 DEF PInv, QueueWaits
  <2> QED
    BY <2>1, <2>2, <1>2
<1>8. QueuedOnce'
  BY <1>2, <1>3 DEF PInv, QueuedOnce
<1>9. OwnKid'
  BY <1>1 DEF PInv, OwnKid
<1> QED
  BY <1>5, <1>6, <1>7, <1>8, <1>9 DEF PInv

\* A connection that is no longer waited for, nor in the queue, has one place
\* less to be in.
LEMMA LetGo ==
    ASSUME PInv, TypeOK', NEW c \in Clients, NEW s \in {"idle", "closed"},
           ~Queued(c), conn' = [conn EXCEPT ![c] = s],
           conn[c] = "waiting" => pc' \notin {"access", "limit"},
           pc' \in {"access", "limit"} => fd1' = fd1 /\ pc \in {"access", "limit"},
           \A d \in Clients : d # c /\ fd1 = <<d>> => fd1' = fd1,
           UNCHANGED <<queue, kid>>
    PROVE  PInv'
<1> USE ServerAssumption
<1>1. conn \in [Clients -> {"idle", "waiting", "closed"} \cup Pids] /\ queue \in Seq(Clients)
  BY DEF PInv, TypeOK
<1>2. \A d \in Clients : Queued(d)' <=> Queued(d)
  BY DEF Queued
<1>3. Apart'
  BY <1>1, <1>2 DEF PInv, Apart
<1>4. WaitSomewhere'
  BY <1>1, <1>2 DEF PInv, WaitSomewhere
<1>5. QueueWaits'
  BY <1>1 DEF PInv, QueueWaits, Queued
<1>6. QueuedOnce'
  BY DEF PInv, QueuedOnce
<1>7. OwnKid'
  BY <1>1 DEF PInv, OwnKid
<1> QED
  BY <1>3, <1>4, <1>5, <1>6, <1>7 DEF PInv

\* accept() takes the first in the queue, who is there once.
LEMMA AcceptPlaces == ASSUME PInv, TypeOK', Accept PROVE PInv'
<1> USE ServerAssumption
<1>0. PICK c \in Clients : queue # <<>> /\ c = Head(queue)
  BY DEF PInv, TypeOK, Accept
<1>1. /\ queue \in Seq(Clients) /\ queue # <<>>
      /\ queue' = Tail(queue) /\ fd1' = <<c>> /\ fd1 = <<>>
      /\ UNCHANGED <<conn, kid>>
  BY <1>0 DEF PInv, TypeOK, Accept
<1>2. /\ Len(queue) \in Nat /\ Len(queue') = Len(queue) - 1 /\ queue[1] = c
      /\ \A i \in 1..Len(queue') : queue'[i] = queue[i + 1]
  BY <1>0, <1>1
<1>3. ~Queued(c)'
  BY <1>2 DEF PInv, QueuedOnce, Queued
<1>4. ASSUME NEW d \in Clients, Queued(d) PROVE Queued(d)' \/ d = c
  <2>1. PICK i \in 1..Len(queue) : queue[i] = d
    BY <1>4 DEF Queued
  <2>2. CASE i = 1
    BY <2>1, <2>2, <1>2
  <2>3. CASE i # 1
    <3>1. i - 1 \in 1..Len(queue') /\ queue'[i - 1] = d
      BY <2>1, <2>3, <1>2
    <3> QED
      BY <3>1 DEF Queued
  <2> QED
    BY <2>2, <2>3
<1>5. conn[c] = "waiting"
  BY <1>1, <1>2 DEF PInv, QueueWaits
<1>6. Apart'
  BY <1>1, <1>3, <1>5 DEF Apart
<1>7. WaitSomewhere'
  BY <1>1, <1>4 DEF PInv, WaitSomewhere
<1>8. QueueWaits' /\ QueuedOnce'
  BY <1>1, <1>2 DEF PInv, QueueWaits, QueuedOnce
<1>9. OwnKid'
  BY <1>1 DEF PInv, OwnKid
<1> QED
  BY <1>6, <1>7, <1>8, <1>9 DEF PInv

\* A fork hands the connection to a child that nobody else has.
LEMMA ForkPlaces == ASSUME PInv, TypeOK', Fork PROVE PInv'
<1> USE ServerAssumption
<1>1. PICK c \in Clients, p \in Pids \ OtherKids :
         /\ fd1 = <<c>> /\ kid[p] = "none"
         /\ kid' = [kid EXCEPT ![p] = "running"]
         /\ conn' = [conn EXCEPT ![c] = p]
  BY DEF Fork
<1>2. /\ conn \in [Clients -> {"idle", "waiting", "closed"} \cup Pids] /\ queue \in Seq(Clients)
      /\ kid \in [Pids -> {"none", "running", "zombie", "lost"}]
      /\ pc = "limit" /\ pc' = "reap" /\ UNCHANGED <<fd1, queue>>
  BY DEF PInv, TypeOK, Fork
<1>3. conn[c] = "waiting" /\ ~Queued(c)
  BY <1>1, <1>2 DEF PInv, Apart
<1>4. \A d \in Clients : Queued(d)' <=> Queued(d)
  BY <1>2 DEF Queued
<1>5. Apart'
  BY <1>2 DEF Apart
<1>6. WaitSomewhere'
  BY <1>1, <1>2, <1>4 DEF PInv, WaitSomewhere
<1>7. QueueWaits' /\ QueuedOnce'
  BY <1>1, <1>2, <1>3 DEF PInv, QueueWaits, QueuedOnce, Queued
<1>8. OwnKid'
  BY <1>1, <1>2 DEF PInv, OwnKid
<1> QED
  BY <1>5, <1>6, <1>7, <1>8 DEF PInv

\* close(fd1) answers a client that got no child and has not come back.
LEMMA ClosePlaces == ASSUME PInv, TypeOK', Close PROVE PInv'
<1> USE ServerAssumption
<1>1. /\ conn \in [Clients -> {"idle", "waiting", "closed"} \cup Pids] /\ queue \in Seq(Clients)
      /\ pc' = "accept" /\ fd1' = <<>> /\ UNCHANGED <<queue, kid>>
      /\ conn' = [c \in Clients |->
                     IF fd1 = <<c>> /\ conn[c] = "waiting" /\ ~Queued(c)
                     THEN "closed" ELSE conn[c]]
  BY DEF PInv, TypeOK, Close
<1>2. \A d \in Clients : Queued(d)' <=> Queued(d)
  BY <1>1 DEF Queued
<1>3. Apart'
  BY <1>1 DEF Apart
<1>4. WaitSomewhere'
  BY <1>1, <1>2 DEF PInv, WaitSomewhere
<1>5. QueueWaits'
  <2> SUFFICES ASSUME NEW i \in 1..Len(queue) PROVE conn'[queue[i]] = "waiting"
    BY <1>1 DEF QueueWaits
  <2>1. queue[i] \in Clients /\ Queued(queue[i]) /\ conn[queue[i]] = "waiting"
    BY <1>1 DEF PInv, QueueWaits, Queued
  <2> QED
    BY <2>1, <1>1
<1>6. QueuedOnce'
  BY <1>1 DEF PInv, QueuedOnce
<1>7. OwnKid'
  BY <1>1 DEF PInv, OwnKid
<1> QED
  BY <1>3, <1>4, <1>5, <1>6, <1>7 DEF PInv

\* When nobody listens any more the queue's connections are closed.
LEMMA ResetPlaces ==
    ASSUME PInv, TypeOK', pc' = "dead", fd1 = <<>>, UNCHANGED fd1, queue' = <<>>,
           NEW gone,
           conn' = [c \in Clients |-> IF conn[c] = gone \/ Queued(c)
                                     THEN "closed" ELSE conn[c]],
           \A p \in Pids : kid[p] = "running" /\ p # gone => kid'[p] = "running"
    PROVE  PInv'
<1> USE ServerAssumption
<1>1. /\ conn \in [Clients -> {"idle", "waiting", "closed"} \cup Pids]
      /\ Len(queue') = 0
  BY DEF PInv, TypeOK
<1>2. Apart'
  BY DEF Apart
<1>3. WaitSomewhere'
  BY <1>1 DEF PInv, WaitSomewhere
<1>4. QueueWaits' /\ QueuedOnce'
  BY <1>1 DEF QueueWaits, QueuedOnce
<1>5. OwnKid'
  BY <1>1 DEF PInv, OwnKid
<1> QED
  BY <1>2, <1>3, <1>4, <1>5 DEF PInv

\* accept() fails: nothing changes for who is served.
LEMMA AcceptFailsPlaces == ASSUME PInv, TypeOK', AcceptFails PROVE PInv'
<1> USE ServerAssumption
<1>1. /\ fd1 = <<>> /\ UNCHANGED fd1 /\ pc' = "dead"
      /\ \A p \in Pids : kid[p] = "running" => kid'[p] = "running"
  BY DEF AcceptFails, PInv, TypeOK
<1>2. CASE Running \subseteq OtherKids
  <2>1. conn \in [Clients -> {"idle", "waiting", "closed"} \cup Pids]
    BY DEF PInv, TypeOK
  <2>2. conn' = [c \in Clients |-> IF conn[c] = "closed" \/ Queued(c)
                                  THEN "closed" ELSE conn[c]]
    BY <1>2, <2>1 DEF AcceptFails
  <2>3. queue' = <<>>
    BY <1>2 DEF AcceptFails
  <2> QED
    BY <1>1, <2>2, <2>3, ResetPlaces
<1>3. CASE ~(Running \subseteq OtherKids)
  BY <1>1, <1>3, PlacesKept DEF AcceptFails
<1> QED
  BY <1>2, <1>3

\* The last child that listens takes the queue with it.
LEMMA LastListenerPlaces ==
    ASSUME PInv, TypeOK', NEW p \in Pids, KidExit(p), LastListener(p) PROVE PInv'
<1>1. /\ fd1 = <<>> /\ UNCHANGED fd1 /\ pc' = "dead" /\ queue' = <<>>
      /\ \A q \in Pids : kid[q] = "running" /\ q # p => kid'[q] = "running"
  BY DEF KidExit, LastListener, PInv, TypeOK
<1>2. conn' = [c \in Clients |-> IF conn[c] = p \/ Queued(c) THEN "closed" ELSE conn[c]]
  BY DEF KidExit
<1> QED
  BY <1>1, <1>2, ResetPlaces

\* Any other child that exits lets its connection go with it.
LEMMA KidExitPlaces ==
    ASSUME PInv, TypeOK', NEW p \in Pids, KidExit(p), ~LastListener(p) PROVE PInv'
<1> USE ServerAssumption
<1>1. /\ conn \in [Clients -> {"idle", "waiting", "closed"} \cup Pids] /\ queue \in Seq(Clients)
      /\ kid \in [Pids -> {"none", "running", "zombie", "lost"}]
      /\ UNCHANGED <<pc, fd1, queue>>
      /\ conn' = [c \in Clients |-> IF conn[c] = p THEN "closed" ELSE conn[c]]
      /\ \A q \in Pids : q # p => kid'[q] = kid[q]
  BY DEF PInv, TypeOK, KidExit
<1>2. \A d \in Clients : Queued(d)' <=> Queued(d)
  BY <1>1 DEF Queued
<1>3. Apart' /\ WaitSomewhere'
  BY <1>1, <1>2 DEF PInv, Apart, WaitSomewhere
<1>4. QueueWaits' /\ QueuedOnce'
  BY <1>1 DEF PInv, QueueWaits, QueuedOnce
<1>5. OwnKid'
  BY <1>1 DEF PInv, OwnKid
<1> QED
  BY <1>3, <1>4, <1>5 DEF PInv

\* The places hold at the start: nobody is connected.
LEMMA InitPInv == Init => PInv
<1> SUFFICES ASSUME Init PROVE PInv
  OBVIOUS
<1>1. TypeOK
  BY InitIInv DEF IInv
<1>2. queue = <<>> /\ Len(queue) = 0 /\ conn = [c \in Clients |-> "idle"]
      /\ pc = "accept"
  BY DEF Init
<1>3. \A c \in Clients : conn[c] = "idle" /\ conn[c] \notin Pids
  BY <1>2, ServerAssumption
<1> QED
  BY <1>1, <1>2, <1>3
  DEF PInv, Apart, WaitSomewhere, QueueWaits, QueuedOnce, OwnKid

\* Every step keeps each connection in one place.
LEMMA NextPInv == PInv /\ TypeOK' /\ [Next]_vars => PInv'
<1> SUFFICES ASSUME PInv, TypeOK', [Next]_vars PROVE PInv'
  OBVIOUS
<1> USE ServerAssumption
<1>1. ASSUME NEW c \in Clients, Connect(c) PROVE PInv'
  BY <1>1, ConnectPlaces
<1>2. ASSUME NEW c \in Clients, SendPasswd(c) PROVE PInv'
  BY <1>2, PlacesKept DEF SendPasswd
<1>3. ASSUME NEW c \in Clients, HangUp(c) PROVE PInv'
  <2>1. conn[c] # "waiting" /\ ~Queued(c)
    BY <1>3 DEF HangUp, PInv, QueueWaits, Queued
  <2> QED
    BY <1>3, <2>1, LetGo DEF HangUp
<1>4. CASE Accept
  BY <1>4, AcceptPlaces
<1>5. CASE client_access_check
  <2>1. PICK c \in Clients : /\ fd1 = <<c>> /\ (Admit \/ Reject(c))
    BY <1>5 DEF client_access_check
  <2>2. pc = "access" /\ conn[c] = "waiting" /\ ~Queued(c)
    BY <1>5, <2>1 DEF client_access_check, PInv, Apart
  <2>3. CASE Admit
    BY <2>2, <2>3, PlacesKept DEF Admit
  <2>4. CASE Reject(c)
    <3>1. \A d \in Clients : d # c => fd1 # <<d>>
      BY <2>1
    <3> QED
      BY <2>2, <2>4, <3>1, LetGo DEF Reject
  <2> QED
    BY <2>1, <2>3, <2>4
<1>6. CASE TooMany \/ ForkFails \/ ReapDone \/ ReapNoChild
  BY <1>6, PlacesKept DEF TooMany, ForkFails, ReapDone, ReapNoChild
<1>7. CASE Fork
  BY <1>7, ForkPlaces
<1>8. CASE ReapOne
  <2>1. \A p \in Pids : kid[p] = "running" => kid'[p] = "running"
    BY <1>8 DEF ReapOne, Zombies, PInv, TypeOK
  <2> QED
    BY <1>8, <2>1, PlacesKept DEF ReapOne
<1>9. CASE Close
  BY <1>9, ClosePlaces
<1>10. ASSUME NEW p \in Pids, KidExit(p) PROVE PInv'
  BY <1>10, LastListenerPlaces, KidExitPlaces
<1>11. CASE UNCHANGED vars
  BY <1>11, PlacesKept DEF vars
<1>12. CASE AcceptFails
  BY <1>12, AcceptFailsPlaces
<1> QED
  BY <1>1, <1>2, <1>3, <1>4, <1>5, <1>6, <1>7, <1>8, <1>9, <1>10, <1>11, <1>12
  DEF Next, Server

\* Every connection is in one place: in the queue or in the parent's hand
\* while it waits, with one live child of its own while it is served.
THEOREM OnePlace == Spec => []OnePlaceEach
<1>1. PInv => OnePlaceEach
  <2> SUFFICES ASSUME PInv PROVE OnePlaceEach
    OBVIOUS
  <2>1. ASSUME pc = "limit" PROVE conn[fd1[1]] = "waiting" /\ ~Queued(fd1[1])
    <3>1. PICK c \in Clients : fd1 = <<c>>
      BY <2>1 DEF PInv, TypeOK
    <3> QED
      BY <2>1, <3>1 DEF PInv, Apart
  <2> QED
    BY <2>1 DEF PInv, WaitSomewhere, QueueWaits, QueuedOnce, OwnKid, OnePlaceEach
<1>2. Init => PInv
  BY InitPInv
<1>3. TypeOK /\ TypeOK' /\ PInv /\ [Next]_vars => PInv'
  BY NextPInv
<1> QED
  BY <1>1, <1>2, <1>3, TypeCorrect, PTL DEF Spec
=============================================================================
