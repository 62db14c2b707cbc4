--------------------------- MODULE FestivalServer ---------------------------
(***************************************************************************)
(* The accept loop of the Festival server,                                 *)
(* festival/src/arch/festival/server.cc: one parent process accepts a      *)
(* connection, checks the client's access, forks an image of festival that *)
(* serves it, reaps finished children without waiting, and loops.          *)
(*                                                                         *)
(* The parent is sequential, the children and the clients are not: a child *)
(* exits, and a client connects, sends its password or hangs up, between   *)
(* any two steps of the parent.                                            *)
(***************************************************************************)
EXTENDS Integers, FiniteSets, Sequences

CONSTANTS
    Clients,        \* client programs; each may connect again and again
    Pids,           \* process ids the kernel can give to a child
    OtherKids,      \* children the process already had when the loop began
                    \* (an asynchronous audio spooler of an init file)
    Denied,         \* clients whose host fails the deny or access list
    Passwd,         \* TRUE when server_passwd is set
    Lval,           \* the values of the Lisp variables that are set
    Backlog,        \* listen(fd,5)
    DEFAULT_MAX_CLIENTS

ASSUME ServerAssumption ==
    /\ IsFiniteSet(Pids) /\ OtherKids \subseteq Pids
    /\ Pids \cap {"idle", "waiting", "closed"} = {}
    /\ Denied \subseteq Clients
    /\ Passwd \in BOOLEAN
    /\ DOMAIN Lval \subseteq {"server_max_client", "server_max_clients"}
    /\ \A name \in DOMAIN Lval : Lval[name] \in Nat
    /\ Backlog \in Nat \ {0}
    /\ DEFAULT_MAX_CLIENTS \in Nat

VARIABLES
    pc,             \* where the parent is in its loop, or "dead"
    fd1,            \* the connection the parent holds: <<client>> or <<>>
    num_clients,    \* the parent's count of busy children
    queue,          \* connections completed by the kernel, not yet accepted
    conn,           \* what each client sees of its connection
    sent,           \* how much of its password line a client has sent
    sigchld,        \* "ignored" when the process was started with SIGCHLD
                    \* ignored: the kernel then keeps no zombies for it
    kid             \* "none", "running", "zombie", or "lost": an other child
                    \* that the loop reaped as if it had been a client's

vars == <<pc, fd1, num_clients, queue, conn, sent, sigchld, kid>>

\* max_clients as festival_start_server computes it.  The variable it looks
\* up has a name of its own.
MaxClients == IF "server_max_client" \in DOMAIN Lval
              THEN Lval["server_max_client"]
              ELSE DEFAULT_MAX_CLIENTS

Queued(c)  == \E i \in 1..Len(queue) : queue[i] = c
ClientKids == {p \in Pids \ OtherKids : kid[p] # "none"}
Running    == {p \in Pids : kid[p] = "running"}
Zombies    == {p \in Pids : kid[p] = "zombie"}
LostKids   == {p \in OtherKids : kid[p] = "lost"}

\* A client's child has the listening socket open as well.
Listening == pc # "dead" \/ ~(Running \subseteq OtherKids)

-----------------------------------------------------------------------------
Init ==
    /\ pc = "accept" /\ fd1 = <<>> /\ num_clients = 0 /\ queue = <<>>
    /\ conn = [c \in Clients |-> "idle"]
    /\ sent = [c \in Clients |-> "nothing"]
    /\ sigchld \in {"default", "ignored"}
    /\ kid  = [p \in Pids |-> IF p \in OtherKids THEN "running" ELSE "none"]

(***************************************************************************)
(* The clients.                                                            *)
(***************************************************************************)
Connect(c) ==
    /\ conn[c] = "idle" /\ Listening
    /\ Len(queue) < Backlog
    /\ queue' = Append(queue, c)
    /\ conn' = [conn EXCEPT ![c] = "waiting"]
    /\ sent' = [sent EXCEPT ![c] = "nothing"]
    /\ UNCHANGED <<pc, fd1, num_clients, kid, sigchld>>

\* The password may arrive in one segment or in two, it may be wrong, and the
\* client may hang up instead.
SendPasswd(c) ==
    /\ Passwd /\ conn[c] = "waiting"
    /\ \/ sent[c] = "nothing" /\ \E p \in {"part", "all", "wrong", "eof"} :
                                    sent' = [sent EXCEPT ![c] = p]
       \/ sent[c] = "part" /\ sent' = [sent EXCEPT ![c] = "all"]
    /\ UNCHANGED <<pc, fd1, num_clients, queue, conn, kid, sigchld>>

\* A client ends its session, or finds its connection closed.
HangUp(c) ==
    /\ conn[c] \in Pids \cup {"closed"}
    /\ conn' = [conn EXCEPT ![c] = "idle"]
    /\ UNCHANGED <<pc, fd1, num_clients, queue, sent, kid, sigchld>>

-----------------------------------------------------------------------------
(***************************************************************************)
(* The parent.                                                             *)
(***************************************************************************)
Accept ==
    /\ pc = "accept" /\ queue # <<>>
    /\ fd1' = <<Head(queue)>>
    /\ queue' = Tail(queue)
    /\ pc' = "access"
    /\ UNCHANGED <<num_clients, conn, sent, kid, sigchld>>

\* accept() < 0 ends the process.  The zombies go with it, the children live on,
\* and the connections nobody can accept any more are reset.
AcceptFails ==
    /\ pc = "accept" /\ pc' = "dead"
    /\ kid' = [p \in Pids |-> IF kid[p] = "zombie" THEN "none" ELSE kid[p]]
    /\ IF Running \subseteq OtherKids
       THEN /\ queue' = <<>>
            /\ conn' = [c \in Clients |-> IF Queued(c) THEN "closed" ELSE conn[c]]
       ELSE UNCHANGED <<queue, conn>>
    /\ UNCHANGED <<fd1, num_clients, sent, sigchld>>

\* client_access_check answers FALSE: close(fd1) and back to accept.
Reject(c) ==
    /\ conn' = [conn EXCEPT ![c] = "closed"]
    /\ fd1' = <<>> /\ pc' = "accept"
    /\ UNCHANGED <<num_clients, queue, sent, kid, sigchld>>

Admit ==
    /\ pc' = "limit"
    /\ UNCHANGED <<fd1, num_clients, queue, conn, sent, kid, sigchld>>

\* The lists come first, then one read() of the password's length.  It blocks
\* while nothing has arrived and returns what has arrived: after a part of
\* the password, or of nothing, the rest of client_passwd is uninitialized.
client_access_check ==
    /\ pc = "access"
    /\ \E c \in Clients :
          /\ fd1 = <<c>>
          /\ \/ c \in Denied /\ Reject(c)
             \/ c \notin Denied /\ ~Passwd /\ Admit
             \/ /\ c \notin Denied /\ Passwd /\ sent[c] # "nothing"
                /\ \/ sent[c] \in {"all", "part", "eof"} /\ Admit
                   \/ sent[c] \in {"wrong", "part", "eof"} /\ Reject(c)

\* Mutants: the refused client stays counted; a refusal skips the reaping.
TooManyKeepsCount ==
    /\ pc = "limit" /\ num_clients + 1 > MaxClients
    /\ num_clients' = num_clients + 1
    /\ pc' = "reap"
    /\ UNCHANGED <<fd1, queue, conn, sent, kid, sigchld>>

TooManySkipsReap ==
    /\ pc = "limit" /\ num_clients + 1 > MaxClients
    /\ pc' = "close"
    /\ UNCHANGED <<fd1, num_clients, queue, conn, sent, kid, sigchld>>

\* num_clients++ > max_clients: one too many, so num_clients-- again.
TooMany ==
    /\ pc = "limit" /\ num_clients + 1 > MaxClients
    /\ pc' = "reap"
    /\ UNCHANGED <<fd1, num_clients, queue, conn, sent, kid, sigchld>>

\* Mutant: the limit test is off by one.
ForkOneMore ==
    /\ pc = "limit" /\ num_clients <= MaxClients
    /\ num_clients' = num_clients + 1
    /\ \E c \in Clients, p \in Pids \ OtherKids :
          /\ fd1 = <<c>> /\ kid[p] = "none"
          /\ kid'  = [kid  EXCEPT ![p] = "running"]
          /\ conn' = [conn EXCEPT ![c] = p]
    /\ pc' = "reap"
    /\ UNCHANGED <<fd1, queue, sent, sigchld>>

Fork ==
    /\ pc = "limit" /\ num_clients + 1 <= MaxClients
    /\ num_clients' = num_clients + 1
    /\ \E c \in Clients, p \in Pids \ OtherKids :
          /\ fd1 = <<c>> /\ kid[p] = "none"
          /\ kid'  = [kid  EXCEPT ![p] = "running"]
          /\ conn' = [conn EXCEPT ![c] = p]
    /\ pc' = "reap"
    /\ UNCHANGED <<fd1, queue, sent, sigchld>>

ForkFails ==
    /\ pc = "limit" /\ num_clients + 1 <= MaxClients
    /\ pc' = "reap"
    /\ UNCHANGED <<fd1, num_clients, queue, conn, sent, kid, sigchld>>

\* Mutant: the reaping loop does not look at num_clients.
ReapUncounted ==
    /\ pc = "reap"
    /\ \E p \in Zombies :
          kid' = [kid EXCEPT ![p] = IF p \in OtherKids THEN "lost" ELSE "none"]
    /\ num_clients' = num_clients - 1
    /\ UNCHANGED <<pc, fd1, queue, conn, sent, sigchld>>

\* waitpid(0,&statusp,WNOHANG) # 0: it takes any zombie of the process.
ReapOne ==
    /\ pc = "reap" /\ num_clients > 0
    /\ \E p \in Zombies :
          kid' = [kid EXCEPT ![p] = IF p \in OtherKids THEN "lost" ELSE "none"]
    /\ num_clients' = num_clients - 1
    /\ UNCHANGED <<pc, fd1, queue, conn, sent, sigchld>>

\* Mutant: the loop counts a failed waitpid without its own guard.
ReapNoChildTwice ==
    /\ pc = "reap"
    /\ Running = {} \/ Zombies = {}
    /\ num_clients' = num_clients - 1
    /\ UNCHANGED <<pc, fd1, queue, conn, sent, kid, sigchld>>

\* waitpid answers -1 when there is no child at all, and the loop counts it.
ReapNoChild ==
    /\ pc = "reap" /\ num_clients > 0
    /\ Running = {} /\ Zombies = {}
    /\ num_clients' = num_clients - 1
    /\ UNCHANGED <<pc, fd1, queue, conn, sent, kid, sigchld>>

ReapDone ==
    /\ pc = "reap"
    /\ num_clients = 0 \/ (Zombies = {} /\ Running # {})
    /\ pc' = "close"
    /\ UNCHANGED <<fd1, num_clients, queue, conn, sent, kid, sigchld>>

\* Mutant: the parent loops without close(fd1).
CloseForgotten ==
    /\ pc = "close"
    /\ fd1' = <<>> /\ pc' = "accept"
    /\ UNCHANGED <<num_clients, queue, conn, sent, kid, sigchld>>

\* close(fd1): the connection survives only where a child holds it.
Close ==
    /\ pc = "close"
    /\ conn' = [c \in Clients |->
                   IF fd1 = <<c>> /\ conn[c] = "waiting" /\ ~Queued(c)
                   THEN "closed" ELSE conn[c]]
    /\ fd1' = <<>> /\ pc' = "accept"
    /\ UNCHANGED <<num_clients, queue, sent, kid, sigchld>>

Server == \/ Accept \/ client_access_check \/ TooMany \/ Fork \/ ForkFails
          \/ ReapOne \/ ReapNoChild \/ ReapDone \/ Close

-----------------------------------------------------------------------------
(***************************************************************************)
(* The children: repl_from_socket reads until its client is gone or quits. *)
(***************************************************************************)
LastListener(p) == pc = "dead" /\ Running \ OtherKids = {p}

KidExit(p) ==
    /\ kid[p] = "running"
    /\ kid' = [kid EXCEPT ![p] = IF sigchld = "ignored" \/ pc = "dead"
                                THEN "none" ELSE "zombie"]
    /\ queue' = IF LastListener(p) THEN <<>> ELSE queue
    /\ conn' = [c \in Clients |-> IF conn[c] = p \/ (LastListener(p) /\ Queued(c))
                                  THEN "closed" ELSE conn[c]]
    /\ UNCHANGED <<pc, fd1, num_clients, sent, sigchld>>

Next ==
    \/ Server \/ AcceptFails
    \/ \E c \in Clients : Connect(c) \/ SendPasswd(c) \/ HangUp(c)
    \/ \E p \in Pids : KidExit(p)

(***************************************************************************)
(* The parent is a process the system schedules; a client that was told to *)
(* send a password sends all of it; a session ends.                        *)
(***************************************************************************)
Fairness ==
    /\ WF_vars(Server)
    /\ \A c \in Clients : WF_vars(SendPasswd(c))
    /\ \A p \in Pids \ OtherKids : WF_vars(KidExit(p))

Spec == Init /\ [][Next]_vars
FairSpec == Spec /\ Fairness

-----------------------------------------------------------------------------
(***************************************************************************)
(* Properties.                                                             *)
(***************************************************************************)
TypeOK ==
    /\ pc \in {"accept", "access", "limit", "reap", "close", "dead"}
    /\ fd1 \in {<<>>} \cup {<<c>> : c \in Clients}
    /\ num_clients \in Nat
    /\ queue \in Seq(Clients)
    /\ conn \in [Clients -> {"idle", "waiting", "closed"} \cup Pids]
    /\ sent \in [Clients -> {"nothing", "part", "all", "wrong", "eof"}]
    /\ sigchld \in {"default", "ignored"}
    /\ kid \in [Pids -> {"none", "running", "zombie", "lost"}]
    /\ fd1 = <<>> <=> pc \in {"accept", "dead"}

\* num_clients counts the client children that are not yet reaped, less the
\* other children that the waitpid(0,...) of the loop took for clients'.
\* Where the kernel reaps it may count too many, never too few.
CounterSound ==
    pc # "dead" =>
        IF sigchld = "ignored"
        THEN num_clients >= Cardinality(ClientKids)
        ELSE num_clients = Cardinality(ClientKids) - Cardinality(LostKids)

\* The server never has more client processes than max_clients, running or
\* waiting to be reaped, unless a reaped stranger has made room for them.
LimitRespected ==
    Cardinality(ClientKids) <= MaxClients + Cardinality(LostKids)

\* A client is in exactly one place: in the queue or in the parent's hand
\* while it waits, with a live child of its own while it is served.
OnePlaceEach ==
    /\ \A c \in Clients : conn[c] = "waiting" => Queued(c) \/ fd1 = <<c>>
    /\ \A i \in 1..Len(queue) : conn[queue[i]] = "waiting"
    /\ pc = "limit" => /\ conn[fd1[1]] = "waiting" /\ ~Queued(fd1[1])
    /\ \A i, j \in 1..Len(queue) : queue[i] = queue[j] => i = j
    /\ \A c, d \in Clients :
          conn[c] \in Pids => /\ kid[conn[c]] = "running"
                              /\ conn[c] = conn[d] => c = d

\* Every connection is answered: served by a child or closed, however long
\* the queue and whatever the others do, and when the server has ended too.
EveryClientAnswered ==
    \A c \in Clients : conn[c] = "waiting" ~> conn[c] # "waiting"

\* A full server recovers: when connections keep reaching the limit test,
\* a fork is tried again and again, though zombies are counted as clients
\* until the round after they died.  (Where SIGCHLD is ignored the count is
\* repaired only when no child is left, so there the spooler must end.)
FullServerRecovers ==
    []<><<TooMany>>_vars
        /\ (sigchld = "default" \/ <>(Running \cap OtherKids = {}))
    => []<><<Fork \/ ForkFails>>_vars
=============================================================================
